-------------------------- MODULE OrchestratorProofs --------------------------
(***************************************************************************)
(* Theorems about the module Orchestrator, for every set of episodes and of*)
(* stops, every limit and every bound.  IInv, the inductive invariant, is  *)
(* spelled out before the first step lemma; every action of Next has a     *)
(* lemma of its own, and the first theorems follow.  The later parts put   *)
(* more on top of it, each with its own invariant: the stops, the verdict, *)
(* the recorder's folders, the refinement of EvaluationRun, the counts.    *)
(***************************************************************************)
EXTENDS Orchestrator, WellFoundedInduction, FiniteSetTheorems, TLAPS

-----------------------------------------------------------------------------
(* The table of moves (RunRules): what the orchestrator asks for is in it. *)

LEMMA PreflightEdge ==
    ASSUME NEW role,
           NEW res \in BOOLEAN, ~res
    PROVE  CheckTransition("PREFLIGHT", "VERIFY_INITIAL", "preflight_passed", "orchestrator",
                           "none", role, res)
<1> DEFINE r == Rule("PREFLIGHT", "VERIFY_INITIAL", {"preflight_passed"}, ORCH, {"none"}, "any")
<1>1. r \in TRANSITIONS
  BY DEF TRANSITIONS, StartRules
<1>2. ResultAllowed("PREFLIGHT", "VERIFY_INITIAL", res)
  BY DEF ResultAllowed, RESULT_TRANSITIONS
<1> QED
  BY <1>1, <1>2 DEF CheckTransition, Rule, ORCH

LEMMA ToHumanEdge ==
    ASSUME NEW s \in SceneStates \cup {"PREFLIGHT"}, NEW why \in TO_HUMAN,
           NEW who \in ORCH_OR_OPERATOR, NEW role,
           NEW res \in BOOLEAN, ~res
    PROVE  CheckTransition(s, "WAIT_HUMAN", why, who, "none", role, res)
<1> DEFINE r == Rule(s, "WAIT_HUMAN", TO_HUMAN, ORCH_OR_OPERATOR, Quiet, "any")
<1>1. r \in TRANSITIONS
  BY DEF TRANSITIONS, StartRules
<1>2. ResultAllowed(s, "WAIT_HUMAN", res)
  BY DEF ResultAllowed, RESULT_TRANSITIONS, SceneStates
<1> QED
  BY <1>1, <1>2 DEF CheckTransition, Rule, Quiet

LEMMA CompletedEdge ==
    ASSUME NEW s \in SceneStates, NEW role,
           NEW res \in BOOLEAN, ~res
    PROVE  CheckTransition(s, "COMPLETED", "run_completed", "orchestrator", "none", role, res)
<1> DEFINE r == Rule(s, "COMPLETED", {"run_completed"}, ORCH, {"none"}, "any")
<1>1. r \in TRANSITIONS
  BY DEF TRANSITIONS, StartRules
<1>2. ResultAllowed(s, "COMPLETED", res)
  BY DEF ResultAllowed, RESULT_TRANSITIONS, SceneStates
<1> QED
  BY <1>1, <1>2 DEF CheckTransition, Rule, ORCH

LEMMA ForwardEdge ==
    ASSUME NEW s \in SceneStates,
           NEW res \in BOOLEAN, ~res
    PROVE  CheckTransition(s, "FORWARD_ACTIVE", "scene_ready", "orchestrator", "policy_steps",
                           "forward", res)
<1> DEFINE r == Rule(s, "FORWARD_ACTIVE", {"scene_ready", "subtask_dispatched"}, ORCH,
                     {"policy_steps"}, "forward")
<1>1. r \in TRANSITIONS
  BY DEF TRANSITIONS, StartRules
<1>2. ResultAllowed(s, "FORWARD_ACTIVE", res)
  BY DEF ResultAllowed, RESULT_TRANSITIONS, SceneStates
<1> QED
  BY <1>1, <1>2 DEF CheckTransition, Rule, ORCH

LEMMA ResetEdge ==
    ASSUME NEW s \in SceneStates, NEW why \in {"scene_reset_required", "scene_unknown"},
           NEW res \in BOOLEAN, ~res
    PROVE  CheckTransition(s, "RESET_ACTIVE", why, "orchestrator", "policy_steps", "reset", res)
<1> DEFINE r == Rule(s, "RESET_ACTIVE", {"scene_reset_required", "scene_unknown",
                     "subtask_dispatched"}, ORCH, {"policy_steps"}, "reset")
<1>1. r \in TRANSITIONS
  BY DEF TRANSITIONS, StartRules
<1>2. ResultAllowed(s, "RESET_ACTIVE", res)
  BY DEF ResultAllowed, RESULT_TRANSITIONS, SceneStates
<1> QED
  BY <1>1, <1>2 DEF CheckTransition, Rule, ORCH

LEMMA StoppingEdge ==
    ASSUME NEW why \in FORWARD_STOPS, NEW who \in ORCH_OR_OPERATOR,
           NEW res \in BOOLEAN, ~res
    PROVE  CheckTransition("FORWARD_ACTIVE", "FORWARD_STOPPING", why, who, "hold", "forward",
                           res)
<1> DEFINE r == Rule("FORWARD_ACTIVE", "FORWARD_STOPPING", FORWARD_STOPS, ORCH_OR_OPERATOR,
                     {"hold"}, "forward")
<1>1. r \in TRANSITIONS
  BY DEF TRANSITIONS, ForwardRules
<1>2. ResultAllowed("FORWARD_ACTIVE", "FORWARD_STOPPING", res)
  BY DEF ResultAllowed, RESULT_TRANSITIONS
<1> QED
  BY <1>1, <1>2 DEF CheckTransition, Rule

LEMMA FinalizingEdge ==
    ASSUME NEW why \in FORWARD_STOPS, NEW who \in ORCH_OR_OPERATOR,
           NEW res \in BOOLEAN, ~res
    PROVE  CheckTransition("FORWARD_STOPPING", "FORWARD_FINALIZE", why, who, "policy_quiesce",
                           "forward", res)
<1> DEFINE r == Rule("FORWARD_STOPPING", "FORWARD_FINALIZE", FORWARD_STOPS, ORCH_OR_OPERATOR,
                     {"policy_quiesce"}, "forward")
<1>1. r \in TRANSITIONS
  BY DEF TRANSITIONS, ForwardRules
<1>2. ResultAllowed("FORWARD_STOPPING", "FORWARD_FINALIZE", res)
  BY DEF ResultAllowed, RESULT_TRANSITIONS
<1> QED
  BY <1>1, <1>2 DEF CheckTransition, Rule

LEMMA SealEdge ==
    ASSUME NEW why \in FORWARD_STOPS, NEW who \in ORCH_OR_OPERATOR, NEW kind \in Seal,
           NEW res \in BOOLEAN, res
    PROVE  CheckTransition("FORWARD_FINALIZE", "ROBOT_HOME", why, who, kind, "forward", res)
<1> DEFINE r == Rule("FORWARD_FINALIZE", "ROBOT_HOME", FORWARD_STOPS, ORCH_OR_OPERATOR, Seal,
                     "forward")
<1>1. r \in TRANSITIONS
  BY DEF TRANSITIONS, ForwardRules
<1>2. ResultAllowed("FORWARD_FINALIZE", "ROBOT_HOME", res)
  BY DEF ResultAllowed, RESULT_TRANSITIONS
<1> QED
  BY <1>1, <1>2 DEF CheckTransition, Rule

LEMMA HomeEdge ==
    ASSUME NEW who \in ORCH_OR_OPERATOR,
           NEW res \in BOOLEAN, ~res
    PROVE  CheckTransition("ROBOT_HOME", "SCENE_ASSESS", "robot_home_reached", who, "home",
                           "forward", res)
<1> DEFINE r == Rule("ROBOT_HOME", "SCENE_ASSESS", {"robot_home_reached",
                     "subtask_forward_done"}, ORCH_OR_OPERATOR, {"home"}, "forward")
<1>1. r \in TRANSITIONS
  BY DEF TRANSITIONS, ForwardRules
<1>2. ResultAllowed("ROBOT_HOME", "SCENE_ASSESS", res)
  BY DEF ResultAllowed, RESULT_TRANSITIONS
<1> QED
  BY <1>1, <1>2 DEF CheckTransition, Rule

LEMMA StopInPlaceEdge ==
    ASSUME NEW role,
           NEW res \in BOOLEAN, ~res
    PROVE  CheckTransition("ROBOT_HOME", "WAIT_HUMAN", "operator_stop", "operator", "none", role,
                           res)
<1> DEFINE r == Rule("ROBOT_HOME", "WAIT_HUMAN", {"operator_stop"}, OPERATOR, {"none"}, "any")
<1>1. r \in TRANSITIONS
  BY DEF TRANSITIONS, ForwardRules
<1>2. ResultAllowed("ROBOT_HOME", "WAIT_HUMAN", res)
  BY DEF ResultAllowed, RESULT_TRANSITIONS
<1> QED
  BY <1>1, <1>2 DEF CheckTransition, Rule, OPERATOR

LEMMA CameraInPlaceEdge ==
    ASSUME NEW role,
           NEW res \in BOOLEAN, ~res
    PROVE  CheckTransition("ROBOT_HOME", "WAIT_HUMAN", "camera_stale", "orchestrator", "none",
                           role, res)
<1> DEFINE r == Rule("ROBOT_HOME", "WAIT_HUMAN",
                     {"home_not_executed"} \cup CAMERA_TO_HUMAN \cup SUBTASK_TO_HUMAN, ORCH,
                     Quiet, "any")
<1>1. r \in TRANSITIONS
  BY DEF TRANSITIONS, ForwardRules
<1>2. ResultAllowed("ROBOT_HOME", "WAIT_HUMAN", res)
  BY DEF ResultAllowed, RESULT_TRANSITIONS
<1> QED
  BY <1>1, <1>2 DEF CheckTransition, Rule, ORCH, Quiet, CAMERA_TO_HUMAN

LEMMA VerifyingEdge ==
    ASSUME NEW why \in RESET_STOPS, NEW who \in ORCH_OR_OPERATOR,
           NEW res \in BOOLEAN, ~res
    PROVE  CheckTransition("RESET_ACTIVE", "RESET_VERIFY", why, who, "policy_quiesce", "reset",
                           res)
<1> DEFINE r == Rule("RESET_ACTIVE", "RESET_VERIFY", RESET_STOPS \cup {"subtask_ended"},
                     ORCH_OR_OPERATOR, {"policy_quiesce"}, "reset")
<1>1. r \in TRANSITIONS
  BY DEF TRANSITIONS, ResetRules
<1>2. ResultAllowed("RESET_ACTIVE", "RESET_VERIFY", res)
  BY DEF ResultAllowed, RESULT_TRANSITIONS
<1> QED
  BY <1>1, <1>2 DEF CheckTransition, Rule

LEMMA ConcludedEdge ==
    ASSUME NEW why \in RESET_OUTCOMES, NEW who \in ORCH_OR_OPERATOR, NEW kind \in Seal,
           NEW res \in BOOLEAN, ~res
    PROVE  CheckTransition("RESET_VERIFY", "RESET_FINALIZE", why, who, kind, "reset", res)
<1> DEFINE r == Rule("RESET_VERIFY", "RESET_FINALIZE", RESET_OUTCOMES \cup {"subtask_ended"},
                     ORCH_OR_OPERATOR, Seal, "reset")
<1>1. r \in TRANSITIONS
  BY DEF TRANSITIONS, ResetRules
<1>2. ResultAllowed("RESET_VERIFY", "RESET_FINALIZE", res)
  BY DEF ResultAllowed, RESULT_TRANSITIONS
<1> QED
  BY <1>1, <1>2 DEF CheckTransition, Rule

LEMMA ResetStopEdge ==
    ASSUME NEW res \in BOOLEAN, res
    PROVE  CheckTransition("RESET_FINALIZE", "WAIT_HUMAN", "operator_stop", "operator", "none", "reset",
                           res)
<1> DEFINE r == Rule("RESET_FINALIZE", "WAIT_HUMAN", {"operator_stop"}, OPERATOR, {"none"},
                     "reset")
<1>1. r \in TRANSITIONS
  BY DEF TRANSITIONS, ResetRules
<1>2. ResultAllowed("RESET_FINALIZE", "WAIT_HUMAN", res)
  BY DEF ResultAllowed, RESULT_TRANSITIONS
<1> QED
  BY <1>1, <1>2 DEF CheckTransition, Rule, OPERATOR

LEMMA ResetCameraEdge ==
    ASSUME NEW res \in BOOLEAN, res
    PROVE  CheckTransition("RESET_FINALIZE", "WAIT_HUMAN", "camera_stale", "orchestrator", "none",
                           "reset", res)
<1> DEFINE r == Rule("RESET_FINALIZE", "WAIT_HUMAN", CAMERA_TO_HUMAN \cup SUBTASK_TO_HUMAN, ORCH,
                     {"none"}, "reset")
<1>1. r \in TRANSITIONS
  BY DEF TRANSITIONS, ResetRules
<1>2. ResultAllowed("RESET_FINALIZE", "WAIT_HUMAN", res)
  BY DEF ResultAllowed, RESULT_TRANSITIONS
<1> QED
  BY <1>1, <1>2 DEF CheckTransition, Rule, ORCH, CAMERA_TO_HUMAN

LEMMA ResetHomeEdge ==
    ASSUME NEW why \in RESET_OUTCOMES \ {"reset_verified", "camera_stale"},
           NEW who \in ORCH_OR_OPERATOR,
           NEW res \in BOOLEAN, res
    PROVE  CheckTransition("RESET_FINALIZE", "WAIT_HUMAN", why, who, "home", "reset", res)
<1> DEFINE r == Rule("RESET_FINALIZE", "WAIT_HUMAN",
                     RESET_OUTCOMES \ ({"reset_verified"} \cup CAMERA_TO_HUMAN),
                     ORCH_OR_OPERATOR, {"home"}, "reset")
<1>1. r \in TRANSITIONS
  BY DEF TRANSITIONS, ResetRules
<1>2. ResultAllowed("RESET_FINALIZE", "WAIT_HUMAN", res)
  BY DEF ResultAllowed, RESULT_TRANSITIONS
<1> QED
  BY <1>1, <1>2 DEF CheckTransition, Rule, CAMERA_TO_HUMAN

LEMMA ResetAgainEdge ==
    ASSUME NEW why \in {"reset_verified", "scene_reset_required", "scene_unknown"},
           NEW res \in BOOLEAN, res
    PROVE  CheckTransition("RESET_FINALIZE", "VERIFY_INITIAL", why, "orchestrator", "home",
                           "reset", res)
<1> DEFINE r == Rule("RESET_FINALIZE", "VERIFY_INITIAL", {"reset_verified",
                     "scene_reset_required", "scene_unknown", "subtask_reverse_done"}, ORCH,
                     {"home"}, "reset")
<1>1. r \in TRANSITIONS
  BY DEF TRANSITIONS, ResetRules
<1>2. ResultAllowed("RESET_FINALIZE", "VERIFY_INITIAL", res)
  BY DEF ResultAllowed, RESULT_TRANSITIONS
<1> QED
  BY <1>1, <1>2 DEF CheckTransition, Rule, ORCH

LEMMA EndEdge ==
    ASSUME NEW role,
           NEW res \in BOOLEAN, ~res
    PROVE  CheckTransition("WAIT_HUMAN", "COMPLETED", "operator_stop", "operator", "none", role,
                           res)
<1> DEFINE r == Rule("WAIT_HUMAN", "COMPLETED", {"operator_stop"}, OPERATOR, {"none"}, "any")
<1>1. r \in TRANSITIONS
  BY DEF TRANSITIONS, HumanRules
<1>2. ResultAllowed("WAIT_HUMAN", "COMPLETED", res)
  BY DEF ResultAllowed, RESULT_TRANSITIONS
<1> QED
  BY <1>1, <1>2 DEF CheckTransition, Rule, OPERATOR

LEMMA ResumeEdge ==
    ASSUME NEW s \in HUMAN_STATES, NEW role,
           NEW res \in BOOLEAN, ~res
    PROVE  CheckTransition(s, "PREFLIGHT", "human_resumed", "operator", "none", role, res)
<1> DEFINE r == Rule(s, "PREFLIGHT", {"human_resumed"}, OPERATOR, {"none"}, "any")
<1>1. r \in TRANSITIONS
  BY DEF TRANSITIONS, HumanRules
<1>2. ResultAllowed(s, "PREFLIGHT", res)
  BY DEF ResultAllowed, RESULT_TRANSITIONS, HUMAN_STATES
<1> QED
  BY <1>1, <1>2 DEF CheckTransition, Rule, OPERATOR

\* The reasons the loop locks a run for.
FaultReasons ==
    {"safety_stop", "recorder_failed", "home_failed", "policy_error", "watchdog_timeout"}

LEMMA FaultEdge ==
    ASSUME NEW s \in AERI_STATES \ HOLD_STATES, NEW why \in FaultReasons,
           NEW kind \in {"none", "hold"}, NEW role, NEW res \in BOOLEAN,
           res = (s \in EPISODE_STATES)
    PROVE  CheckTransition(s, "FAULT_LOCKED", why,
                           IF why = "safety_stop" THEN "safety_guard" ELSE "orchestrator",
                           kind, role, res)
<1> DEFINE who == IF why = "safety_stop" THEN "safety_guard" ELSE "orchestrator"
           r == Rule(s, "FAULT_LOCKED", FAULT_REASONS[who], {who},
                     IF who = "recovery" THEN {"none"} ELSE {"none", "hold"}, "any")
<1>1. s \in AERI_STATES \ (TERMINAL \cup {"FAULT_LOCKED"})
  BY DEF TERMINAL, HOLD_STATES
<1>2. who \in DOMAIN FAULT_REASONS /\ why \in FAULT_REASONS[who] /\ who # "recovery"
  BY DEF FAULT_REASONS, FaultReasons
<1> HIDE DEF who
<1>3. r \in TRANSITIONS
  <2>1. r \in FaultRulesOf(who)
    BY <1>1, Zenon DEF FaultRulesOf
  <2> HIDE DEF r
  <2> QED
    BY <1>2, <2>1, Zenon DEF FaultRules, TRANSITIONS
<1>4. ResultAllowed(s, "FAULT_LOCKED", res)
  <2>1. CASE s \in EPISODE_STATES
    BY <2>1 DEF ResultAllowed
  <2>2. CASE s \notin EPISODE_STATES
    <3>1. res = FALSE
      BY <2>2
    <3>2. <<s, "FAULT_LOCKED">> \notin RESULT_TRANSITIONS
      BY DEF RESULT_TRANSITIONS
    <3> QED
      BY <3>1, <3>2 DEF ResultAllowed
  <2> QED
    BY <2>1, <2>2
<1>5. CheckTransition(s, "FAULT_LOCKED", why, who, kind, role, res)
  BY <1>2, <1>3, <1>4 DEF CheckTransition, Rule
<1> QED
  BY <1>5 DEF who

-----------------------------------------------------------------------------
(* The invariant.  Its parts take what they speak about as arguments, so   *)
(* that a step is checked on the values it leaves behind.                  *)

Kinds == {"none", "policy_steps", "hold", "policy_quiesce", "recorder_seal", "recorder_abort",
          "home"}
TxStages == {"prepared", "homing", "acted", "acknowledged"}
Commands == StopIds \cup {NoStop, OtherId}
Reasons ==
    FORWARD_STOPS \cup RESET_STOPS \cup RESET_OUTCOMES \cup TO_HUMAN \cup FaultReasons
    \cup {"none", "preflight_passed", "run_completed", "scene_ready", "robot_home_reached",
          "human_resumed", "recovery_ambiguous"}
Principals == {"orchestrator", "operator", "safety_guard", "recovery"}
EpOrNone == Eps \cup {NoEp}
Txs == [to : AERI_STATES, reason : Reasons, kind : Kinds, who : Principals, cmd : Commands,
        ep : EpOrNone, res : BOOLEAN]
Journals ==
    [state : AERI_STATES, episode : EpOrNone, open : Txs \cup {NoTx},
     ack : {"none", "yes", "no", "unknown"}, attempted : SUBSET Keys, begun : SUBSET Eps,
     sealed : SUBSET Eps, discards : SUBSET Eps, commands : SUBSET StopIds,
     results : [Eps -> Nat], complete : SUBSET Eps, rounds : SUBSET Eps]
Contexts ==
    [ep : EpOrNone, left : 0..MaxSteps, ran : BOOLEAN,
     sealed : {"none", "complete", "incomplete"}, written : BOOLEAN, auth : Commands,
     verdict : {"none", "keep", "discard"}, reason : Reasons, outcome : Reasons, early : BOOLEAN]
Rollouts == [Eps -> {"none", "open", "complete", "incomplete"}]
Locks == [by : {"nobody", "loop", "resume"} \cup StopIds,
          at : TxStages \cup {"free", "consume", "clear"}]
Tokens == {NoToken} \cup [kind : {"policy_steps", "home"}, ep : Eps]
Verdicts == {NoVerdict} \cup [ep : Eps, label : {"keep", "discard"}]

\* What the loop and its transactions keep.
RunTypes ==
    /\ journal \in Journals /\ rollout \in Rollouts /\ pc \in Pcs /\ lock \in Locks
    /\ ctx \in Contexts /\ token \in Tokens /\ halted \in BOOLEAN
    /\ numbers \in [Roles -> Nat] /\ \A r \in Roles : numbers[r] <= MaxNumber[r]

\* What the operator's threads keep.
StopTypes ==
    /\ gen \in Nat /\ stops \in [StopIds -> Nat] /\ \A c \in StopIds : stops[c] <= gen
    /\ verdict \in Verdicts

OffPcs == {"down", "abort", "prepare", "commit", "rollouts"}
IdlePcs == {"top", "rest", "preflight", "decide", "assessed", "notStarted"} \cup OffPcs
ForwardPcs == {"recording", "stopping", "stopped", "finalizing", "finalized", "sealed",
               "counted"}
ResetPcs == {"verifying", "verified", "concluded", "resetSealed"}
EpisodePcs == {"started", "drive", "step", "homed"} \cup ForwardPcs \cup ResetPcs
FaultPcs == {"faulting", "faulted", "contain", "contained"}
TxPcs == {"top", "started", "stopped", "finalized", "sealed", "homed", "verified",
          "resetSealed", "faulted", "contained"}
MotionOf(role) == IF role = "forward" THEN "FORWARD_ACTIVE" ELSE "RESET_ACTIVE"

\* What an action of that kind may answer.
Answer(kind, g) ==
    /\ kind = "policy_steps" => g \in {"yes", "operator", "policy", "policy_fault", "recorder"}
    /\ kind = "hold" => g = "yes"
    /\ kind = "policy_quiesce" => g \in {"yes", "unknown"}
    /\ kind \in Seal => g \in {"yes", "no"}
    /\ kind = "home" => g \in {"yes", "no", "unknown"}

\* The transaction the loop waits for at p: t, from state s, with context c.
Leg(p, s, c, t) ==
    /\ p = "top" =>
         /\ t.kind = "none" /\ t.ep = NoEp /\ ~t.res
         /\ \/ s = "PREFLIGHT" /\ t.to \in {"VERIFY_INITIAL", "WAIT_HUMAN"}
            \/ s \in SceneStates /\ t.to \in {"COMPLETED", "WAIT_HUMAN"}
            \/ s = "ROBOT_HOME" /\ t.to = "WAIT_HUMAN"
    /\ p \in {"faulted", "contained"} =>
         /\ s \notin HOLD_STATES /\ t.to = "FAULT_LOCKED" /\ t.kind \in {"none", "hold"}
         /\ s \in EPISODE_STATES => t.res /\ t.ep = c.ep
         /\ s \notin EPISODE_STATES => ~t.res /\ t.ep = NoEp
    /\ p \notin {"top", "faulted", "contained"} => t.ep = c.ep
    /\ p = "started" =>
         s \in SceneStates /\ t.to = MotionOf(c.ep.role) /\ t.kind = "policy_steps" /\ ~t.res
    /\ p = "stopped" =>
         s = "FORWARD_ACTIVE" /\ t.to = "FORWARD_STOPPING" /\ t.kind = "hold" /\ ~t.res
    /\ p = "finalized" =>
         /\ s = "FORWARD_STOPPING" /\ t.to = "FORWARD_FINALIZE"
         /\ t.kind = "policy_quiesce" /\ ~t.res
    /\ p = "sealed" =>
         /\ s = "FORWARD_FINALIZE" /\ t.to = "ROBOT_HOME"
         /\ t.kind = (IF c.ran THEN "recorder_seal" ELSE "recorder_abort") /\ t.res
    /\ p = "homed" /\ c.ep.role = "forward" =>
         s = "ROBOT_HOME" /\ t.to = "SCENE_ASSESS" /\ t.kind = "home" /\ ~t.res
    /\ p = "homed" /\ c.ep.role = "reset" =>
         /\ s = "RESET_FINALIZE" /\ t.to \in {"VERIFY_INITIAL", "WAIT_HUMAN"}
         /\ t.kind \in {"none", "home"} /\ t.res
    /\ p = "verified" =>
         s = "RESET_ACTIVE" /\ t.to = "RESET_VERIFY" /\ t.kind = "policy_quiesce" /\ ~t.res
    /\ p = "resetSealed" =>
         /\ s = "RESET_VERIFY" /\ t.to = "RESET_FINALIZE"
         /\ t.kind = (IF c.ran THEN "recorder_seal" ELSE "recorder_abort") /\ ~t.res

\* Where the run is when the loop is at p, its transaction over with answer g.
At(p, s, g, role) ==
    /\ p = "top" => s \in HOLD_STATES \cup SceneStates \cup {"PREFLIGHT"}
    /\ p = "rest" => s \in HOLD_STATES \cup {"PREFLIGHT"}
    /\ p = "preflight" => s = "PREFLIGHT"
    /\ p \in {"decide", "assessed", "notStarted"} => s \in SceneStates
    /\ p = "started" /\ g = "yes" => s = MotionOf(role)
    /\ p = "started" /\ g # "yes" => s \in SceneStates /\ Answer("policy_steps", g)
    /\ p \in {"drive", "step"} => s = MotionOf(role)
    /\ p \in {"recording", "stopping"} => s = "FORWARD_ACTIVE"
    /\ p \in {"stopped", "finalizing"} => s = "FORWARD_STOPPING"
    /\ p = "finalized" /\ g = "yes" => s = "FORWARD_FINALIZE"
    /\ p = "finalized" /\ g # "yes" => s = "FORWARD_STOPPING"
    /\ p = "sealed" /\ g = "yes" => s = "ROBOT_HOME"
    /\ p = "sealed" /\ g # "yes" => s = "FORWARD_FINALIZE"
    /\ p = "counted" => s = "ROBOT_HOME"
    /\ p = "homed" /\ role = "forward" /\ g = "yes" => s = "SCENE_ASSESS"
    /\ p = "homed" /\ role = "forward" /\ g # "yes" => s = "ROBOT_HOME"
    /\ p = "homed" /\ role = "reset" /\ g = "yes" =>
         s \in {"VERIFY_INITIAL", "WAIT_HUMAN", "COMPLETED", "PREFLIGHT"}
    /\ p = "homed" /\ role = "reset" /\ g # "yes" => s = "RESET_FINALIZE"
    /\ p = "verifying" => s = "RESET_ACTIVE"
    /\ p = "verified" /\ g = "yes" => s = "RESET_VERIFY"
    /\ p = "verified" /\ g # "yes" => s = "RESET_ACTIVE"
    /\ p = "concluded" => s = "RESET_VERIFY"
    /\ p = "resetSealed" /\ g = "yes" => s = "RESET_FINALIZE"
    /\ p = "resetSealed" /\ g # "yes" => s = "RESET_VERIFY"
    /\ p \in {"faulting", "contain"} => s \notin HOLD_STATES
    /\ p \in {"faulted", "contained"} => s \in {"FAULT_LOCKED", "PREFLIGHT"}
    /\ p = "rollouts" => s \in {"FAULT_LOCKED", "COMPLETED"}

\* What the loop remembers of the episode under way.
Context(p, g, c) ==
    /\ p \in IdlePcs => c = NoCtx
    /\ p \in EpisodePcs => c.ep \in Eps
    /\ p = "started" => ~c.written
    /\ p \in ForwardPcs => c.ep.role = "forward"
    /\ p \in ResetPcs => c.ep.role = "reset"
    /\ p \in {"stopping", "stopped", "finalizing", "finalized", "sealed"} =>
         c.reason \in FORWARD_STOPS
    /\ p \in {"verifying", "verified"} => c.reason \in RESET_STOPS
    /\ p \in {"concluded", "resetSealed"} => c.outcome \in RESET_OUTCOMES
    /\ p = "step" => c.left > 0
    /\ p = "recording" => g \in {"keep", "discard"}
    /\ p = "faulting" => g \in FaultReasons \cup {"contained"}

\* It remembers the episode the journal is in, which has no result yet.
Here(p, j, c) ==
    p \in EpisodePcs \cup FaultPcs /\ j.state \in EPISODE_STATES =>
        c.ep = j.episode /\ ~c.written

\* Who holds the lock, and how far its transaction is.
Holder(p, l, j, g, c) ==
    /\ l.by = "nobody" <=> l.at = "free"
    /\ l.by = "loop" =>
         /\ p \in TxPcs
         /\ \/ l.at \in TxStages
            \/ l.at = "consume" /\ g = "yes" /\ j.open = NoTx
         /\ l.at \in TxStages => j.open \in Txs /\ Leg(p, j.state, c, j.open)
         /\ l.at \in {"prepared", "homing", "acted"} => j.ack = "none" /\ j.open.kind # "none"
         /\ l.at = "homing" => j.open.kind = "home"
         /\ l.at = "acted" => Answer(j.open.kind, g)
         /\ l.at = "acknowledged" /\ j.open.kind # "none" =>
              /\ Answer(j.open.kind, g)
              /\ j.ack = "yes" <=> g = "yes"
         /\ l.at = "consume" /\ p = "top" => j.state \in {"WAIT_HUMAN", "COMPLETED"}
         /\ l.at = "consume" /\ p # "top" =>
              p = "homed" /\ c.ep.role = "reset" /\ j.state = "WAIT_HUMAN"
    /\ l.by \in StopIds =>
         \/ /\ l.at = "acknowledged" /\ j.state = "WAIT_HUMAN" /\ j.open \in Txs
            /\ j.open = Tx("COMPLETED", "operator_stop", "none", l.by, NoEp)
         \/ l.at = "consume" /\ j.state = "COMPLETED" /\ j.open = NoTx
    /\ l.by = "resume" =>
         \/ /\ l.at = "acknowledged" /\ j.state \in HUMAN_STATES /\ j.open \in Txs
            /\ j.open = Tx("PREFLIGHT", "human_resumed", "none", OtherId, NoEp)
         \/ l.at = "clear" /\ j.state = "PREFLIGHT" /\ j.open = NoTx
    /\ l.by = "nobody" /\ p \notin {"contain", "raised", "down", "abort", "commit"} =>
         j.open = NoTx

\* A process that is not up, or is halted, has nothing under way.
Off(p, l, h, t, j) ==
    /\ h => p = "raised"
    /\ h \/ p \in OffPcs => l = Free /\ t = NoToken
    /\ p \in {"abort", "prepare"} => j.state # "COMPLETED"
    /\ p = "commit" =>
         /\ j.open \in Txs /\ j.open.to = "FAULT_LOCKED" /\ j.open.kind = "none"
         /\ j.open.ep \in {NoEp, j.episode}

\* A motion token that is out.
Fence(t, l, j) ==
    /\ t.kind = "policy_steps" =>
         /\ l = Free /\ j.open = NoTx /\ j.state \in MOTION_STATES /\ j.episode = t.ep
    /\ t.kind = "home" =>
         /\ l.by = "loop" /\ l.at = "homing" /\ j.open.ep = t.ep

\* Results on disk.
Results(j) ==
    /\ \A e \in Eps :
         /\ j.results[e] \in {0, 1}
         /\ j.results[e] = 1 => e \in j.begun
         /\ e \in j.begun => [ep |-> e, kind |-> "policy_steps"] \in j.attempted
         /\ e \in j.begun => (j.state \in EPISODE_STATES /\ j.episode = e) \/ j.results[e] = 1
    /\ j.state \in EPISODE_STATES =>
         j.episode \in Eps /\ j.episode \in j.begun /\ j.results[j.episode] = 0

\* An open transaction goes on from what is on disk.
OpenFits(j, t) ==
    /\ j.state # "COMPLETED"
    /\ t.to \in MOTION_STATES =>
         /\ t.ep \in Eps /\ t.ep \notin j.begun /\ j.state \in SceneStates /\ ~t.res
         /\ [ep |-> t.ep, kind |-> "policy_steps"] \in j.attempted
    /\ t.to \in EPISODE_STATES \ MOTION_STATES =>
         j.state \in EPISODE_STATES /\ t.ep = j.episode /\ ~t.res
    /\ t.to \notin EPISODE_STATES =>
         /\ j.state \in EPISODE_STATES => t.res /\ t.ep = j.episode
         /\ j.state \notin EPISODE_STATES => ~t.res

\* The episode e was given its number by this process and has not gone home.
Unused(e, j, n) == e.number <= n[e.role] /\ [ep |-> e, kind |-> "home"] \notin j.attempted

\* An episode's number is never used twice.
Fresh(p, j, n, c) ==
    /\ p # "down" => \A k \in j.attempted : k.ep.number <= n[k.ep.role]
    /\ p \in (EpisodePcs \ {"homed"}) => Unused(c.ep, j, n)

Control ==
    /\ lock.by # "loop" /\ ~halted => At(pc, journal.state, got, ctx.ep.role)
    /\ Context(pc, got, ctx)
    /\ ~halted => Here(pc, journal, ctx)
    /\ Holder(pc, lock, journal, got, ctx)
    /\ Off(pc, lock, halted, token, journal)

OnDisk == Results(journal) /\ (journal.open # NoTx => OpenFits(journal, journal.open))

IInv ==
    /\ RunTypes /\ StopTypes
    /\ Control
    /\ Fence(token, lock, journal)
    /\ OnDisk
    /\ Fresh(pc, journal, numbers, ctx)
    /\ ~refused

-----------------------------------------------------------------------------
(* What the invariant says where a step begins.                            *)

LEMMA NoEpIsNone == NoEp \notin Eps
BY DEF NoEp, Eps, Roles

LEMMA NoTxIsNone == NoTx \notin Txs
BY DEF NoTx, Txs, AERI_STATES

LEMMA LoopFacts ==
    ASSUME IInv, NEW p, LoopAt(p)
    PROVE  /\ pc = p /\ lock.by # "loop" /\ ~halted /\ State = journal.state
           /\ At(p, journal.state, got, ctx.ep.role)
           /\ Context(p, got, ctx) /\ Here(p, journal, ctx)
           /\ journal \in Journals /\ ctx \in Contexts
<1>1. pc = p /\ lock.by # "loop" /\ ~halted /\ State = journal.state
  BY DEF LoopAt, State
<1>2. /\ At(p, journal.state, got, ctx.ep.role)
      /\ Context(p, got, ctx) /\ Here(p, journal, ctx)
  BY <1>1 DEF IInv, Control
<1> QED
  BY <1>1, <1>2 DEF IInv, RunTypes

LEMMA LockShape ==
    ASSUME NEW l \in Locks, l.by = "nobody", l.at = "free"
    PROVE  l = Free
BY DEF Locks, Free

LEMMA LockIsFree ==
    ASSUME IInv, lock.by # "loop", journal.state \notin HOLD_STATES \cup {"PREFLIGHT"}
    PROVE  lock = Free
<1>1. lock.by = "nobody"
  BY DEF IInv, RunTypes, Control, Holder, Locks, HOLD_STATES, HUMAN_STATES
<1> QED
  BY <1>1, LockShape DEF IInv, RunTypes, Control, Holder

LEMMA OpenIsNone ==
    ASSUME IInv, lock = Free, pc \notin {"contain", "raised"} \cup OffPcs
    PROVE  journal.open = NoTx
BY DEF IInv, Control, Holder, Free, OffPcs
-----------------------------------------------------------------------------
(* Three ways in which a step keeps the invariant.                         *)

\* A step of another thread: nothing changes that the loop and its
\* transactions depend on.
LEMMA ApartKeeps ==
    ASSUME IInv, RunTypes', StopTypes',
           UNCHANGED <<journal, pc, lock, got, ctx, numbers, token, halted, refused>>
    PROVE  IInv'
<1>1. Control'
  BY DEF IInv, Control
<1>2. Fence(token, lock, journal)' /\ OnDisk' /\ Fresh(pc, journal, numbers, ctx)' /\ refused' = FALSE
  BY DEF IInv, OnDisk
<1> QED
  BY <1>1, <1>2 DEF IInv

\* A step of the loop between its transactions.
LEMMA QuietKeeps ==
    ASSUME IInv, RunTypes', StopTypes',
           lock.by # "loop", ~halted, pc \notin OffPcs \cup {"contain", "raised"},
           UNCHANGED <<journal, lock, numbers, halted, refused>>,
           pc' \notin OffPcs,
           At(pc', journal.state, got', ctx'.ep.role),
           Context(pc', got', ctx'), Here(pc', journal, ctx'),
           Fence(token', lock, journal),
           pc' \in (EpisodePcs \ {"homed"}) => Unused(ctx'.ep, journal, numbers)
    PROVE  IInv'
<1>1. Control'
  <2>1. Holder(pc, lock, journal, got, ctx)'
    BY DEF IInv, Control, Holder, OffPcs
  <2>2. Off(pc, lock, halted, token, journal)'
    BY DEF Off, OffPcs
  <2> QED
    BY <2>1, <2>2 DEF Control
<1>2. OnDisk'
  BY DEF IInv, OnDisk
<1>3. Fresh(pc, journal, numbers, ctx)'
  BY DEF IInv, Fresh, OffPcs
<1> QED
  BY <1>1, <1>2, <1>3 DEF IInv

LEMMA PreparedType ==
    ASSUME IInv, NEW t \in Txs, t.kind \in NON_IDEMPOTENT_KINDS => t.ep \in Eps
    PROVE  /\ Prepared(t) \in Journals
           /\ Prepared(t).open = t /\ Prepared(t).ack = "none"
           /\ Prepared(t).state = journal.state /\ Prepared(t).episode = journal.episode
           /\ Prepared(t).begun = journal.begun /\ Prepared(t).results = journal.results
           /\ t.kind \notin NON_IDEMPOTENT_KINDS => Prepared(t).attempted = journal.attempted
           /\ t.kind \in NON_IDEMPOTENT_KINDS =>
                Prepared(t).attempted = journal.attempted \cup {KeyOf(t)}
<1>1. t.kind \in NON_IDEMPOTENT_KINDS => KeyOf(t) \in Keys
  BY DEF KeyOf, Keys
<1>2. journal \in Journals
  BY DEF IInv, RunTypes
<1> QED
  BY <1>1, <1>2 DEF Prepared, Journals

\* What a transaction that is allowed leaves on disk.
LEMMA PrepareKeepsDisk ==
    ASSUME IInv, NEW t \in Txs, t.kind \in NON_IDEMPOTENT_KINDS => t.ep \in Eps,
           OpenFits(Prepared(t), t)
    PROVE  Results(Prepared(t)) /\ OpenFits(Prepared(t), Prepared(t).open)
<1>1. Results(journal)
  BY DEF IInv, OnDisk
<1> QED
  BY <1>1, PreparedType DEF Results

\* The loop begins a transaction: t is allowed, and what the loop will
\* remember while it lasts is what the invariant asks.
LEMMA AskKeeps ==
    ASSUME IInv, NEW t \in Txs, NEW next \in TxPcs, pc \notin OffPcs \cup {"contain", "raised"},
           Asks(t, next), Allowed(t),
           RunTypes', StopTypes',
           t.kind \in NON_IDEMPOTENT_KINDS => t.ep \in Eps /\ t.ep.number <= numbers'[t.ep.role],
           \A r \in Roles : numbers[r] <= numbers'[r],
           Leg(next, journal.state, ctx', t),
           OpenFits(Prepared(t), t),
           Context(next, "none", ctx'), Here(next, journal, ctx'),
           next \in (EpisodePcs \ {"homed"}) => Unused(ctx'.ep, Prepared(t), numbers')
    PROVE  IInv'
<1> DEFINE j == Prepared(t)
<1>1. /\ journal' = j /\ refused' = refused /\ pc' = next /\ got' = "none"
      /\ lock' = [by |-> "loop", at |-> IF t.kind = "none" THEN "acknowledged" ELSE "prepared"]
      /\ token' = NoToken /\ halted' = halted /\ ~halted /\ lock = Free
  BY DEF Asks, Begin, Revoked
<1>2. /\ j \in Journals /\ j.open = t /\ j.ack = "none" /\ j.state = journal.state
      /\ j.episode = journal.episode
      /\ t.kind \notin NON_IDEMPOTENT_KINDS => j.attempted = journal.attempted
      /\ t.kind \in NON_IDEMPOTENT_KINDS => j.attempted = journal.attempted \cup {KeyOf(t)}
  BY PreparedType
<1>3. Results(j) /\ OpenFits(j, j.open)
  BY PrepareKeepsDisk
<1> HIDE DEF j
<1>4. Control'
  <2>1. Holder(next, lock', j, "none", ctx')
    <3>1. lock'.by = "loop"
          /\ (t.kind = "none" => lock'.at = "acknowledged")
          /\ (t.kind # "none" => lock'.at = "prepared")
      BY <1>1
    <3> QED
      BY <1>2, <3>1, CommandsAssumption DEF Holder, TxStages
  <2>2. Off(next, lock', FALSE, NoToken, j) /\ next \notin OffPcs
    BY DEF Off, TxPcs, OffPcs
  <2>3. Here(next, j, ctx')
    BY <1>2 DEF Here
  <2>4. lock'.by = "loop" /\ halted' = FALSE
    BY <1>1 DEF IInv, RunTypes
  <2>5. pc' = next /\ got' = "none" /\ journal' = j /\ token' = NoToken
    BY <1>1 DEF j
  <2>6. Holder(pc', lock', journal', got', ctx') /\ Context(pc', got', ctx')
    BY <2>1, <2>5
  <2>7. Here(pc', journal', ctx') /\ Off(pc', lock', halted', token', journal')
    BY <2>2, <2>3, <2>4, <2>5
  <2> QED
    BY <2>4, <2>6, <2>7 DEF Control
<1>5. Fence(token', lock', journal')
  BY <1>1 DEF Fence, NoToken
<1>6. OnDisk'
  BY <1>1, <1>3 DEF OnDisk
<1>7. Fresh(next, j, numbers', ctx')
  <2>1. ASSUME NEW k \in journal.attempted PROVE k.ep.number <= numbers'[k.ep.role]
    <3>1. k.ep \in Eps
      BY DEF IInv, RunTypes, Journals, Keys
    <3>2. k.ep.role \in Roles /\ k.ep.number \in Nat
      BY <3>1, BoundsAssumption DEF Eps
    <3>3. k.ep.number <= numbers[k.ep.role]
      BY DEF IInv, Fresh, OffPcs
    <3>4. numbers[k.ep.role] \in Nat /\ numbers'[k.ep.role] \in Nat
      BY <3>2 DEF IInv, RunTypes
    <3> QED
      BY <3>2, <3>3, <3>4
  <2>2. \A k \in j.attempted : k.ep.number <= numbers'[k.ep.role]
    BY <1>2, <2>1 DEF KeyOf
  <2>3. next \in (EpisodePcs \ {"homed"}) => Unused(ctx'.ep, j, numbers')
    BY DEF j
  <2> QED
    BY <2>2, <2>3 DEF Fresh
<1> QED
  BY <1>1, <1>4, <1>5, <1>6, <1>7 DEF IInv

-----------------------------------------------------------------------------
(* Numbers.                                                                *)

\* The least-number principle, from the library's theorem that the natural
\* numbers are well founded.
LEMMA LeastNat ==
    ASSUME NEW S \in SUBSET Nat, S # {}
    PROVE  \E x \in S : \A y \in S : x <= y
<1> DEFINE R == OpToRel(<, Nat)
<1>1. IsWellFoundedOn(R, Nat)
  BY ONLY NatLessThanWellFounded, Zenon
<1>2. \A x, y \in Nat : <<y, x>> \in R <=> y < x
  BY Zenon DEF OpToRel
<1> HIDE DEF R
<1>3. PICK x \in S : \A y \in S : ~(<<y, x>> \in R)
  BY <1>1, WFMin
<1>4. ASSUME NEW y \in S PROVE x <= y
  <2>1. ~(y < x)
    BY <1>2, <1>3
  <2> QED
    BY <2>1
<1> QED
  BY <1>4

\* A bounded set of numbers has a largest one.
LEMMA Largest ==
    ASSUME NEW S \in SUBSET Nat, S # {}, NEW n \in Nat, \A x \in S : x <= n
    PROVE  \E x \in S : \A y \in S : y <= x
<1> DEFINE Above == {m \in Nat : \A x \in S : x <= m}
<1>1. PICK m \in Above : \A k \in Above : m <= k
  <2>1. n \in Above
    OBVIOUS
  <2> HIDE DEF Above
  <2>2. Above \in SUBSET Nat
    BY DEF Above
  <2> QED
    BY <2>1, <2>2, LeastNat
<1>2. m \in S
  <2>1. SUFFICES ASSUME m \notin S PROVE FALSE
    OBVIOUS
  <2>2. PICK x \in S : TRUE
    OBVIOUS
  <2>3. \A y \in S : y <= m - 1
    BY <1>1, <2>1
  <2>4. m - 1 \in Above
    BY <1>1, <2>2, <2>3
  <2> QED
    BY <1>1, <2>4
<1> QED
  BY <1>1, <1>2
-----------------------------------------------------------------------------
(* Transactions and stops.                                                 *)

LEMMA TxType ==
    ASSUME NEW to \in AERI_STATES, NEW reason \in Reasons, NEW kind \in Kinds,
           NEW cmd \in Commands, NEW ep \in EpOrNone
    PROVE  /\ Tx(to, reason, kind, cmd, ep) \in Txs
           /\ Tx(to, reason, kind, cmd, ep).to = to
           /\ Tx(to, reason, kind, cmd, ep).reason = reason
           /\ Tx(to, reason, kind, cmd, ep).kind = kind
           /\ Tx(to, reason, kind, cmd, ep).cmd = cmd
           /\ Tx(to, reason, kind, cmd, ep).ep = ep
           /\ ~Tx(to, reason, kind, cmd, ep).res
<1> DEFINE who == CASE cmd # NoStop -> "operator"
                    [] to = "FAULT_LOCKED" /\ reason = "safety_stop" -> "safety_guard"
                    [] reason = "recovery_ambiguous" -> "recovery"
                    [] OTHER -> "orchestrator"
<1>1. who \in Principals
  <2>1. who \in {"operator", "safety_guard", "recovery", "orchestrator"}
    BY Zenon
  <2> HIDE DEF who
  <2> QED
    BY <2>1 DEF Principals
<1>2. Tx(to, reason, kind, cmd, ep)
        = [to |-> to, reason |-> reason, kind |-> kind, who |-> who, cmd |-> cmd,
           ep |-> ep, res |-> FALSE]
  BY DEF Tx
<1> HIDE DEF who
<1>3. Tx(to, reason, kind, cmd, ep) \in Txs
  BY <1>1, <1>2 DEF Txs
<1> QED
  BY <1>2, <1>3

LEMMA WithResultType ==
    ASSUME NEW t \in Txs
    PROVE  /\ WithResult(t) \in Txs /\ WithResult(t).res
           /\ WithResult(t).to = t.to /\ WithResult(t).reason = t.reason
           /\ WithResult(t).kind = t.kind /\ WithResult(t).who = t.who
           /\ WithResult(t).cmd = t.cmd /\ WithResult(t).ep = t.ep
BY DEF WithResult, Txs

\* On whose authority a transaction is.
LEMMA TxWho ==
    ASSUME NEW to, NEW reason, NEW kind, NEW cmd, NEW ep
    PROVE  LET safe == to = "FAULT_LOCKED" /\ reason = "safety_stop"
               who == Tx(to, reason, kind, cmd, ep).who
           IN  /\ cmd # NoStop /\ ~safe /\ reason # "recovery_ambiguous" => who = "operator"
               /\ cmd = NoStop /\ safe => who = "safety_guard"
               /\ cmd = NoStop /\ ~safe /\ reason # "recovery_ambiguous" => who = "orchestrator"
<1> DEFINE safe == to = "FAULT_LOCKED" /\ reason = "safety_stop"
           who == CASE cmd # NoStop -> "operator"
                    [] safe -> "safety_guard"
                    [] reason = "recovery_ambiguous" -> "recovery"
                    [] OTHER -> "orchestrator"
<1>1. /\ cmd # NoStop /\ ~safe /\ reason # "recovery_ambiguous" => who = "operator"
      /\ cmd = NoStop /\ safe => who = "safety_guard"
      /\ cmd = NoStop /\ ~safe /\ reason # "recovery_ambiguous" => who = "orchestrator"
  BY Zenon
<1>2. Tx(to, reason, kind, cmd, ep).who = who
  BY DEF Tx
<1> HIDE DEF who
<1> QED
  BY <1>1, <1>2

LEMMA FirstStopType ==
    ASSUME StopTypes
    PROVE  /\ FirstStop \in StopIds \cup {NoStop}
           /\ Stopped => FirstStop \in StopIds /\ stops[FirstStop] > 0
           /\ Stopped <=> \E c \in StopIds : stops[c] > 0
<1> DEFINE First(c) == /\ stops[c] > 0
                       /\ \A d \in StopIds : stops[d] > 0 => stops[c] <= stops[d]
<1>1. CASE \A c \in StopIds : stops[c] = 0
  BY <1>1 DEF FirstStop, Stopped, StopTypes
<1>2. CASE \E c \in StopIds : stops[c] # 0
  <2> DEFINE Gens == {stops[c] : c \in {d \in StopIds : stops[d] > 0}}
  <2>1. PICK n \in Gens : \A m \in Gens : n <= m
    <3>1. Gens \in SUBSET Nat /\ Gens # {}
      BY <1>2 DEF StopTypes
    <3> HIDE DEF Gens
    <3> QED
      BY <3>1, LeastNat
  <2>2. \E c \in StopIds : First(c)
    BY <2>1
  <2>3. FirstStop = CHOOSE c \in StopIds : First(c)
    BY <1>2 DEF FirstStop
  <2>4. FirstStop \in StopIds /\ First(FirstStop)
    <3> HIDE DEF First
    <3> QED
      BY <2>2, <2>3
  <2> QED
    BY <2>4, CommandsAssumption DEF Stopped
<1> QED
  BY <1>1, <1>2

-----------------------------------------------------------------------------
(* The loop begins a transaction.                                          *)

\* A leg of the loop's way goes on from what is on disk.
LEMMA LegFits ==
    ASSUME IInv, NEW t \in Txs, NEW next \in TxPcs \ {"started"}, NEW c,
           t.kind \in NON_IDEMPOTENT_KINDS => t.ep \in Eps,
           Leg(next, journal.state, c, t), Context(next, "none", c), Here(next, journal, c)
    PROVE  OpenFits(Prepared(t), t)
<1> DEFINE j == Prepared(t)
<1>1. j.state = journal.state /\ j.episode = journal.episode /\ j.begun = journal.begun
  BY PreparedType
<1> HIDE DEF j
<1>2. journal.state # "COMPLETED" /\ t.to \notin MOTION_STATES
  BY DEF Leg, TxPcs, HOLD_STATES, SceneStates, MOTION_STATES, Context, EpisodePcs, Eps, Roles
<1>3. t.to \in EPISODE_STATES =>
        journal.state \in EPISODE_STATES /\ t.ep = journal.episode /\ ~t.res
  BY DEF Leg, TxPcs, EPISODE_STATES, SceneStates, Context, EpisodePcs, ForwardPcs, ResetPcs,
         Eps, Roles, Here, FaultPcs
<1>4. t.to \notin EPISODE_STATES =>
        /\ journal.state \in EPISODE_STATES => t.res /\ t.ep = journal.episode
        /\ journal.state \notin EPISODE_STATES => ~t.res
  BY DEF Leg, TxPcs, EPISODE_STATES, SceneStates, Context, EpisodePcs, ForwardPcs, ResetPcs,
         Eps, Roles, Here, FaultPcs
<1> QED
  BY <1>1, <1>2, <1>3, <1>4 DEF OpenFits, j

\* The loop's next transaction in an episode, or the one that ends its wait.
LEMMA MovesKeep ==
    ASSUME IInv, NEW t \in Txs, NEW next \in TxPcs \ {"started"},
           pc \notin OffPcs \cup {"contain", "raised"},
           Moves(t, next),
           CheckTransition(journal.state, t.to, t.reason, t.who, t.kind, t.ep.role, t.res),
           t.kind # "policy_steps",
           t.kind = "home" => next = "homed" /\ t.ep \in Eps /\ Unused(t.ep, journal, numbers),
           next \in (EpisodePcs \ {"homed"}) => Unused(ctx.ep, journal, numbers),
           Leg(next, journal.state, ctx, t), Context(next, "none", ctx), Here(next, journal, ctx)
    PROVE  IInv'
<1>1. /\ Asks(t, next) /\ UNCHANGED <<rollout, ctx, counts, opvars>> /\ lock = Free /\ ~halted
      /\ journal.open = NoTx
  BY OpenIsNone DEF Moves, Asks, Begin
<1>2. Allowed(t)
  BY <1>1 DEF Allowed, State, KeyOf, Unused, NON_IDEMPOTENT_KINDS
<1>3. t.kind \in NON_IDEMPOTENT_KINDS => t.ep \in Eps
  BY DEF NON_IDEMPOTENT_KINDS
<1>4. OpenFits(Prepared(t), t)
  BY <1>3, LegFits
<1>5. /\ Prepared(t) \in Journals
      /\ t.kind \notin NON_IDEMPOTENT_KINDS => Prepared(t).attempted = journal.attempted
  BY <1>3, PreparedType
<1>6. RunTypes'
  <2>1. /\ journal' = Prepared(t) /\ pc' = next /\ got' = "none" /\ token' = NoToken
        /\ lock' = [by |-> "loop", at |-> IF t.kind = "none" THEN "acknowledged" ELSE "prepared"]
        /\ halted' = halted /\ rollout' = rollout /\ ctx' = ctx /\ numbers' = numbers
    BY <1>1, <1>2 DEF Asks, Begin, Revoked, counts
  <2>2. lock' \in Locks
    BY <2>1 DEF Locks, TxStages
  <2>3. pc' \in Pcs
    BY <2>1 DEF Pcs, TxPcs
  <2>4. token' \in Tokens
    BY <2>1 DEF Tokens
  <2>5. journal' \in Journals
    BY <1>5, <2>1
  <2>6. rollout' \in Rollouts /\ ctx' \in Contexts /\ halted' \in BOOLEAN
    BY <2>1 DEF IInv, RunTypes
  <2>7. numbers' \in [Roles -> Nat] /\ \A r \in Roles : numbers'[r] <= MaxNumber[r]
    BY <2>1 DEF IInv, RunTypes
  <2> QED
    BY <2>2, <2>3, <2>4, <2>5, <2>6, <2>7 DEF RunTypes
<1>7. StopTypes'
  BY <1>1 DEF IInv, StopTypes, opvars
<1>8. ctx' = ctx /\ numbers' = numbers
  BY <1>1 DEF counts
<1>9. \A r \in Roles : numbers[r] <= numbers'[r]
  BY <1>8 DEF IInv, RunTypes
<1>10. next \in (EpisodePcs \ {"homed"}) => Unused(ctx.ep, Prepared(t), numbers)
  BY <1>5 DEF Unused, NON_IDEMPOTENT_KINDS
<1>11. t.kind \in NON_IDEMPOTENT_KINDS => t.ep \in Eps /\ t.ep.number <= numbers'[t.ep.role]
  BY <1>8 DEF NON_IDEMPOTENT_KINDS, Unused
<1> HIDE DEF Moves, Asks
<1> QED
  BY <1>1, <1>2, <1>4, <1>6, <1>7, <1>8, <1>9, <1>10, <1>11, AskKeeps

-----------------------------------------------------------------------------
(* The loop goes on between its transactions.                              *)

LEMMA GoesKeep ==
    ASSUME IInv, LoopAt(pc), pc \notin OffPcs \cup {"contain", "raised"},
           UNCHANGED <<journal, rollout, lock, numbers, halted, gen, stops, refused>>,
           verdict' \in Verdicts, token' \in Tokens, ctx' \in Contexts, pc' \in Pcs \ OffPcs,
           At(pc', journal.state, got', ctx'.ep.role),
           Context(pc', got', ctx'), Here(pc', journal, ctx'),
           Fence(token', lock, journal),
           pc' \in (EpisodePcs \ {"homed"}) => Unused(ctx'.ep, journal, numbers)
    PROVE  IInv'
<1>1. RunTypes' /\ StopTypes'
  BY DEF IInv, RunTypes, StopTypes
<1>2. lock.by # "loop" /\ ~halted
  BY DEF LoopAt
<1> QED
  BY <1>1, <1>2, QuietKeeps

\* The context and the fence stay as they are.
LEMMA StepsKeep ==
    ASSUME IInv, LoopAt(pc), pc \notin OffPcs \cup {"contain", "raised"},
           UNCHANGED <<journal, rollout, lock, ctx, numbers, token, halted, gen, stops, refused>>,
           verdict' \in Verdicts, pc' \in Pcs \ OffPcs,
           At(pc', journal.state, got', ctx.ep.role),
           Context(pc', got', ctx), Here(pc', journal, ctx),
           pc' \in (EpisodePcs \ {"homed"}) => Unused(ctx.ep, journal, numbers)
    PROVE  IInv'
<1>1. token' \in Tokens /\ ctx' \in Contexts /\ Fence(token', lock, journal)
  BY DEF IInv, RunTypes
<1> QED
  BY <1>1, GoesKeep

LEMMA FaultsKeep ==
    ASSUME IInv, LoopAt(pc), pc \notin OffPcs \cup {"contain", "raised"},
           NEW reason \in FaultReasons, Faults(reason), journal.state \notin HOLD_STATES,
           pc \in EpisodePcs \/ journal.state \notin EPISODE_STATES
    PROVE  IInv'
<1>1. /\ pc' = "faulting" /\ got' = reason
      /\ UNCHANGED <<journal, rollout, lock, ctx, numbers, token, halted, gen, stops, refused,
                     verdict>>
  BY DEF Faults, counts, opvars, ghosts
<1>2. verdict' \in Verdicts
  BY <1>1 DEF IInv, StopTypes
<1>3. Context("faulting", reason, ctx) /\ At("faulting", journal.state, reason, ctx.ep.role)
  BY DEF Context, At, IdlePcs, OffPcs, EpisodePcs, ForwardPcs, ResetPcs
<1>4. Here("faulting", journal, ctx)
  BY LoopFacts DEF Here
<1>5. pc' \in Pcs \ OffPcs /\ pc' \notin EpisodePcs
  BY <1>1 DEF Pcs, OffPcs, EpisodePcs, ForwardPcs, ResetPcs
<1> QED
  BY <1>1, <1>2, <1>3, <1>4, <1>5, StepsKeep

\* The loop goes to a place where no episode is under way.
LEMMA IdleKeeps ==
    ASSUME IInv, LoopAt(pc), pc \in {"top", "rest", "decide", "assessed"},
           NEW p \in {"top", "rest", "preflight", "decide", "assessed"}, Goes(p),
           At(p, journal.state, "none", "none")
    PROVE  IInv'
<1>1. /\ pc' = p /\ got' = "none"
      /\ UNCHANGED <<journal, rollout, lock, ctx, numbers, token, halted, gen, stops, refused,
                     verdict>>
  BY DEF Goes, counts, opvars, ghosts
<1>2. verdict' \in Verdicts /\ pc' \in Pcs \ OffPcs /\ pc' \notin EpisodePcs /\ pc' \notin FaultPcs
  BY <1>1 DEF IInv, StopTypes, Pcs, OffPcs, EpisodePcs, ForwardPcs, ResetPcs, FaultPcs
<1>3. ctx = NoCtx
  BY LoopFacts DEF Context, IdlePcs
<1>4. Context(p, "none", ctx)
  BY <1>3 DEF Context, EpisodePcs, ForwardPcs, ResetPcs
<1>5. At(p, journal.state, "none", ctx.ep.role)
  BY DEF At
<1>6. pc \notin OffPcs \cup {"contain", "raised"} /\ Here(p, journal, ctx)
  BY <1>1, <1>2 DEF OffPcs, Here
<1> QED
  BY <1>1, <1>2, <1>4, <1>5, <1>6, StepsKeep

LEMMA TopCases ==
    Top => /\ LoopAt("top")
           /\ \/ State \in HOLD_STATES /\ Goes("rest")
              \/ State = "PREFLIGHT" /\ Goes("preflight")
              \/ State \in SceneStates /\ Goes("decide")
              \/ State \notin HOLD_STATES \cup SceneStates \cup {"PREFLIGHT"}
BY Zenon DEF Top

LEMMA TopKeeps == ASSUME IInv, Top PROVE IInv'
<1>1. LoopAt("top") /\ pc = "top" /\ State = journal.state /\ At("top", journal.state, got, ctx.ep.role)
  BY TopCases, LoopFacts
<1>2. CASE State \in HOLD_STATES /\ Goes("rest")
  <2>1. At("rest", journal.state, "none", "none")
    BY <1>1, <1>2 DEF At
  <2> QED
    BY <1>1, <1>2, <2>1, IdleKeeps
<1>3. CASE State = "PREFLIGHT" /\ Goes("preflight")
  <2>1. At("preflight", journal.state, "none", "none")
    BY <1>1, <1>3 DEF At
  <2> QED
    BY <1>1, <1>3, <2>1, IdleKeeps
<1>4. CASE State \in SceneStates /\ Goes("decide")
  <2>1. At("decide", journal.state, "none", "none")
    BY <1>1, <1>4 DEF At
  <2> QED
    BY <1>1, <1>4, <2>1, IdleKeeps
<1>5. State \in HOLD_STATES \cup SceneStates \cup {"PREFLIGHT"}
  BY <1>1 DEF At
<1> QED
  BY <1>2, <1>3, <1>4, <1>5, TopCases

LEMMA RestKeeps == ASSUME IInv, Rest PROVE IInv'
<1>1. LoopAt("rest") /\ Goes("top") /\ State \notin HOLD_STATES
  BY DEF Rest, Wakes
<1>2. pc = "rest" /\ State = journal.state /\ At("rest", journal.state, got, ctx.ep.role)
  BY <1>1, LoopFacts
<1>3. At("top", journal.state, "none", "none")
  BY <1>1, <1>2 DEF At
<1> QED
  BY <1>1, <1>2, <1>3, IdleKeeps

-----------------------------------------------------------------------------
(* Preflight, the scene decision and the start of an episode.              *)

LEMMA WhoActs ==
    ASSUME NEW to, NEW reason, NEW kind, NEW cmd, NEW ep,
           to # "FAULT_LOCKED", reason # "recovery_ambiguous"
    PROVE  /\ Tx(to, reason, kind, cmd, ep).who \in ORCH_OR_OPERATOR
           /\ cmd = NoStop => Tx(to, reason, kind, cmd, ep).who = "orchestrator"
           /\ cmd # NoStop => Tx(to, reason, kind, cmd, ep).who = "operator"
BY TxWho DEF ORCH_OR_OPERATOR

\* A transaction between two episodes: the state, and nothing else.
LEMMA IdleMovesKeep ==
    ASSUME IInv, LoopAt(pc), pc \in {"preflight", "decide", "assessed", "notStarted"},
           NEW t \in Txs, t.to \in {"VERIFY_INITIAL", "WAIT_HUMAN", "COMPLETED"},
           t.kind = "none", t.ep = NoEp, ~t.res, Moves(t, "top"),
           CheckTransition(journal.state, t.to, t.reason, t.who, t.kind, t.ep.role, t.res),
           t.to = "VERIFY_INITIAL" => pc = "preflight",
           t.to = "COMPLETED" => pc # "preflight"
    PROVE  IInv'
<1>1. At(pc, journal.state, got, ctx.ep.role) /\ ctx = NoCtx
  BY LoopFacts DEF Context, IdlePcs
<1>2. Leg("top", journal.state, ctx, t)
  BY <1>1 DEF Leg, At
<1>3. Context("top", "none", ctx) /\ Here("top", journal, ctx)
  BY <1>1 DEF Context, Here, EpisodePcs, ForwardPcs, ResetPcs, FaultPcs
<1>4. "top" \in TxPcs \ {"started"} /\ "top" \notin EpisodePcs
  BY DEF TxPcs, EpisodePcs, ForwardPcs, ResetPcs
<1>5. pc \notin OffPcs \cup {"contain", "raised"}
  BY DEF OffPcs
<1> QED
  BY <1>2, <1>3, <1>4, <1>5, MovesKeep

\* The transaction to and its type, for a move that is about no episode.
LEMMA IdleTx ==
    ASSUME NEW to \in {"VERIFY_INITIAL", "WAIT_HUMAN", "COMPLETED", "PREFLIGHT"},
           NEW reason \in Reasons, NEW cmd \in Commands
    PROVE  /\ Tx(to, reason, "none", cmd, NoEp) \in Txs
           /\ Tx(to, reason, "none", cmd, NoEp).to = to
           /\ Tx(to, reason, "none", cmd, NoEp).reason = reason
           /\ Tx(to, reason, "none", cmd, NoEp).kind = "none"
           /\ Tx(to, reason, "none", cmd, NoEp).cmd = cmd
           /\ Tx(to, reason, "none", cmd, NoEp).ep = NoEp
           /\ ~Tx(to, reason, "none", cmd, NoEp).res
           /\ Tx(to, reason, "none", cmd, NoEp).res \in BOOLEAN
<1>1. to \in AERI_STATES /\ "none" \in Kinds /\ NoEp \in EpOrNone
  BY DEF AERI_STATES, Kinds, EpOrNone
<1>2. Tx(to, reason, "none", cmd, NoEp) \in Txs
  BY <1>1, TxType
<1> QED
  BY <1>1, <1>2, TxType DEF Txs

LEMMA ToHumanKeeps ==
    ASSUME IInv, LoopAt(pc), pc \in {"preflight", "decide", "assessed", "notStarted"},
           NEW reason \in TO_HUMAN, NEW cmd \in StopIds \cup {NoStop}, ToHuman(reason, cmd)
    PROVE  IInv'
<1> DEFINE t == Tx("WAIT_HUMAN", reason, "none", cmd, NoEp)
<1>1. At(pc, journal.state, got, ctx.ep.role)
  BY LoopFacts
<1>2. journal.state \in SceneStates \cup {"PREFLIGHT"}
  BY <1>1 DEF At
<1>3. t.who \in ORCH_OR_OPERATOR
  BY WhoActs DEF TO_HUMAN
<1>4. reason \in Reasons /\ cmd \in Commands
  BY DEF Reasons, Commands
<1>5. /\ t \in Txs /\ t.to = "WAIT_HUMAN" /\ t.reason = reason /\ t.kind = "none" /\ t.ep = NoEp
      /\ ~t.res /\ t.res \in BOOLEAN
  BY <1>4, IdleTx
<1>6. Moves(t, "top")
  BY DEF ToHuman
<1> HIDE DEF t
<1>7. CheckTransition(journal.state, "WAIT_HUMAN", reason, t.who, "none", t.ep.role, t.res)
  BY <1>2, <1>3, <1>5, ToHumanEdge
<1> QED
  BY <1>5, <1>6, <1>7, IdleMovesKeep

LEMMA PreflightKeeps == ASSUME IInv, Preflight PROVE IInv'
<1>1. LoopAt("preflight") /\ pc = "preflight" /\ At("preflight", journal.state, got, ctx.ep.role)
  BY LoopFacts DEF Preflight
<1>2. CASE Moves(Tx("VERIFY_INITIAL", "preflight_passed", "none", NoStop, NoEp), "top")
  <2> DEFINE t == Tx("VERIFY_INITIAL", "preflight_passed", "none", NoStop, NoEp)
  <2>1. t.who = "orchestrator"
    BY WhoActs
  <2>2. journal.state = "PREFLIGHT"
    BY <1>1 DEF At
  <2>3. "preflight_passed" \in Reasons /\ NoStop \in Commands
    BY DEF Reasons, Commands
  <2>4. /\ t \in Txs /\ t.to = "VERIFY_INITIAL" /\ t.reason = "preflight_passed" /\ t.kind = "none"
        /\ t.ep = NoEp /\ ~t.res /\ t.res \in BOOLEAN
    BY <2>3, IdleTx
  <2>5. Moves(t, "top")
    BY <1>2
  <2> HIDE DEF t
  <2>6. CheckTransition(journal.state, "VERIFY_INITIAL", "preflight_passed", "orchestrator", "none", t.ep.role, t.res)
    BY <2>2, <2>4, PreflightEdge
  <2> QED
    BY <1>1, <2>1, <2>4, <2>5, <2>6, IdleMovesKeep
<1>3. CASE Faults("safety_stop")
  <2>1. "safety_stop" \in FaultReasons /\ pc \notin OffPcs \cup {"contain", "raised"}
    BY <1>1 DEF FaultReasons, OffPcs
  <2>2. journal.state \notin HOLD_STATES /\ journal.state \notin EPISODE_STATES
    BY <1>1 DEF At, HOLD_STATES, EPISODE_STATES
  <2> QED
    BY <1>1, <1>3, <2>1, <2>2, FaultsKeep
<1>4. CASE ToHuman("preflight_failed", NoStop)
  <2>1. "preflight_failed" \in TO_HUMAN
    BY DEF TO_HUMAN
  <2> QED
    BY <1>1, <1>4, <2>1, ToHumanKeeps
<1> QED
  BY <1>2, <1>3, <1>4 DEF Preflight

LEMMA DecideCases ==
    Decide => /\ LoopAt("decide")
              /\ \/ Stopped /\ ToHuman("operator_stop", FirstStop)
                 \/ ToHuman("contract_violation_limit", NoStop)
                 \/ Moves(Tx("COMPLETED", "run_completed", "none", NoStop, NoEp), "top")
                 \/ Goes("assessed")
BY Zenon DEF Decide

LEMMA HumanReasons ==
    /\ "operator_stop" \in TO_HUMAN /\ "contract_violation_limit" \in TO_HUMAN
    /\ "policy_error" \in TO_HUMAN
    /\ "scene_reset_required" \in TO_HUMAN /\ "scene_unknown" \in TO_HUMAN
BY DEF TO_HUMAN

LEMMA DecideKeeps == ASSUME IInv, Decide PROVE IInv'
<1>1. LoopAt("decide") /\ pc = "decide" /\ At("decide", journal.state, got, ctx.ep.role)
  BY LoopFacts, DecideCases
<1>2. FirstStop \in StopIds \cup {NoStop}
  BY FirstStopType DEF IInv
<1>3. CASE ToHuman("operator_stop", FirstStop)
  BY <1>1, <1>2, <1>3, HumanReasons, ToHumanKeeps
<1>4. CASE ToHuman("contract_violation_limit", NoStop)
  BY <1>1, <1>4, HumanReasons, ToHumanKeeps
<1>5. CASE Moves(Tx("COMPLETED", "run_completed", "none", NoStop, NoEp), "top")
  <2> DEFINE t == Tx("COMPLETED", "run_completed", "none", NoStop, NoEp)
  <2>1. t.who = "orchestrator"
    BY WhoActs
  <2>2. journal.state \in SceneStates
    BY <1>1 DEF At
  <2>3. "run_completed" \in Reasons /\ NoStop \in Commands
    BY DEF Reasons, Commands
  <2>4. /\ t \in Txs /\ t.to = "COMPLETED" /\ t.reason = "run_completed" /\ t.kind = "none"
        /\ t.ep = NoEp /\ ~t.res /\ t.res \in BOOLEAN
    BY <2>3, IdleTx
  <2>5. Moves(t, "top")
    BY <1>5
  <2> HIDE DEF t
  <2>6. CheckTransition(journal.state, "COMPLETED", "run_completed", "orchestrator", "none", t.ep.role, t.res)
    BY <2>2, <2>4, CompletedEdge
  <2> QED
    BY <1>1, <2>1, <2>4, <2>5, <2>6, IdleMovesKeep
<1>6. CASE Goes("assessed")
  <2>1. At("assessed", journal.state, "none", "none")
    BY <1>1 DEF At
  <2> QED
    BY <1>1, <1>6, <2>1, IdleKeeps
<1> QED
  BY <1>3, <1>4, <1>5, <1>6, DecideCases


\* An episode that starts gets a number nothing on disk has.
LEMMA NewEpisode ==
    ASSUME IInv, pc # "down", NEW role \in Roles, numbers[role] < MaxNumber[role],
           NEW e, e = [role |-> role, number |-> numbers[role] + 1]
    PROVE  /\ e \in Eps /\ e.role = role /\ e.number = numbers[role] + 1
           /\ \A k \in NON_IDEMPOTENT_KINDS : [ep |-> e, kind |-> k] \notin journal.attempted
           /\ e \notin journal.begun
<1>1. numbers[role] \in Nat
  BY DEF IInv, RunTypes
<1>2. e \in Eps /\ e.role = role /\ e.number = numbers[role] + 1
  <2>1. MaxNumber[role] \in Nat /\ MaxNumber[role] <= MaxForward + MaxReset
    BY BoundsAssumption DEF MaxNumber, Roles
  <2> QED
    BY <1>1, <2>1, BoundsAssumption DEF Eps
<1>3. ASSUME NEW k \in NON_IDEMPOTENT_KINDS
      PROVE  [ep |-> e, kind |-> k] \notin journal.attempted
  <2>1. SUFFICES ASSUME [ep |-> e, kind |-> k] \in journal.attempted PROVE FALSE
    OBVIOUS
  <2>2. e.number <= numbers[e.role]
    BY <2>1 DEF IInv, Fresh
  <2> QED
    BY <1>1, <1>2, <2>2
<1>4. e \notin journal.begun
  BY <1>2, <1>3 DEF IInv, OnDisk, Results, NON_IDEMPOTENT_KINDS
<1> QED
  BY <1>2, <1>3, <1>4

LEMMA StartsKeep ==
    ASSUME IInv, LoopAt("assessed"), NEW role \in Roles, NEW reason \in Reasons,
           reason # "recovery_ambiguous", Starts(role, reason),
           \A res \in BOOLEAN : ~res =>
              CheckTransition(journal.state, MotionOf(role), reason, "orchestrator",
                              "policy_steps", role, res)
    PROVE  IInv'
<1> DEFINE e == [role |-> role, number |-> numbers[role] + 1]
           t == Tx(MotionOf(role), reason, "policy_steps", NoStop, e)
<1>0. pc = "assessed" /\ ~halted /\ State = journal.state /\ journal.state \in SceneStates
  <2>1. pc = "assessed" /\ ~halted /\ State = journal.state
        /\ At("assessed", journal.state, got, ctx.ep.role)
    BY LoopFacts
  <2> QED
    BY <2>1 DEF At
<1>1. /\ numbers[role] < MaxNumber[role]
      /\ numbers' = [numbers EXCEPT ![role] = @ + 1]
      /\ ctx' = [NoCtx EXCEPT !.ep = e, !.left = MaxSteps]
      /\ Asks(t, "started") /\ UNCHANGED <<rollout, completed, discarded, opvars>>
  BY DEF Starts, MotionOf
<1>2. /\ e \in Eps /\ e.role = role /\ e.number = numbers[role] + 1
      /\ \A k \in NON_IDEMPOTENT_KINDS : [ep |-> e, kind |-> k] \notin journal.attempted
      /\ e \notin journal.begun
  BY <1>0, <1>1, NewEpisode
<1> HIDE DEF e
<1>3. /\ t \in Txs /\ t.to = MotionOf(role) /\ t.reason = reason /\ t.kind = "policy_steps"
      /\ t.ep = e /\ ~t.res /\ t.res \in BOOLEAN /\ t.who = "orchestrator"
  <2>1. /\ MotionOf(role) \in AERI_STATES /\ "policy_steps" \in Kinds /\ NoStop \in Commands
        /\ e \in EpOrNone /\ MotionOf(role) # "FAULT_LOCKED"
    BY <1>2 DEF MotionOf, AERI_STATES, Kinds, Commands, EpOrNone
  <2>2. t \in Txs
    BY <2>1, TxType
  <2> QED
    BY <2>1, <2>2, TxType, WhoActs DEF Txs
<1> HIDE DEF t
<1>4. lock = Free /\ journal.open = NoTx
  BY <1>0, <1>1, OpenIsNone DEF Asks, Begin, OffPcs
<1>5. Allowed(t)
  <2>1. CheckTransition(State, t.to, t.reason, t.who, t.kind, t.ep.role, t.res)
    BY <1>0, <1>2, <1>3
  <2> QED
    BY <1>2, <1>3, <1>4, <2>1 DEF Allowed, KeyOf, NON_IDEMPOTENT_KINDS
<1>6. /\ Prepared(t) \in Journals /\ Prepared(t).begun = journal.begun
      /\ Prepared(t).state = journal.state
      /\ Prepared(t).attempted = journal.attempted \cup {[ep |-> e, kind |-> "policy_steps"]}
  BY <1>2, <1>3, PreparedType DEF NON_IDEMPOTENT_KINDS, KeyOf
<1>7. OpenFits(Prepared(t), t)
  BY <1>0, <1>2, <1>3, <1>6 DEF OpenFits, MotionOf, SceneStates, EPISODE_STATES, MOTION_STATES
<1>8. numbers \in [Roles -> Nat] /\ \A r \in Roles : numbers[r] <= MaxNumber[r]
  BY DEF IInv, RunTypes
<1>9. /\ numbers' \in [Roles -> Nat] /\ numbers'[role] = e.number
      /\ \A r \in Roles : numbers[r] <= numbers'[r]
      /\ \A r \in Roles : numbers'[r] <= MaxNumber[r]
  <2>1. MaxNumber[role] \in Nat
    BY BoundsAssumption DEF MaxNumber, Roles
  <2> QED
    BY <1>1, <1>2, <1>8, <2>1
<1>10. ctx' \in Contexts /\ ctx'.ep = e /\ ~ctx'.written
  <2>1. NoCtx \in Contexts /\ ~NoCtx.written
    BY BoundsAssumption DEF NoCtx, Contexts, Commands, Reasons, EpOrNone
  <2>2. MaxSteps \in 0..MaxSteps /\ e \in EpOrNone
    BY <1>2, BoundsAssumption DEF EpOrNone
  <2>3. ctx'.ep = e /\ ctx'.left = MaxSteps /\ ctx'.written = NoCtx.written
    BY <1>1 DEF NoCtx
  <2>4. ctx' = [NoCtx EXCEPT !.ep = e, !.left = MaxSteps]
    BY <1>1
  <2>5. ctx' \in Contexts
    BY <2>1, <2>2, <2>4 DEF Contexts
  <2> QED
    BY <2>1, <2>3, <2>5
<1>11. RunTypes'
  <2>1. /\ journal' = Prepared(t) /\ pc' = "started" /\ token' = NoToken /\ halted' = halted
        /\ lock' = [by |-> "loop", at |-> "prepared"] /\ rollout' = rollout
    BY <1>1, <1>3, <1>5 DEF Asks, Begin, Revoked
  <2>2. lock' \in Locks /\ pc' \in Pcs /\ token' \in Tokens
    BY <2>1 DEF Locks, TxStages, Pcs, Tokens
  <2>3. journal' \in Journals /\ rollout' \in Rollouts /\ halted' \in BOOLEAN
    BY <1>6, <2>1 DEF IInv, RunTypes
  <2> QED
    BY <1>9, <1>10, <2>2, <2>3 DEF RunTypes
<1>12. StopTypes'
  BY <1>1 DEF IInv, StopTypes, opvars
<1>13. Leg("started", journal.state, ctx', t)
  BY <1>0, <1>2, <1>3, <1>10 DEF Leg
<1>14. Context("started", "none", ctx') /\ Here("started", journal, ctx')
  BY <1>0, <1>2, <1>10 DEF Context, Here, IdlePcs, OffPcs, ForwardPcs, ResetPcs, SceneStates,
     EPISODE_STATES
<1>15. Unused(ctx'.ep, Prepared(t), numbers')
  BY <1>2, <1>6, <1>9, <1>10 DEF Unused, NON_IDEMPOTENT_KINDS
<1>16. t.ep \in Eps /\ t.ep.number <= numbers'[t.ep.role]
  <2>1. e.number \in Nat
    BY <1>2, <1>8
  <2> QED
    BY <1>2, <1>3, <1>9, <2>1
<1>17. "started" \in TxPcs /\ pc \notin OffPcs \cup {"contain", "raised"}
  BY <1>0 DEF TxPcs, OffPcs
<1> QED
  BY <1>1, <1>3, <1>5, <1>7, <1>9, <1>11, <1>12, <1>13, <1>14, <1>15, <1>16, <1>17, AskKeeps


LEMMA AssessedKeeps == ASSUME IInv, Assessed PROVE IInv'
<1>1. LoopAt("assessed") /\ pc = "assessed" /\ At("assessed", journal.state, got, ctx.ep.role)
  BY LoopFacts DEF Assessed
<1>2. FirstStop \in StopIds \cup {NoStop} /\ journal.state \in SceneStates
  BY <1>1, FirstStopType DEF IInv, At
<1>3. CASE ToHuman("operator_stop", FirstStop)
  BY <1>1, <1>2, <1>3, HumanReasons, ToHumanKeeps
<1>4. CASE ToHuman("contract_violation_limit", NoStop)
  BY <1>1, <1>4, HumanReasons, ToHumanKeeps
<1>5. CASE Starts("forward", "scene_ready")
  <2>1. "scene_ready" \in Reasons /\ "forward" \in Roles /\ MotionOf("forward") = "FORWARD_ACTIVE"
    BY DEF Reasons, Roles, MotionOf
  <2>2. \A res \in BOOLEAN : ~res =>
          CheckTransition(journal.state, "FORWARD_ACTIVE", "scene_ready", "orchestrator",
                          "policy_steps", "forward", res)
    BY <1>2, ForwardEdge
  <2> QED
    BY <1>1, <1>5, <2>1, <2>2, StartsKeep
<1>6. ASSUME NEW decision \in {"reset_required", "unknown"},
             Starts("reset", SceneReason(decision))
      PROVE  IInv'
  <2>1. SceneReason(decision) \in {"scene_reset_required", "scene_unknown"}
    BY DEF SceneReason
  <2>2. /\ SceneReason(decision) \in Reasons /\ SceneReason(decision) # "recovery_ambiguous"
        /\ "reset" \in Roles /\ MotionOf("reset") = "RESET_ACTIVE"
    BY <2>1 DEF Reasons, RESET_OUTCOMES, Roles, MotionOf
  <2>3. \A res \in BOOLEAN : ~res =>
          CheckTransition(journal.state, "RESET_ACTIVE", SceneReason(decision), "orchestrator",
                          "policy_steps", "reset", res)
    BY <1>2, <2>1, ResetEdge
  <2> QED
    BY <1>1, <1>6, <2>2, <2>3, StartsKeep
<1>7. ASSUME NEW decision \in {"reset_required", "unknown"},
             ToHuman(SceneReason(decision), NoStop)
      PROVE  IInv'
  <2>1. SceneReason(decision) \in TO_HUMAN
    BY HumanReasons DEF SceneReason
  <2> QED
    BY <1>1, <1>7, <2>1, ToHumanKeeps
<1> QED
  BY <1>3, <1>4, <1>5, <1>6, <1>7 DEF Assessed

LEMMA StartedCases ==
    Started =>
      /\ LoopAt("started")
      /\ \/ /\ got = "yes" /\ pc' = "drive" /\ got' = "none" /\ ctx' = ctx
            /\ token' = [kind |-> "policy_steps", ep |-> ctx.ep]
         \/ /\ got # "yes" /\ ctx' = NoCtx /\ token' = token
            /\ \/ pc' = "faulting" /\ got' \in {"recorder_failed", "policy_error"}
               \/ pc' = "notStarted" /\ got' = got
      /\ UNCHANGED <<journal, rollout, lock, counts, halted, opvars, ghosts>>
<1> SUFFICES ASSUME Started PROVE LoopAt("started") /\ UNCHANGED <<journal, rollout, lock, counts, halted, opvars, ghosts>>
      /\ (\/ /\ got = "yes" /\ pc' = "drive" /\ got' = "none" /\ ctx' = ctx
             /\ token' = [kind |-> "policy_steps", ep |-> ctx.ep]
          \/ /\ got # "yes" /\ ctx' = NoCtx /\ token' = token
             /\ \/ pc' = "faulting" /\ got' \in {"recorder_failed", "policy_error"}
                \/ pc' = "notStarted" /\ got' = got)
  OBVIOUS
<1>1. CASE got = "yes"
  BY <1>1 DEF Started
<1>2. CASE got # "yes"
  <2>1. /\ ctx' = NoCtx /\ token' = token
        /\ CASE got = "recorder" -> pc' = "faulting" /\ got' = "recorder_failed"
             [] got = "policy_fault" -> pc' = "faulting" /\ got' = "policy_error"
             [] OTHER -> pc' = "notStarted" /\ UNCHANGED got
    BY <1>2, Zenon DEF Started
  <2>2. \/ pc' = "faulting" /\ got' = "recorder_failed"
        \/ pc' = "faulting" /\ got' = "policy_error"
        \/ pc' = "notStarted" /\ got' = got
    BY <2>1, Zenon
  <2>3. LoopAt("started") /\ UNCHANGED <<journal, rollout, lock, counts, halted, opvars, ghosts>>
    BY Zenon DEF Started
  <2> QED
    BY <1>2, <2>1, <2>2, <2>3, Zenon
<1> QED
  BY <1>1, <1>2

LEMMA StartedKeeps == ASSUME IInv, Started PROVE IInv'
<1>1. /\ LoopAt("started") /\ pc = "started" /\ lock.by # "loop"
      /\ At("started", journal.state, got, ctx.ep.role)
      /\ Context("started", got, ctx) /\ Here("started", journal, ctx)
  BY LoopFacts, StartedCases
<1>2. /\ UNCHANGED <<journal, rollout, lock, numbers, halted, gen, stops, refused, verdict>>
      /\ verdict' \in Verdicts /\ pc \notin OffPcs \cup {"contain", "raised"}
  <2>1. UNCHANGED <<journal, rollout, lock, counts, halted, opvars, ghosts>>
    BY StartedCases
  <2> QED
    BY <1>1, <2>1 DEF counts, opvars, ghosts, IInv, StopTypes, OffPcs
<1>3. CASE /\ got = "yes" /\ pc' = "drive" /\ got' = "none" /\ ctx' = ctx
           /\ token' = [kind |-> "policy_steps", ep |-> ctx.ep]
  <2>1. ctx.ep \in Eps /\ journal.state = MotionOf(ctx.ep.role)
    BY <1>1, <1>3 DEF At, Context, EpisodePcs
  <2>2. journal.state \in MOTION_STATES /\ journal.state \in EPISODE_STATES
        /\ journal.state \notin HOLD_STATES \cup {"PREFLIGHT"}
    BY <2>1 DEF MotionOf, MOTION_STATES, EPISODE_STATES, HOLD_STATES
  <2>3. lock = Free
    BY <1>1, <2>2, LockIsFree
  <2>4. journal.open = NoTx
    BY <1>1, <1>2, <2>3, OpenIsNone
  <2>5. journal.episode = ctx.ep
    BY <1>1, <2>2 DEF Here, EpisodePcs
  <2>6. Fence(token', lock, journal)
    BY <1>3, <2>2, <2>3, <2>4, <2>5 DEF Fence
  <2>7. token' \in Tokens /\ ctx' \in Contexts
    BY <1>3, <2>1 DEF Tokens, IInv, RunTypes
  <2>8. /\ At("drive", journal.state, "none", ctx.ep.role) /\ Context("drive", "none", ctx)
        /\ Here("drive", journal, ctx)
    BY <1>1, <2>1 DEF At, Context, Here, IdlePcs, OffPcs, EpisodePcs, ForwardPcs, ResetPcs
  <2>9. Unused(ctx.ep, journal, numbers)
    BY <1>1 DEF IInv, Fresh, EpisodePcs
  <2>10. pc' \in Pcs \ OffPcs
    BY <1>3 DEF Pcs, OffPcs
  <2> QED
    BY <1>1, <1>2, <1>3, <2>6, <2>7, <2>8, <2>9, <2>10, GoesKeep
<1>4. CASE /\ got # "yes" /\ ctx' = NoCtx /\ token' = token
           /\ \/ pc' = "faulting" /\ got' \in {"recorder_failed", "policy_error"}
              \/ pc' = "notStarted" /\ got' = got
  <2>1. journal.state \in SceneStates
    BY <1>1, <1>4 DEF At
  <2>2. At(pc', journal.state, got', NoCtx.ep.role)
    BY <1>4, <2>1 DEF At, SceneStates, HOLD_STATES
  <2>3. Context(pc', got', NoCtx) /\ Here(pc', journal, NoCtx)
    BY <1>4, <2>1 DEF Context, Here, IdlePcs, OffPcs, EpisodePcs, ForwardPcs, ResetPcs, SceneStates,
       EPISODE_STATES, FaultReasons
  <2>4. NoCtx \in Contexts
    BY BoundsAssumption DEF NoCtx, Contexts, Commands, Reasons, EpOrNone
  <2>5. token' \in Tokens /\ Fence(token', lock, journal)
    BY <1>4 DEF IInv, RunTypes
  <2>6. pc' \in Pcs \ OffPcs /\ pc' \notin EpisodePcs
    BY <1>4 DEF Pcs, OffPcs, EpisodePcs, ForwardPcs, ResetPcs
  <2> QED
    BY <1>1, <1>2, <1>4, <2>2, <2>3, <2>4, <2>5, <2>6, GoesKeep
<1> QED
  BY <1>3, <1>4, StartedCases

LEMMA NotStartedKeeps == ASSUME IInv, NotStarted PROVE IInv'
<1>1. LoopAt("notStarted") /\ pc = "notStarted"
  BY LoopFacts DEF NotStarted
<1>2. FirstStop \in StopIds \cup {NoStop}
  BY FirstStopType DEF IInv
<1>3. CASE ToHuman("operator_stop", FirstStop)
  BY <1>1, <1>2, <1>3, HumanReasons, ToHumanKeeps
<1>4. CASE ToHuman("policy_error", NoStop)
  BY <1>1, <1>4, HumanReasons, ToHumanKeeps
<1> QED
  BY <1>3, <1>4 DEF NotStarted

-----------------------------------------------------------------------------
(* The steps of an episode.                                                *)

\* Where the loop drives an episode from.
LEMMA DriveFacts ==
    ASSUME IInv, LoopAt(pc), pc \in {"drive", "step", "recording"}
    PROVE  /\ ctx \in Contexts /\ ctx.ep \in Eps /\ ctx.ep.role \in Roles /\ lock.by # "loop"
           /\ journal.state = MotionOf(ctx.ep.role) /\ journal.state \in EPISODE_STATES
           /\ journal.state \notin HOLD_STATES \cup {"PREFLIGHT"}
           /\ Here(pc, journal, ctx) /\ ctx.ep = journal.episode /\ ~ctx.written
           /\ Unused(ctx.ep, journal, numbers)
           /\ lock = Free /\ journal.open = NoTx
           /\ pc \in EpisodePcs /\ pc \notin OffPcs \cup {"contain", "raised"}
<1>1. /\ At(pc, journal.state, got, ctx.ep.role) /\ Context(pc, got, ctx) /\ Here(pc, journal, ctx)
      /\ ctx \in Contexts /\ lock.by # "loop"
  BY LoopFacts
<1>2. /\ pc \in EpisodePcs /\ pc # "homed" /\ pc \notin OffPcs \cup {"contain", "raised"}
  BY DEF EpisodePcs, OffPcs, ForwardPcs
<1>3. ctx.ep \in Eps /\ ctx.ep.role \in Roles
  BY <1>1, <1>2 DEF Context, Eps
<1>4. journal.state = MotionOf(ctx.ep.role)
  BY <1>1 DEF At, Context, ForwardPcs, MotionOf
<1>5. journal.state \in EPISODE_STATES /\ journal.state \notin HOLD_STATES \cup {"PREFLIGHT"}
  BY <1>4 DEF MotionOf, EPISODE_STATES, HOLD_STATES
<1>6. Unused(ctx.ep, journal, numbers)
  BY <1>2 DEF IInv, Fresh
<1>7. lock = Free
  BY <1>1, <1>5, LockIsFree
<1>8. journal.open = NoTx
  BY <1>2, <1>7, OpenIsNone
<1> QED
  BY <1>1, <1>2, <1>3, <1>4, <1>5, <1>6, <1>7, <1>8 DEF Here

\* The steps end: on to the hold of a forward episode, the quiesce of a reset.
LEMMA EndsKeep ==
    ASSUME IInv, LoopAt(pc), pc \in {"drive", "step"},
           pc' = IF Forward THEN "stopping" ELSE "verifying",
           ctx' \in Contexts, ctx'.ep = ctx.ep, ctx'.written = ctx.written,
           Forward => ctx'.reason \in FORWARD_STOPS,
           ~Forward => ctx'.reason \in RESET_STOPS,
           UNCHANGED <<journal, rollout, lock, got, counts, token, halted, opvars, ghosts>>
    PROVE  IInv'
<1>1. UNCHANGED <<journal, rollout, lock, got, numbers, token, halted, gen, stops, verdict, refused>>
  BY DEF counts, opvars, ghosts
<1>2. verdict' \in Verdicts /\ token' \in Tokens /\ Fence(token', lock, journal)
  BY <1>1 DEF IInv, StopTypes, RunTypes
<1>3. pc' \in Pcs \ OffPcs /\ pc' \in EpisodePcs
  BY DEF Pcs, OffPcs, EpisodePcs, ForwardPcs, ResetPcs
<1>4. At(pc', journal.state, got', ctx'.ep.role)
  BY DriveFacts DEF At, Forward, MotionOf
<1>5. Context(pc', got', ctx')
  BY DriveFacts DEF Context, IdlePcs, OffPcs, ForwardPcs, ResetPcs, Forward, Roles
<1>6. Here(pc', journal, ctx') /\ Unused(ctx'.ep, journal, numbers)
  BY DriveFacts DEF Here
<1> QED
  BY <1>1, <1>2, <1>3, <1>4, <1>5, <1>6, DriveFacts, GoesKeep

\* The steps go on.
LEMMA DrivesOn ==
    ASSUME IInv, LoopAt(pc), pc \in {"drive", "step"}, pc' = "drive",
           ctx' \in Contexts, ctx'.ep = ctx.ep, ctx'.written = ctx.written,
           UNCHANGED <<journal, rollout, lock, numbers, token, halted, gen, stops, refused>>,
           verdict' \in Verdicts
    PROVE  IInv'
<1>1. token' \in Tokens /\ Fence(token', lock, journal)
  BY DEF IInv, RunTypes
<1>2. pc' \in Pcs \ OffPcs
  BY DEF Pcs, OffPcs
<1>3. At(pc', journal.state, got', ctx'.ep.role) /\ Context(pc', got', ctx')
  BY DriveFacts DEF At, Context, IdlePcs, OffPcs, ForwardPcs, ResetPcs
<1>4. Here(pc', journal, ctx') /\ Unused(ctx'.ep, journal, numbers)
  BY DriveFacts DEF Here
<1> QED
  BY <1>1, <1>2, <1>3, <1>4, DriveFacts, GoesKeep

LEMMA DriveFaults ==
    ASSUME IInv, LoopAt(pc), pc \in {"drive", "step"}, NEW reason \in FaultReasons, Faults(reason)
    PROVE  IInv'
BY DriveFacts, FaultsKeep

LEMMA EndingKeeps ==
    ASSUME IInv, LoopAt(pc), pc \in {"drive", "step"}, NEW reason, NEW cmd \in StopIds \cup {NoStop},
           Forward => reason \in FORWARD_STOPS, ~Forward => reason \in RESET_STOPS,
           Ends(reason, cmd)
    PROVE  IInv'
<1>1. ctx \in Contexts /\ ctx.ep.role \in Roles
  BY DriveFacts
<1>2. reason \in Reasons /\ cmd \in Commands /\ 0 \in 0..MaxSteps
  BY BoundsAssumption DEF Reasons, Commands
<1>3. ctx' = [ctx EXCEPT !.reason = reason, !.auth = cmd, !.left = 0]
  BY DEF Ends
<1>4. ctx' \in Contexts
  BY <1>1, <1>2, <1>3 DEF Contexts
<1>5. ctx'.ep = ctx.ep /\ ctx'.written = ctx.written /\ ctx'.reason = reason
  BY <1>1, <1>3 DEF Contexts
<1> QED
  BY <1>4, <1>5, EndsKeep DEF Ends

LEMMA TakesVerdictKeeps ==
    ASSUME IInv, LoopAt("drive"), Forward, verdict # NoVerdict, TakesVerdict
    PROVE  IInv'
<1>1. pc = "drive"
  BY DEF LoopAt
<1>2. /\ UNCHANGED <<journal, rollout, lock, ctx, numbers, token, halted, gen, stops, refused>>
      /\ verdict' \in Verdicts
  BY DEF TakesVerdict, counts, ghosts, Verdicts
<1>3. CASE verdict.ep = ctx.ep
  <2>1. pc' = "recording" /\ got' = verdict.label
    BY <1>3 DEF TakesVerdict
  <2>2. verdict.label \in {"keep", "discard"}
    BY DEF IInv, StopTypes, Verdicts
  <2>3. pc' \in Pcs \ OffPcs
    BY <2>1 DEF Pcs, OffPcs
  <2>4. At(pc', journal.state, got', ctx.ep.role) /\ Context(pc', got', ctx)
    BY <1>1, <2>1, <2>2, DriveFacts DEF At, Context, IdlePcs, OffPcs, ForwardPcs, ResetPcs,
       Forward, MotionOf
  <2>5. Here(pc', journal, ctx) /\ Unused(ctx.ep, journal, numbers)
    BY <1>1, DriveFacts DEF Here
  <2> QED
    BY <1>1, <1>2, <2>3, <2>4, <2>5, DriveFacts, StepsKeep
<1>4. CASE verdict.ep # ctx.ep
  <2>1. pc' = "drive" /\ ctx' = ctx /\ ctx' \in Contexts
    BY <1>1, <1>2, <1>4 DEF TakesVerdict, IInv, RunTypes
  <2> QED
    BY <1>1, <1>2, <2>1, DrivesOn
<1> QED
  BY <1>3, <1>4

LEMMA DriveChecksKeeps == ASSUME IInv, DriveChecks PROVE IInv'
<1>1. LoopAt("drive") /\ pc = "drive" /\ FirstStop \in StopIds \cup {NoStop}
  BY FirstStopType DEF DriveChecks, LoopAt, IInv
<1>2. /\ ctx \in Contexts /\ ctx.left \in 0..MaxSteps /\ journal.state \notin HOLD_STATES
      /\ verdict \in Verdicts
  BY <1>1, DriveFacts DEF Contexts, IInv, StopTypes
<1>3. CASE Ends(IF Forward THEN "horizon_exhausted" ELSE "reset_horizon_exhausted", NoStop)
  <2> DEFINE reason == IF Forward THEN "horizon_exhausted" ELSE "reset_horizon_exhausted"
  <2>1. (Forward => reason \in FORWARD_STOPS) /\ (~Forward => reason \in RESET_STOPS)
    BY DEF FORWARD_STOPS, RESET_STOPS
  <2> HIDE DEF reason
  <2>2. Ends(reason, NoStop)
    BY <1>3 DEF reason
  <2> QED
    BY <1>1, <2>1, <2>2, EndingKeeps
<1>4. CASE Ends("operator_stop", FirstStop)
  BY <1>1, <1>4, EndingKeeps DEF FORWARD_STOPS, RESET_STOPS
<1>5. CASE Faults("safety_stop") \/ Faults("recorder_failed")
  BY <1>1, <1>5, DriveFaults DEF FaultReasons
<1>6. CASE Forward /\ verdict # NoVerdict /\ TakesVerdict
  BY <1>1, <1>6, TakesVerdictKeeps
<1>7. ASSUME NEW reason \in {"camera_stale", "goal_verified", "policy_error"}, Ends(reason, NoStop)
      PROVE  IInv'
  BY <1>1, <1>7, EndingKeeps DEF FORWARD_STOPS, RESET_STOPS
<1>8. CASE FailsEarly
  <2>1. ctx' = [ctx EXCEPT !.reason = "policy_error", !.left = 0, !.early = TRUE]
    BY <1>8 DEF FailsEarly
  <2>2. "policy_error" \in Reasons /\ 0 \in 0..MaxSteps
    BY BoundsAssumption DEF Reasons, RESET_OUTCOMES
  <2>3. ctx' \in Contexts
    BY <1>2, <2>1, <2>2 DEF Contexts
  <2>4. ctx'.ep = ctx.ep /\ ctx'.written = ctx.written /\ ctx'.reason = "policy_error"
    BY <1>2, <2>1 DEF Contexts
  <2>5. ctx'.reason \in FORWARD_STOPS /\ ctx'.reason \in RESET_STOPS
    BY <2>4 DEF FORWARD_STOPS, RESET_STOPS
  <2> QED
    BY <1>1, <1>8, <2>3, <2>4, <2>5, EndsKeep DEF FailsEarly
<1>9. CASE ctx.left > 0 /\ LosesChunk
  <2>1. ctx' = [ctx EXCEPT !.left = ctx.left - 1]
    BY <1>9 DEF LosesChunk
  <2>2. ctx.left - 1 \in 0..MaxSteps
    BY <1>2, <1>9, BoundsAssumption
  <2>3. ctx' \in Contexts
    BY <1>2, <2>1, <2>2 DEF Contexts
  <2>4. ctx'.ep = ctx.ep /\ ctx'.written = ctx.written
    BY <1>2, <2>1 DEF Contexts
  <2>5. /\ UNCHANGED <<journal, rollout, lock, numbers, token, halted, gen, stops, refused>>
        /\ verdict' \in Verdicts /\ pc' = "drive"
    BY <1>1, <1>2, <1>9 DEF LosesChunk, counts, opvars, ghosts
  <2> QED
    BY <1>1, <2>3, <2>4, <2>5, DrivesOn
<1>10. CASE ctx.left > 0 /\ Goes("step")
  <2>1. /\ UNCHANGED <<journal, rollout, lock, ctx, numbers, token, halted, gen, stops, refused>>
        /\ verdict' \in Verdicts /\ pc' = "step" /\ got' = "none"
    BY <1>2, <1>10 DEF Goes, counts, opvars, ghosts
  <2>2. At("step", journal.state, "none", ctx.ep.role) /\ Context("step", "none", ctx)
    BY <1>1, <1>10, DriveFacts DEF At, Context, IdlePcs, OffPcs, ForwardPcs, ResetPcs
  <2>3. Here("step", journal, ctx) /\ Unused(ctx.ep, journal, numbers)
    BY <1>1, DriveFacts DEF Here
  <2>4. pc' \in Pcs \ OffPcs
    BY <2>1 DEF Pcs, OffPcs
  <2> QED
    BY <1>1, <2>1, <2>2, <2>3, <2>4, DriveFacts, StepsKeep
<1> QED
  BY <1>3, <1>4, <1>5, <1>6, <1>7, <1>8, <1>9, <1>10 DEF DriveChecks


LEMMA StepKeeps == ASSUME IInv, Step PROVE IInv'
<1>1. LoopAt("step") /\ pc = "step" /\ ctx \in Contexts /\ ctx.left > 0
      /\ FirstStop \in StopIds \cup {NoStop} /\ verdict \in Verdicts
  BY LoopFacts, FirstStopType DEF Step, IInv, Context, StopTypes
<1>2. CASE Faults("watchdog_timeout") \/ Faults("safety_stop")
  BY <1>1, <1>2, DriveFaults DEF FaultReasons
<1>3. CASE Ends("policy_error", NoStop)
  BY <1>1, <1>3, EndingKeeps DEF FORWARD_STOPS, RESET_STOPS
<1>4. CASE /\ \/ pc' = "drive" /\ UNCHANGED got
              \/ pc' = "faulting" /\ got' = "recorder_failed"
           /\ ctx' = [ctx EXCEPT !.left = ctx.left - 1, !.ran = TRUE]
           /\ UNCHANGED <<journal, rollout, lock, counts, token, halted, opvars, refused>>
  <2>1. ctx.left - 1 \in 0..MaxSteps
    BY <1>1, BoundsAssumption DEF Contexts
  <2>2. ctx' \in Contexts
    BY <1>1, <1>4, <2>1 DEF Contexts
  <2>3. ctx'.ep = ctx.ep /\ ctx'.written = ctx.written
    BY <1>1, <1>4 DEF Contexts
  <2>4. /\ UNCHANGED <<journal, rollout, lock, numbers, token, halted, gen, stops, refused>>
        /\ verdict' \in Verdicts
    BY <1>1, <1>4 DEF counts, opvars
  <2>5. CASE pc' = "drive"
    BY <1>1, <2>2, <2>3, <2>4, <2>5, DrivesOn
  <2>6. CASE pc' = "faulting" /\ got' = "recorder_failed"
    <3>1. token' \in Tokens /\ Fence(token', lock, journal)
      BY <2>4 DEF IInv, RunTypes
    <3>2. pc' \in Pcs \ OffPcs /\ pc' \notin EpisodePcs
      BY <2>6 DEF Pcs, OffPcs, EpisodePcs, ForwardPcs, ResetPcs
    <3>3. At(pc', journal.state, got', ctx'.ep.role) /\ Context(pc', got', ctx')
      BY <1>1, <2>6, DriveFacts DEF At, Context, IdlePcs, OffPcs, EpisodePcs, ForwardPcs, ResetPcs,
         FaultReasons
    <3>4. Here(pc', journal, ctx')
      BY <1>1, <2>3, DriveFacts DEF Here
    <3> QED
      BY <1>1, <2>2, <2>4, <3>1, <3>2, <3>3, <3>4, DriveFacts, GoesKeep
  <2> QED
    BY <1>4, <2>5, <2>6
<1> QED
  BY <1>2, <1>3, <1>4 DEF Step

LEMMA RecordsVerdictKeeps == ASSUME IInv, RecordsVerdict PROVE IInv'
<1>1. /\ LoopAt("recording") /\ pc = "recording" /\ ctx \in Contexts
      /\ got \in {"keep", "discard"} /\ ctx.ep.role = "forward"
  BY LoopFacts DEF RecordsVerdict, Context, ForwardPcs
<1>2. /\ ctx.ep \in Eps /\ ctx.ep = journal.episode /\ ~ctx.written /\ lock = Free
      /\ journal.open = NoTx /\ journal.state = "FORWARD_ACTIVE" /\ Unused(ctx.ep, journal, numbers)
      /\ journal.state \in EPISODE_STATES /\ ~halted
  BY <1>1, DriveFacts DEF MotionOf, LoopAt
<1>3. /\ pc' = "stopping" /\ got' = "none"
      /\ ctx' = [ctx EXCEPT !.verdict = got, !.auth = OtherId, !.reason = "operator_verdict",
                            !.left = 0]
      /\ UNCHANGED <<rollout, lock, numbers, token, halted, gen, stops, verdict, refused>>
  BY DEF RecordsVerdict, counts, opvars, ghosts
<1>4. ctx' \in Contexts /\ ctx'.ep = ctx.ep /\ ctx'.written = ctx.written
      /\ ctx'.reason = "operator_verdict"
  <2>1. "operator_verdict" \in Reasons /\ OtherId \in Commands /\ 0 \in 0..MaxSteps
    BY BoundsAssumption DEF Reasons, FORWARD_STOPS, Commands
  <2>2. ctx' \in Contexts
    BY <1>1, <1>3, <2>1 DEF Contexts
  <2> QED
    BY <1>1, <1>3, <2>2 DEF Contexts
<1>5. journal \in Journals
  BY DEF IInv, RunTypes
<1>6. /\ journal' \in Journals
      /\ journal'.state = journal.state /\ journal'.episode = journal.episode
      /\ journal'.open = journal.open /\ journal'.ack = journal.ack
      /\ journal'.attempted = journal.attempted /\ journal'.begun = journal.begun
      /\ journal'.results = journal.results
  <2>1. journal' = journal \/ journal' = [journal EXCEPT !.discards = journal.discards \cup {ctx.ep}]
    BY DEF RecordsVerdict
  <2> QED
    BY <1>2, <1>5, <2>1 DEF Journals
<1>7. RunTypes' /\ StopTypes'
  BY <1>3, <1>4, <1>6 DEF IInv, RunTypes, StopTypes, Pcs
<1>8. Control'
  <2>1. At("stopping", journal'.state, "none", ctx'.ep.role)
    BY <1>2, <1>6 DEF At
  <2>2. Context("stopping", "none", ctx')
    BY <1>1, <1>2, <1>4 DEF Context, IdlePcs, OffPcs, ResetPcs, FORWARD_STOPS
  <2>3. Here("stopping", journal', ctx')
    BY <1>2, <1>4, <1>6 DEF Here
  <2>4. Holder("stopping", Free, journal', "none", ctx')
    BY <1>2, <1>6, CommandsAssumption DEF Holder, Free
  <2>5. Off("stopping", lock', halted', token', journal')
    BY <1>2, <1>3 DEF Off, OffPcs
  <2>6. lock' = Free
    BY <1>2, <1>3
  <2> QED
    BY <1>3, <2>1, <2>2, <2>3, <2>4, <2>5, <2>6 DEF Control
<1>9. Fence(token, lock, journal)'
  BY <1>2, <1>3, <1>6 DEF IInv, Fence
<1>10. OnDisk'
  <2>1. Results(journal') /\ journal'.open = NoTx
    BY <1>2, <1>6 DEF IInv, OnDisk, Results
  <2> QED
    BY <2>1 DEF OnDisk
<1>11. Fresh("stopping", journal', numbers', ctx')
  <2>1. \A k \in journal.attempted : k.ep.number <= numbers[k.ep.role]
    BY <1>1 DEF IInv, Fresh
  <2> QED
    BY <1>2, <1>3, <1>4, <1>6, <2>1 DEF Fresh, Unused
<1> QED
  BY <1>3, <1>7, <1>8, <1>9, <1>10, <1>11 DEF IInv
-----------------------------------------------------------------------------
(* The end of a forward episode.                                           *)

\* Where the loop ends an episode from.
LEMMA EpFacts ==
    ASSUME IInv, LoopAt(pc), pc \in EpisodePcs
    PROVE  /\ ctx \in Contexts /\ ctx.ep \in Eps /\ ctx.ep.role \in Roles /\ lock.by # "loop"
           /\ journal \in Journals /\ ~halted /\ State = journal.state
           /\ At(pc, journal.state, got, ctx.ep.role)
           /\ Context(pc, got, ctx) /\ Here(pc, journal, ctx)
           /\ pc # "homed" => Unused(ctx.ep, journal, numbers)
           /\ pc \notin OffPcs \cup {"contain", "raised"}
<1>1. pc \notin OffPcs \cup {"contain", "raised"}
  BY DEF EpisodePcs, OffPcs, ForwardPcs, ResetPcs
<1>2. /\ ctx \in Contexts /\ journal \in Journals /\ lock.by # "loop" /\ Context(pc, got, ctx)
      /\ Here(pc, journal, ctx) /\ At(pc, journal.state, got, ctx.ep.role)
      /\ ~halted /\ State = journal.state
  BY LoopFacts
<1>3. ctx.ep \in Eps /\ ctx.ep.role \in Roles
  BY <1>2 DEF Context, Eps
<1>4. pc # "homed" => Unused(ctx.ep, journal, numbers)
  BY DEF IInv, Fresh
<1> QED
  BY <1>1, <1>2, <1>3, <1>4

LEMMA EpTxType ==
    ASSUME ctx \in Contexts, ctx.ep \in Eps, NEW to \in AERI_STATES \ {"FAULT_LOCKED"},
           NEW reason \in Reasons \ {"recovery_ambiguous"}, NEW kind \in Kinds, NEW cmd \in Commands
    PROVE  /\ EpTx(to, reason, kind, cmd) \in Txs
           /\ EpTx(to, reason, kind, cmd).to = to
           /\ EpTx(to, reason, kind, cmd).reason = reason
           /\ EpTx(to, reason, kind, cmd).kind = kind
           /\ EpTx(to, reason, kind, cmd).cmd = cmd
           /\ EpTx(to, reason, kind, cmd).ep = ctx.ep
           /\ ~EpTx(to, reason, kind, cmd).res
           /\ EpTx(to, reason, kind, cmd).res \in BOOLEAN
           /\ EpTx(to, reason, kind, cmd).who \in ORCH_OR_OPERATOR
           /\ cmd = NoStop => EpTx(to, reason, kind, cmd).who = "orchestrator"
           /\ cmd # NoStop => EpTx(to, reason, kind, cmd).who = "operator"
<1> DEFINE t == Tx(to, reason, kind, cmd, ctx.ep)
<1>1. ctx.ep \in EpOrNone
  BY DEF EpOrNone
<1>2. /\ t \in Txs /\ t.to = to /\ t.reason = reason /\ t.kind = kind /\ t.cmd = cmd
      /\ t.ep = ctx.ep /\ ~t.res
  BY <1>1, TxType
<1>3. /\ t.who \in ORCH_OR_OPERATOR
      /\ cmd = NoStop => t.who = "orchestrator" 
      /\ cmd # NoStop => t.who = "operator"
  BY WhoActs
<1> HIDE DEF t
<1>4. t.res \in BOOLEAN
  BY <1>2 DEF Txs
<1>5. EpTx(to, reason, kind, cmd) = t
  BY DEF EpTx, t
<1> QED
  BY <1>2, <1>3, <1>4, <1>5

\* The loop goes on to the next transaction of its episode.
LEMMA EpMovesKeep ==
    ASSUME IInv, LoopAt(pc), pc \in EpisodePcs \ {"homed"}, NEW t \in Txs,
           NEW next \in TxPcs \ {"started", "top", "faulted", "contained"},
           t.ep = ctx.ep, t.kind # "policy_steps", t.kind = "home" => next = "homed",
           Moves(t, next),
           CheckTransition(journal.state, t.to, t.reason, t.who, t.kind, ctx.ep.role, t.res),
           Leg(next, journal.state, ctx, t), Context(next, "none", ctx)
    PROVE  IInv'
<1>1. /\ ctx.ep \in Eps /\ Unused(ctx.ep, journal, numbers)
      /\ pc \notin OffPcs \cup {"contain", "raised"} /\ Here(pc, journal, ctx)
  BY EpFacts
<1>2. Here(next, journal, ctx)
  BY <1>1 DEF Here
<1> QED
  BY <1>1, <1>2, MovesKeep

LEMMA StoppingKeeps == ASSUME IInv, Stopping PROVE IInv'
<1> DEFINE t == EpTx("FORWARD_STOPPING", ctx.reason, "hold", ctx.auth)
<1>1. LoopAt("stopping") /\ pc = "stopping" /\ Moves(t, "stopped") /\ pc \in EpisodePcs \ {"homed"}
  BY DEF Stopping, LoopAt, EpisodePcs, ForwardPcs
<1>2. /\ ctx \in Contexts /\ ctx.ep \in Eps /\ journal.state = "FORWARD_ACTIVE"
      /\ ctx.ep.role = "forward" /\ ctx.reason \in FORWARD_STOPS /\ ctx.auth \in Commands
  BY <1>1, EpFacts DEF At, Context, ForwardPcs, Contexts
<1>3. /\ t \in Txs /\ t.to = "FORWARD_STOPPING" /\ t.reason = ctx.reason /\ t.kind = "hold"
      /\ t.ep = ctx.ep /\ ~t.res /\ t.res \in BOOLEAN /\ t.who \in ORCH_OR_OPERATOR
  <2>1. /\ "FORWARD_STOPPING" \in AERI_STATES \ {"FAULT_LOCKED"} /\ "hold" \in Kinds
        /\ ctx.reason \in Reasons \ {"recovery_ambiguous"}
    BY <1>2 DEF AERI_STATES, Kinds, Reasons, FORWARD_STOPS
  <2> QED
    BY <1>2, <2>1, EpTxType
<1> HIDE DEF t
<1>4. CheckTransition(journal.state, t.to, t.reason, t.who, t.kind, ctx.ep.role, t.res)
  BY <1>2, <1>3, StoppingEdge
<1>5. Leg("stopped", journal.state, ctx, t) /\ Context("stopped", "none", ctx)
  BY <1>2, <1>3 DEF Leg, Context, IdlePcs, OffPcs, ResetPcs
<1> QED
  BY <1>1, <1>2, <1>3, <1>4, <1>5, EpMovesKeep DEF TxPcs

LEMMA DropsKeeps == ASSUME IInv, Drops PROVE IInv'
<1>1. LoopAt("stopped") /\ pc = "stopped" /\ pc \in EpisodePcs
  BY DEF Drops, LoopAt, EpisodePcs, ForwardPcs
<1>2. /\ pc' = "finalizing" /\ got' = "none" /\ verdict' \in Verdicts
      /\ UNCHANGED <<journal, rollout, lock, ctx, numbers, token, halted, gen, stops, refused>>
  BY DEF Drops, counts, ghosts, VerdictDropped, Verdicts
<1>3. At("finalizing", journal.state, "none", ctx.ep.role) /\ Context("finalizing", "none", ctx)
  BY <1>1, EpFacts DEF At, Context, IdlePcs, OffPcs, EpisodePcs, ForwardPcs, ResetPcs
<1>4. Here("finalizing", journal, ctx) /\ Unused(ctx.ep, journal, numbers)
  BY <1>1, EpFacts DEF Here
<1>5. pc' \in Pcs \ OffPcs
  BY <1>2 DEF Pcs, OffPcs
<1> QED
  BY <1>1, <1>2, <1>3, <1>4, <1>5, EpFacts, StepsKeep

LEMMA FinalizingKeeps == ASSUME IInv, Finalizing PROVE IInv'
<1> DEFINE t == EpTx("FORWARD_FINALIZE", ctx.reason, "policy_quiesce", ctx.auth)
<1>1. LoopAt("finalizing") /\ pc = "finalizing" /\ Moves(t, "finalized")
      /\ pc \in EpisodePcs \ {"homed"}
  BY DEF Finalizing, LoopAt, EpisodePcs, ForwardPcs
<1>2. /\ ctx \in Contexts /\ ctx.ep \in Eps /\ journal.state = "FORWARD_STOPPING"
      /\ ctx.ep.role = "forward" /\ ctx.reason \in FORWARD_STOPS /\ ctx.auth \in Commands
  BY <1>1, EpFacts DEF At, Context, ForwardPcs, Contexts
<1>3. /\ t \in Txs /\ t.to = "FORWARD_FINALIZE" /\ t.reason = ctx.reason
      /\ t.kind = "policy_quiesce" /\ t.ep = ctx.ep /\ ~t.res /\ t.res \in BOOLEAN
      /\ t.who \in ORCH_OR_OPERATOR
  <2>1. /\ "FORWARD_FINALIZE" \in AERI_STATES \ {"FAULT_LOCKED"} /\ "policy_quiesce" \in Kinds
        /\ ctx.reason \in Reasons \ {"recovery_ambiguous"}
    BY <1>2 DEF AERI_STATES, Kinds, Reasons, FORWARD_STOPS
  <2> QED
    BY <1>2, <2>1, EpTxType
<1> HIDE DEF t
<1>4. CheckTransition(journal.state, t.to, t.reason, t.who, t.kind, ctx.ep.role, t.res)
  BY <1>2, <1>3, FinalizingEdge
<1>5. Leg("finalized", journal.state, ctx, t) /\ Context("finalized", "none", ctx)
  BY <1>2, <1>3 DEF Leg, Context, IdlePcs, OffPcs, ResetPcs
<1> QED
  BY <1>1, <1>2, <1>3, <1>4, <1>5, EpMovesKeep DEF TxPcs

-----------------------------------------------------------------------------
(* The seal of a forward episode, its count and its home.                  *)

\* The same with the episode's result.
LEMMA EpResType ==
    ASSUME ctx \in Contexts, ctx.ep \in Eps, NEW to \in AERI_STATES \ {"FAULT_LOCKED"},
           NEW reason \in Reasons \ {"recovery_ambiguous"}, NEW kind \in Kinds, NEW cmd \in Commands
    PROVE  LET t == WithResult(EpTx(to, reason, kind, cmd))
           IN  /\ t \in Txs /\ t.to = to /\ t.reason = reason /\ t.kind = kind /\ t.ep = ctx.ep
               /\ t.res /\ t.res \in BOOLEAN /\ t.who \in ORCH_OR_OPERATOR
               /\ cmd = NoStop => t.who = "orchestrator"
               /\ cmd # NoStop => t.who = "operator"
<1> DEFINE u == EpTx(to, reason, kind, cmd)
<1>1. /\ u \in Txs /\ u.to = to /\ u.reason = reason /\ u.kind = kind /\ u.ep = ctx.ep
      /\ u.who \in ORCH_OR_OPERATOR
      /\ cmd = NoStop => u.who = "orchestrator"
      /\ cmd # NoStop => u.who = "operator"
  BY EpTxType
<1> HIDE DEF u
<1>2. WithResult(u).res \in BOOLEAN
  BY <1>1, WithResultType DEF Txs
<1>3. LET t == WithResult(u)
      IN  /\ t \in Txs /\ t.to = to /\ t.reason = reason /\ t.kind = kind /\ t.ep = ctx.ep
          /\ t.res /\ t.who \in ORCH_OR_OPERATOR
          /\ cmd = NoStop => t.who = "orchestrator"
          /\ cmd # NoStop => t.who = "operator"
  BY <1>1, WithResultType
<1> QED
  BY <1>2, <1>3 DEF u

LEMMA NoCtxType == NoCtx \in Contexts /\ NoCtx.ep = NoEp /\ ~NoCtx.written
BY BoundsAssumption DEF NoCtx, Contexts, Commands, Reasons, EpOrNone

LEMMA SealKindIs ==
    ASSUME ctx \in Contexts
    PROVE  /\ SealKind = (IF ctx.ran THEN "recorder_seal" ELSE "recorder_abort")
           /\ SealKind \in Seal /\ SealKind \in Kinds /\ SealKind \notin {"policy_steps", "home"}
BY DEF SealKind, Seal, Kinds

LEMMA FinalizedKeeps == ASSUME IInv, Finalized PROVE IInv'
<1> DEFINE t == WithResult(EpTx("ROBOT_HOME", ctx.reason, SealKind, ctx.auth))
<1>1. LoopAt("finalized") /\ pc = "finalized" /\ pc \in EpisodePcs \ {"homed"}
  BY DEF Finalized, LoopAt, EpisodePcs, ForwardPcs
<1>2. /\ ctx \in Contexts /\ ctx.ep \in Eps /\ ctx.ep.role = "forward"
      /\ ctx.reason \in FORWARD_STOPS /\ ctx.auth \in Commands
      /\ journal.state \in {"FORWARD_STOPPING", "FORWARD_FINALIZE"}
      /\ got = "yes" => journal.state = "FORWARD_FINALIZE"
      /\ pc \notin OffPcs \cup {"contain", "raised"}
  BY <1>1, EpFacts DEF At, Context, ForwardPcs, Contexts
<1>3. CASE Faults("policy_error")
  <2>1. journal.state \notin HOLD_STATES /\ "policy_error" \in FaultReasons
    BY <1>2 DEF HOLD_STATES, FaultReasons
  <2> QED
    BY <1>1, <1>2, <1>3, <2>1, FaultsKeep
<1>4. CASE got = "yes" /\ Moves(t, "sealed")
  <2>1. /\ "ROBOT_HOME" \in AERI_STATES \ {"FAULT_LOCKED"}
        /\ ctx.reason \in Reasons \ {"recovery_ambiguous"}
    BY <1>2 DEF AERI_STATES, Reasons, FORWARD_STOPS
  <2>2. /\ t \in Txs /\ t.to = "ROBOT_HOME" /\ t.reason = ctx.reason /\ t.kind = SealKind
        /\ t.ep = ctx.ep /\ t.res /\ t.res \in BOOLEAN /\ t.who \in ORCH_OR_OPERATOR
    BY <1>2, <2>1, SealKindIs, EpResType
  <2> HIDE DEF t
  <2>3. CheckTransition(journal.state, t.to, t.reason, t.who, t.kind, ctx.ep.role, t.res)
    BY <1>2, <1>4, <2>2, SealKindIs, SealEdge
  <2>4. Leg("sealed", journal.state, ctx, t) /\ Context("sealed", "none", ctx)
    BY <1>2, <1>4, <2>2, SealKindIs DEF Leg, Context, IdlePcs, OffPcs, ResetPcs
  <2>5. /\ t.kind # "policy_steps" /\ t.kind # "home"
        /\ "sealed" \in TxPcs \ {"started", "top", "faulted", "contained"}
    BY <1>2, <2>2, SealKindIs DEF TxPcs
  <2> QED
    BY <1>1, <1>4, <2>2, <2>3, <2>4, <2>5, EpMovesKeep
<1> QED
  BY <1>3, <1>4 DEF Finalized

LEMMA SealedKeeps == ASSUME IInv, Sealed PROVE IInv'
<1>1. LoopAt("sealed") /\ pc = "sealed" /\ pc \in EpisodePcs
  BY DEF Sealed, LoopAt, EpisodePcs, ForwardPcs
<1>2. /\ ctx \in Contexts /\ ctx.ep \in Eps /\ ctx.ep.role = "forward"
      /\ journal.state \in {"FORWARD_FINALIZE", "ROBOT_HOME"}
      /\ got = "yes" => journal.state = "ROBOT_HOME"
      /\ pc \notin OffPcs \cup {"contain", "raised"}
  BY <1>1, EpFacts DEF At, Context, ForwardPcs
<1>3. CASE Faults("recorder_failed")
  <2>1. journal.state \notin HOLD_STATES /\ "recorder_failed" \in FaultReasons
    BY <1>2 DEF HOLD_STATES, FaultReasons
  <2> QED
    BY <1>1, <1>2, <1>3, <2>1, FaultsKeep
<1>4. CASE got = "yes" /\ ~Faults("recorder_failed")
  <2>1. /\ pc' = "counted" /\ got' = "none" /\ verdict' = verdict
        /\ UNCHANGED <<journal, rollout, lock, ctx, numbers, token, halted, gen, stops, refused>>
    BY <1>4 DEF Sealed, opvars, ghosts
  <2>2. At("counted", journal.state, "none", ctx.ep.role) /\ Context("counted", "none", ctx)
    BY <1>2, <1>4 DEF At, Context, IdlePcs, OffPcs, EpisodePcs, ForwardPcs, ResetPcs
  <2>3. Here("counted", journal, ctx) /\ Unused(ctx.ep, journal, numbers)
    BY <1>1, EpFacts DEF Here
  <2>4. pc' \in Pcs \ OffPcs
    BY <2>1 DEF Pcs, OffPcs
  <2>5. verdict' \in Verdicts
    BY <2>1 DEF IInv, StopTypes
  <2> QED
    BY <1>1, <1>2, <2>1, <2>2, <2>3, <2>4, <2>5, StepsKeep
<1> QED
  BY <1>3, <1>4 DEF Sealed

LEMMA HomedKeeps == ASSUME IInv, Homed PROVE IInv'
<1>1. LoopAt("homed") /\ pc = "homed" /\ pc \in EpisodePcs
  BY DEF Homed, LoopAt, EpisodePcs
<1>2. /\ ctx.ep \in Eps /\ ctx.ep.role \in {"forward", "reset"}
      /\ journal.state \in {"ROBOT_HOME", "SCENE_ASSESS", "RESET_FINALIZE"}
                             \cup HOLD_STATES \cup SceneStates \cup {"PREFLIGHT"}
      /\ got = "yes" => journal.state \in HOLD_STATES \cup SceneStates \cup {"PREFLIGHT"}
      /\ got # "yes" => journal.state \in {"ROBOT_HOME", "RESET_FINALIZE"}
      /\ pc \notin OffPcs \cup {"contain", "raised"}
  BY <1>1, EpFacts DEF At, Roles, SceneStates, HOLD_STATES
<1>3. CASE got # "yes" /\ Faults("home_failed")
  <2>1. journal.state \notin HOLD_STATES /\ "home_failed" \in FaultReasons
    BY <1>2, <1>3 DEF HOLD_STATES, FaultReasons
  <2> QED
    BY <1>1, <1>2, <1>3, <2>1, FaultsKeep
<1>4. CASE got = "yes" /\ ctx' = NoCtx /\ pc' = "top" /\ got' = "none"
           /\ UNCHANGED <<journal, rollout, lock, counts, token, halted, opvars, ghosts>>
  <2>1. /\ verdict' = verdict
        /\ UNCHANGED <<journal, rollout, lock, numbers, token, halted, gen, stops, refused>>
    BY <1>4 DEF counts, opvars, ghosts
  <2>2. verdict' \in Verdicts /\ token' \in Tokens /\ Fence(token', lock, journal)
    BY <2>1 DEF IInv, RunTypes, StopTypes
  <2>3. ctx' \in Contexts
    BY <1>4, NoCtxType
  <2>4. At("top", journal.state, "none", NoCtx.ep.role) /\ Context("top", "none", NoCtx)
    BY <1>2, <1>4 DEF At, Context, EpisodePcs, ForwardPcs, ResetPcs
  <2>5. Here("top", journal, NoCtx)
    BY DEF Here, EpisodePcs, FaultPcs, ForwardPcs, ResetPcs
  <2>6. pc' \in Pcs \ OffPcs /\ pc' \notin EpisodePcs
    BY <1>4 DEF Pcs, OffPcs, EpisodePcs, ForwardPcs, ResetPcs
  <2> QED
    BY <1>1, <1>2, <1>4, <2>1, <2>2, <2>3, <2>4, <2>5, <2>6, GoesKeep
<1> QED
  BY <1>3, <1>4 DEF Homed, HomeFailed

-----------------------------------------------------------------------------
(* After the count: to a person where the arm is, or home.                 *)

LEMMA StopOfType ==
    ASSUME IInv, ctx \in Contexts
    PROVE  StopOf \in Commands /\ ctx.auth \in Commands
<1>1. FirstStop \in StopIds \cup {NoStop}
  BY FirstStopType DEF IInv
<1> QED
  BY <1>1 DEF StopOf, Commands, Contexts

LEMMA WaitsKeep ==
    ASSUME IInv, LoopAt("counted"), journal.state = "ROBOT_HOME",
           NEW reason \in {"operator_stop", "camera_stale"}, NEW cmd \in Commands,
           reason = "operator_stop" <=> cmd # NoStop, WaitsInPlace(reason, cmd)
    PROVE  IInv'
<1> DEFINE t == Tx("WAIT_HUMAN", reason, "none", cmd, NoEp)
<1>1. /\ t \in Txs /\ t.to = "WAIT_HUMAN" /\ t.reason = reason /\ t.kind = "none"
      /\ t.ep = NoEp /\ ~t.res /\ t.res \in BOOLEAN
      /\ reason = "operator_stop" => t.who = "operator"
      /\ reason = "camera_stale" => t.who = "orchestrator"
  <2>1. /\ "WAIT_HUMAN" \in AERI_STATES \ {"FAULT_LOCKED"} /\ "none" \in Kinds /\ NoEp \in EpOrNone
        /\ reason \in Reasons \ {"recovery_ambiguous"}
    BY DEF AERI_STATES, Kinds, EpOrNone, Reasons, FORWARD_STOPS, RESET_STOPS
  <2>2. t \in Txs /\ t.to = "WAIT_HUMAN" /\ t.reason = reason /\ t.kind = "none"
        /\ t.ep = NoEp /\ ~t.res
    BY <2>1, TxType
  <2>3. /\ reason = "operator_stop" => t.who = "operator"
        /\ reason = "camera_stale" => t.who = "orchestrator"
    BY <2>1, WhoActs
  <2> HIDE DEF t
  <2>4. t.res \in BOOLEAN
    BY <2>2 DEF Txs
  <2> QED
    BY <2>2, <2>3, <2>4
<1>2. /\ Asks(t, "top") /\ ctx' = NoCtx /\ UNCHANGED <<rollout, counts, opvars>>
      /\ lock = Free /\ ~halted
  BY DEF WaitsInPlace, Asks, Begin
<1> HIDE DEF t
<1>3. pc = "counted" /\ pc \notin OffPcs \cup {"contain", "raised"} /\ journal.open = NoTx
  BY <1>2, OpenIsNone DEF LoopAt, OffPcs
<1>4. CheckTransition(journal.state, t.to, t.reason, t.who, t.kind, t.ep.role, t.res)
  <2>1. CASE reason = "operator_stop"
    BY <1>1, <2>1, StopInPlaceEdge
  <2>2. CASE reason = "camera_stale"
    BY <1>1, <2>2, CameraInPlaceEdge
  <2> QED
    BY <2>1, <2>2
<1>5. Allowed(t)
  BY <1>1, <1>2, <1>3, <1>4 DEF Allowed, State, NON_IDEMPOTENT_KINDS
<1>6. /\ Leg("top", journal.state, NoCtx, t) /\ Context("top", "none", NoCtx)
      /\ Here("top", journal, NoCtx)
  BY <1>1 DEF Leg, Context, Here, EpisodePcs, FaultPcs, ForwardPcs, ResetPcs
<1>7. t.kind \notin NON_IDEMPOTENT_KINDS /\ "top" \in TxPcs \ {"started"} /\ "top" \notin EpisodePcs
  BY <1>1 DEF NON_IDEMPOTENT_KINDS, TxPcs, EpisodePcs, ForwardPcs, ResetPcs
<1>8. OpenFits(Prepared(t), t)
  BY <1>1, <1>6, <1>7, LegFits
<1>9. RunTypes'
  <2>1. /\ journal' = Prepared(t) /\ pc' = "top" /\ token' = NoToken /\ ctx' = NoCtx
        /\ lock' = [by |-> "loop", at |-> "acknowledged"]
        /\ halted' = halted /\ rollout' = rollout /\ numbers' = numbers
    BY <1>1, <1>2, <1>5 DEF Asks, Begin, Revoked, counts
  <2>2. lock' \in Locks /\ pc' \in Pcs /\ token' \in Tokens /\ ctx' \in Contexts
    BY <2>1, NoCtxType DEF Locks, TxStages, Pcs, Tokens
  <2>3. journal' \in Journals
    BY <1>1, <1>7, <2>1, PreparedType
  <2> QED
    BY <2>1, <2>2, <2>3 DEF IInv, RunTypes
<1>10. StopTypes'
  BY <1>2 DEF IInv, StopTypes, opvars
<1>11. \A r \in Roles : numbers[r] <= numbers'[r]
  BY <1>2 DEF IInv, RunTypes, counts
<1> HIDE DEF Asks
<1> QED
  BY <1>1, <1>2, <1>3, <1>5, <1>6, <1>7, <1>8, <1>9, <1>10, <1>11, AskKeeps

LEMMA CountedCases ==
    Counted => /\ LoopAt("counted")
               /\ \/ StaysPut /\ WaitsInPlace("operator_stop", StopOf)
                  \/ WaitsInPlace("camera_stale", NoStop)
                  \/ Faults("safety_stop")
                  \/ Moves(EpTx("SCENE_ASSESS", "robot_home_reached", "home", ctx.auth), "homed")
BY Zenon DEF Counted

LEMMA CountedKeeps == ASSUME IInv, Counted PROVE IInv'
<1> DEFINE t == EpTx("SCENE_ASSESS", "robot_home_reached", "home", ctx.auth)
<1>1. LoopAt("counted") /\ pc = "counted" /\ pc \in EpisodePcs \ {"homed"}
  BY CountedCases DEF LoopAt, EpisodePcs, ForwardPcs
<1>2. /\ ctx \in Contexts /\ ctx.ep \in Eps /\ journal.state = "ROBOT_HOME"
      /\ ctx.ep.role = "forward" /\ pc \notin OffPcs \cup {"contain", "raised"}
  BY <1>1, EpFacts DEF At, Context, ForwardPcs
<1>3. StopOf \in Commands /\ ctx.auth \in Commands /\ NoStop \in Commands
  BY <1>2, StopOfType DEF Commands
<1>4. CASE StaysPut /\ WaitsInPlace("operator_stop", StopOf)
  BY <1>1, <1>2, <1>3, <1>4, WaitsKeep DEF StaysPut
<1>5. CASE WaitsInPlace("camera_stale", NoStop)
  BY <1>1, <1>2, <1>3, <1>5, WaitsKeep
<1>6. CASE Faults("safety_stop")
  <2>1. journal.state \notin HOLD_STATES /\ "safety_stop" \in FaultReasons
    BY <1>2 DEF HOLD_STATES, FaultReasons
  <2> QED
    BY <1>1, <1>2, <1>6, <2>1, FaultsKeep
<1>7. CASE Moves(t, "homed")
  <2>1. /\ "SCENE_ASSESS" \in AERI_STATES \ {"FAULT_LOCKED"} /\ "home" \in Kinds
        /\ "robot_home_reached" \in Reasons \ {"recovery_ambiguous"}
    BY DEF AERI_STATES, Kinds, Reasons
  <2>2. /\ t \in Txs /\ t.to = "SCENE_ASSESS" /\ t.reason = "robot_home_reached"
        /\ t.kind = "home" /\ t.ep = ctx.ep /\ ~t.res /\ t.res \in BOOLEAN
        /\ t.who \in ORCH_OR_OPERATOR
    BY <1>2, <1>3, <2>1, EpTxType
  <2> HIDE DEF t
  <2>3. CheckTransition(journal.state, t.to, t.reason, t.who, t.kind, ctx.ep.role, t.res)
    BY <1>2, <2>2, HomeEdge
  <2>4. Leg("homed", journal.state, ctx, t) /\ Context("homed", "none", ctx)
    BY <1>2, <2>2 DEF Leg, Context, IdlePcs, OffPcs, ResetPcs, ForwardPcs, EpisodePcs
  <2>5. /\ t.kind # "policy_steps"
        /\ "homed" \in TxPcs \ {"started", "top", "faulted", "contained"}
    BY <2>2 DEF TxPcs
  <2> QED
    BY <1>1, <1>7, <2>2, <2>3, <2>4, <2>5, EpMovesKeep
<1> QED
  BY <1>4, <1>5, <1>6, <1>7, CountedCases
-----------------------------------------------------------------------------
(* The end of a reset episode.                                             *)

LEMMA VerifyingKeeps == ASSUME IInv, Verifying PROVE IInv'
<1> DEFINE t == EpTx("RESET_VERIFY", ctx.reason, "policy_quiesce", ctx.auth)
<1>1. LoopAt("verifying") /\ pc = "verifying" /\ Moves(t, "verified")
      /\ pc \in EpisodePcs \ {"homed"}
  BY DEF Verifying, LoopAt, EpisodePcs, ResetPcs
<1>2. /\ ctx \in Contexts /\ ctx.ep \in Eps /\ journal.state = "RESET_ACTIVE"
      /\ ctx.ep.role = "reset" /\ ctx.reason \in RESET_STOPS /\ ctx.auth \in Commands
  BY <1>1, EpFacts DEF At, Context, ResetPcs, Contexts
<1>3. /\ t \in Txs /\ t.to = "RESET_VERIFY" /\ t.reason = ctx.reason
      /\ t.kind = "policy_quiesce" /\ t.ep = ctx.ep /\ ~t.res /\ t.res \in BOOLEAN
      /\ t.who \in ORCH_OR_OPERATOR
  <2>1. /\ "RESET_VERIFY" \in AERI_STATES \ {"FAULT_LOCKED"} /\ "policy_quiesce" \in Kinds
        /\ ctx.reason \in Reasons \ {"recovery_ambiguous"}
    BY <1>2 DEF AERI_STATES, Kinds, Reasons, RESET_STOPS
  <2> QED
    BY <1>2, <2>1, EpTxType
<1> HIDE DEF t
<1>4. CheckTransition(journal.state, t.to, t.reason, t.who, t.kind, ctx.ep.role, t.res)
  BY <1>2, <1>3, VerifyingEdge
<1>5. Leg("verified", journal.state, ctx, t) /\ Context("verified", "none", ctx)
  BY <1>2, <1>3 DEF Leg, Context, IdlePcs, OffPcs, ForwardPcs
<1>6. /\ t.kind # "policy_steps" /\ t.kind # "home"
      /\ "verified" \in TxPcs \ {"started", "top", "faulted", "contained"}
  BY <1>3 DEF TxPcs
<1> QED
  BY <1>1, <1>2, <1>3, <1>4, <1>5, <1>6, EpMovesKeep

LEMMA ConcludesKeeps ==
    ASSUME IInv, LoopAt("verified"), got = "yes", NEW reason \in Reasons, NEW cmd \in Commands,
           NEW outcome \in RESET_OUTCOMES, Concludes(reason, cmd, outcome)
    PROVE  IInv'
<1>1. pc = "verified" /\ pc \in EpisodePcs /\ pc # "homed"
  BY DEF LoopAt, EpisodePcs, ResetPcs
<1>2. /\ ctx \in Contexts /\ ctx.ep \in Eps /\ journal.state = "RESET_VERIFY"
      /\ ctx.ep.role = "reset" /\ Here(pc, journal, ctx) /\ Unused(ctx.ep, journal, numbers)
      /\ pc \notin OffPcs \cup {"contain", "raised"}
  BY <1>1, EpFacts DEF At, Context, ResetPcs
<1>3. /\ ctx' = [ctx EXCEPT !.reason = reason, !.auth = cmd, !.outcome = outcome]
      /\ pc' = "concluded" /\ got' = "none" /\ verdict' = verdict
      /\ UNCHANGED <<journal, rollout, lock, numbers, token, halted, gen, stops, refused>>
  BY DEF Concludes, counts, opvars, ghosts
<1>4. outcome \in Reasons
  BY DEF Reasons
<1>5. ctx' \in Contexts /\ ctx'.ep = ctx.ep /\ ctx'.written = ctx.written
      /\ ctx'.outcome = outcome
  BY <1>2, <1>3, <1>4 DEF Contexts
<1>6. verdict' \in Verdicts /\ token' \in Tokens /\ Fence(token', lock, journal)
  BY <1>3 DEF IInv, RunTypes, StopTypes
<1>7. At("concluded", journal.state, "none", ctx'.ep.role) /\ Context("concluded", "none", ctx')
  BY <1>2, <1>5 DEF At, Context, IdlePcs, OffPcs, ForwardPcs
<1>8. Here("concluded", journal, ctx') /\ Unused(ctx'.ep, journal, numbers)
  BY <1>1, <1>2, <1>5 DEF Here
<1>9. pc' \in Pcs \ OffPcs
  BY <1>3 DEF Pcs, OffPcs
<1> QED
  BY <1>1, <1>2, <1>3, <1>5, <1>6, <1>7, <1>8, <1>9, GoesKeep

LEMMA VerifiedCases ==
    Verified =>
       /\ LoopAt("verified")
       /\ \/ Faults("policy_error")
          \/ Faults("safety_stop")
          \/ got = "yes" /\ Concludes("operator_stop", FirstStop, "operator_stop")
          \/ got = "yes" /\ Concludes(ctx.reason, ctx.auth, ctx.reason) /\ ctx.reason # "goal_verified"
          \/ \E o \in {"reset_verified", "scene_reset_required", "scene_unknown"} :
                got = "yes" /\ Concludes(ctx.reason, ctx.auth, o)
<1> DEFINE bounded == VerifyFinal /\ ctx.reason = "reset_horizon_exhausted"
<1>1. ASSUME Verified
      PROVE  /\ LoopAt("verified")
             /\ \/ Faults("policy_error")
                \/ got = "yes" /\ bounded
                   /\ \/ Faults("safety_stop")
                      \/ Stopped /\ Concludes("operator_stop", FirstStop, "operator_stop")
                      \/ ~Stopped /\ Concludes(ctx.reason, ctx.auth, ctx.reason)
                      \/ ~Stopped /\ ctx.ran /\ Concludes(ctx.reason, ctx.auth, "reset_verified")
                \/ got = "yes"
                   /\ IF ctx.reason = "goal_verified"
                      THEN \E o \in {"reset_verified", "scene_reset_required", "scene_unknown"} :
                             Concludes(ctx.reason, ctx.auth, o)
                      ELSE Concludes(ctx.reason, ctx.auth, ctx.reason)
  BY <1>1, Zenon DEF Verified
<1>2. bounded => ctx.reason # "goal_verified"
  OBVIOUS
<1> QED
  BY <1>1, <1>2, Zenon

LEMMA VerifiedKeeps == ASSUME IInv, Verified PROVE IInv'
<1>1. LoopAt("verified") /\ pc = "verified" /\ pc \in EpisodePcs \ {"homed"}
  BY VerifiedCases DEF LoopAt, EpisodePcs, ResetPcs
<1>2. /\ ctx \in Contexts /\ ctx.ep \in Eps /\ journal.state \in {"RESET_ACTIVE", "RESET_VERIFY"}
      /\ ctx.ep.role = "reset" /\ ctx.reason \in RESET_STOPS
      /\ pc \notin OffPcs \cup {"contain", "raised"}
  BY <1>1, EpFacts DEF At, Context, ResetPcs
<1>3. FirstStop \in Commands /\ ctx.auth \in Commands /\ ctx.reason \in Reasons
  <2>1. FirstStop \in StopIds \cup {NoStop}
    BY FirstStopType DEF IInv
  <2> QED
    BY <1>2, <2>1 DEF Commands, Contexts
<1>4. ASSUME NEW why \in {"policy_error", "safety_stop"}, Faults(why) PROVE IInv'
  <2>1. journal.state \notin HOLD_STATES /\ why \in FaultReasons
    BY <1>2 DEF HOLD_STATES, FaultReasons
  <2> QED
    BY <1>1, <1>2, <1>4, <2>1, FaultsKeep
<1>5. CASE got = "yes" /\ Concludes("operator_stop", FirstStop, "operator_stop")
  <2>1. "operator_stop" \in RESET_OUTCOMES /\ "operator_stop" \in Reasons
    BY DEF RESET_OUTCOMES, RESET_STOPS, Reasons, FORWARD_STOPS
  <2> QED
    BY <1>1, <1>3, <1>5, <2>1, ConcludesKeeps
<1>6. CASE got = "yes" /\ Concludes(ctx.reason, ctx.auth, ctx.reason) /\ ctx.reason # "goal_verified"
  <2>1. ctx.reason \in RESET_OUTCOMES
    BY <1>2, <1>6 DEF RESET_OUTCOMES, RESET_STOPS
  <2> QED
    BY <1>1, <1>3, <1>6, <2>1, ConcludesKeeps
<1>7. CASE \E o \in {"reset_verified", "scene_reset_required", "scene_unknown"} :
              got = "yes" /\ Concludes(ctx.reason, ctx.auth, o)
  <2>1. PICK o \in {"reset_verified", "scene_reset_required", "scene_unknown"} :
              got = "yes" /\ Concludes(ctx.reason, ctx.auth, o)
    BY <1>7
  <2>2. o \in RESET_OUTCOMES
    BY DEF RESET_OUTCOMES
  <2> QED
    BY <1>1, <1>3, <2>1, <2>2, ConcludesKeeps
<1> QED
  BY <1>4, <1>5, <1>6, <1>7, VerifiedCases

LEMMA ConcludedKeeps == ASSUME IInv, Concluded PROVE IInv'
<1> DEFINE t == EpTx("RESET_FINALIZE", ctx.outcome, SealKind, ctx.auth)
<1>1. LoopAt("concluded") /\ pc = "concluded" /\ Moves(t, "resetSealed")
      /\ pc \in EpisodePcs \ {"homed"}
  BY DEF Concluded, LoopAt, EpisodePcs, ResetPcs
<1>2. /\ ctx \in Contexts /\ ctx.ep \in Eps /\ journal.state = "RESET_VERIFY"
      /\ ctx.ep.role = "reset" /\ ctx.outcome \in RESET_OUTCOMES /\ ctx.auth \in Commands
  BY <1>1, EpFacts DEF At, Context, ResetPcs, Contexts
<1>3. /\ t \in Txs /\ t.to = "RESET_FINALIZE" /\ t.reason = ctx.outcome
      /\ t.kind = SealKind /\ t.ep = ctx.ep /\ ~t.res /\ t.res \in BOOLEAN
      /\ t.who \in ORCH_OR_OPERATOR
  <2>1. /\ "RESET_FINALIZE" \in AERI_STATES \ {"FAULT_LOCKED"} /\ SealKind \in Kinds
        /\ ctx.outcome \in Reasons \ {"recovery_ambiguous"}
    BY <1>2, SealKindIs DEF AERI_STATES, Reasons, RESET_OUTCOMES, RESET_STOPS
  <2> QED
    BY <1>2, <2>1, EpTxType
<1> HIDE DEF t
<1>4. CheckTransition(journal.state, t.to, t.reason, t.who, t.kind, ctx.ep.role, t.res)
  BY <1>2, <1>3, SealKindIs, ConcludedEdge
<1>5. Leg("resetSealed", journal.state, ctx, t) /\ Context("resetSealed", "none", ctx)
  BY <1>2, <1>3, SealKindIs DEF Leg, Context, IdlePcs, OffPcs, ForwardPcs
<1>6. /\ t.kind # "policy_steps" /\ t.kind # "home"
      /\ "resetSealed" \in TxPcs \ {"started", "top", "faulted", "contained"}
  BY <1>2, <1>3, SealKindIs DEF TxPcs
<1> QED
  BY <1>1, <1>2, <1>3, <1>4, <1>5, <1>6, EpMovesKeep

-----------------------------------------------------------------------------
(* A reset episode's result.                                               *)

LEMMA AfterResetIs ==
    /\ AfterReset \in {"VERIFY_INITIAL", "WAIT_HUMAN"}
    /\ AfterReset = "VERIFY_INITIAL" =>
         ctx.outcome \in {"reset_verified", "scene_reset_required", "scene_unknown"}
    /\ AfterReset = "WAIT_HUMAN" => ctx.outcome # "reset_verified"
BY DEF AfterReset

LEMMA ResetSealedCases ==
    ResetSealed =>
       /\ LoopAt("resetSealed")
       /\ \/ Faults("recorder_failed")
          \/ Faults("safety_stop")
          \/ /\ got = "yes" /\ StaysPut
             /\ Moves(WithResult(EpTx("WAIT_HUMAN", "operator_stop", "none", StopOf)), "homed")
          \/ /\ got = "yes"
             /\ Moves(WithResult(EpTx("WAIT_HUMAN", "camera_stale", "none", NoStop)), "homed")
          \/ /\ got = "yes" /\ (StaysPut \/ ctx.outcome # "camera_stale") /\ ~StaysPut
             /\ Moves(WithResult(EpTx(AfterReset, ctx.outcome, "home",
                                      IF AfterReset = "WAIT_HUMAN" THEN ctx.auth ELSE NoStop)),
                      "homed")
BY Zenon DEF ResetSealed

\* The way out of RESET_FINALIZE.
LEMMA LeavesKeep ==
    ASSUME IInv, LoopAt("resetSealed"), got = "yes", NEW to \in {"VERIFY_INITIAL", "WAIT_HUMAN"},
           NEW reason \in Reasons \ {"recovery_ambiguous"}, NEW kind \in {"none", "home"},
           NEW cmd \in Commands,
           \A who \in ORCH_OR_OPERATOR :
              (cmd = NoStop <=> who = "orchestrator") =>
                 \A res \in BOOLEAN :
                    res => CheckTransition("RESET_FINALIZE", to, reason, who, kind, "reset", res),
           Moves(WithResult(EpTx(to, reason, kind, cmd)), "homed")
    PROVE  IInv'
<1> DEFINE t == WithResult(EpTx(to, reason, kind, cmd))
<1>1. pc = "resetSealed" /\ pc \in EpisodePcs \ {"homed"} /\ LoopAt(pc)
  BY DEF LoopAt, EpisodePcs, ResetPcs
<1>2. /\ ctx \in Contexts /\ ctx.ep \in Eps /\ journal.state = "RESET_FINALIZE"
      /\ ctx.ep.role = "reset"
  BY <1>1, EpFacts DEF At, Context, ResetPcs
<1>3. /\ t \in Txs /\ t.to = to /\ t.reason = reason /\ t.kind = kind /\ t.ep = ctx.ep
      /\ t.res /\ t.res \in BOOLEAN /\ t.who \in ORCH_OR_OPERATOR
      /\ cmd = NoStop => t.who = "orchestrator"
      /\ cmd # NoStop => t.who = "operator"
  <2>1. to \in AERI_STATES \ {"FAULT_LOCKED"} /\ kind \in Kinds
    BY DEF AERI_STATES, Kinds
  <2> QED
    BY <1>2, <2>1, EpResType
<1>4. Moves(t, "homed")
  OBVIOUS
<1> HIDE DEF t
<1>5. CheckTransition(journal.state, t.to, t.reason, t.who, t.kind, ctx.ep.role, t.res)
  BY <1>2, <1>3
<1>6. Leg("homed", journal.state, ctx, t) /\ Context("homed", "none", ctx)
  BY <1>2, <1>3 DEF Leg, Context, IdlePcs, OffPcs, ForwardPcs, ResetPcs, EpisodePcs
<1>7. /\ t.kind # "policy_steps"
      /\ "homed" \in TxPcs \ {"started", "top", "faulted", "contained"}
  BY <1>3 DEF TxPcs
<1> QED
  BY <1>1, <1>3, <1>4, <1>5, <1>6, <1>7, EpMovesKeep

LEMMA ResetSealedKeeps == ASSUME IInv, ResetSealed PROVE IInv'
<1>1. LoopAt("resetSealed") /\ pc = "resetSealed" /\ pc \in EpisodePcs \ {"homed"}
  BY ResetSealedCases DEF LoopAt, EpisodePcs, ResetPcs
<1>2. /\ ctx \in Contexts /\ ctx.ep \in Eps /\ journal.state \in {"RESET_VERIFY", "RESET_FINALIZE"}
      /\ ctx.ep.role = "reset" /\ ctx.outcome \in RESET_OUTCOMES
      /\ pc \notin OffPcs \cup {"contain", "raised"}
  BY <1>1, EpFacts DEF At, Context, ResetPcs
<1>3. StopOf \in Commands /\ ctx.auth \in Commands /\ NoStop \in Commands
  BY <1>2, StopOfType DEF Commands
<1>4. ASSUME NEW why \in {"recorder_failed", "safety_stop"}, Faults(why) PROVE IInv'
  <2>1. journal.state \notin HOLD_STATES /\ why \in FaultReasons
    BY <1>2 DEF HOLD_STATES, FaultReasons
  <2> QED
    BY <1>1, <1>2, <1>4, <2>1, FaultsKeep
<1>5. /\ "operator_stop" \in Reasons \ {"recovery_ambiguous"}
      /\ "camera_stale" \in Reasons \ {"recovery_ambiguous"}
      /\ ctx.outcome \in Reasons \ {"recovery_ambiguous"}
  BY <1>2 DEF Reasons, RESET_OUTCOMES, RESET_STOPS
<1>6. CASE /\ got = "yes" /\ StaysPut
           /\ Moves(WithResult(EpTx("WAIT_HUMAN", "operator_stop", "none", StopOf)), "homed")
  <2>1. ASSUME NEW who \in ORCH_OR_OPERATOR, StopOf = NoStop <=> who = "orchestrator",
               NEW res \in BOOLEAN, res
        PROVE  CheckTransition("RESET_FINALIZE", "WAIT_HUMAN", "operator_stop", who, "none",
                               "reset", res)
    <3>1. who = "operator"
      BY <1>6, <2>1 DEF StaysPut, ORCH_OR_OPERATOR
    <3> QED
      BY <2>1, <3>1, ResetStopEdge
  <2> QED
    BY <1>1, <1>3, <1>5, <1>6, <2>1, LeavesKeep
<1>7. CASE /\ got = "yes"
           /\ Moves(WithResult(EpTx("WAIT_HUMAN", "camera_stale", "none", NoStop)), "homed")
  <2>1. ASSUME NEW who \in ORCH_OR_OPERATOR, NoStop = NoStop <=> who = "orchestrator",
               NEW res \in BOOLEAN, res
        PROVE  CheckTransition("RESET_FINALIZE", "WAIT_HUMAN", "camera_stale", who, "none",
                               "reset", res)
    BY <2>1, ResetCameraEdge
  <2> QED
    BY <1>1, <1>3, <1>5, <1>7, <2>1, LeavesKeep
<1>8. CASE /\ got = "yes" /\ ctx.outcome # "camera_stale"
           /\ Moves(WithResult(EpTx(AfterReset, ctx.outcome, "home",
                                    IF AfterReset = "WAIT_HUMAN" THEN ctx.auth ELSE NoStop)),
                    "homed")
  <2> DEFINE cmd == IF AfterReset = "WAIT_HUMAN" THEN ctx.auth ELSE NoStop
  <2>1. cmd \in Commands
    BY <1>3
  <2>2. ASSUME NEW who \in ORCH_OR_OPERATOR, cmd = NoStop <=> who = "orchestrator",
               NEW res \in BOOLEAN, res
        PROVE  CheckTransition("RESET_FINALIZE", AfterReset, ctx.outcome, who, "home", "reset",
                               res)
    <3>1. CASE AfterReset = "WAIT_HUMAN"
      <4>1. ctx.outcome \in RESET_OUTCOMES \ {"reset_verified", "camera_stale"}
        BY <1>2, <1>8, <3>1, AfterResetIs
      <4> QED
        BY <2>2, <3>1, <4>1, ResetHomeEdge
    <3>2. CASE AfterReset = "VERIFY_INITIAL"
      <4>1. who = "orchestrator"
        BY <2>2, <3>2
      <4> QED
        BY <2>2, <3>2, <4>1, AfterResetIs, ResetAgainEdge
    <3> QED
      BY <3>1, <3>2, AfterResetIs
  <2>3. Moves(WithResult(EpTx(AfterReset, ctx.outcome, "home", cmd)), "homed")
    BY <1>8
  <2> HIDE DEF cmd
  <2> QED
    BY <1>1, <1>5, <1>8, <2>1, <2>2, <2>3, AfterResetIs, LeavesKeep
<1> QED
  BY <1>4, <1>6, <1>7, <1>8, ResetSealedCases

-----------------------------------------------------------------------------
(* The fault that locks the run.                                           *)

LEMMA FaultFacts ==
    ASSUME IInv, LoopAt("faulting")
    PROVE  /\ journal.state \in AERI_STATES \ HOLD_STATES /\ State = journal.state
           /\ pc = "faulting" /\ pc \notin OffPcs \cup {"contain", "raised"}
           /\ ctx \in Contexts /\ got \in FaultReasons \cup {"contained"}
           /\ FaultRes <=> journal.state \in EPISODE_STATES
           /\ journal.state \in EPISODE_STATES => ctx.ep = journal.episode /\ ~ctx.written
           /\ FaultRes => ctx.ep \in Eps
<1>1. /\ pc = "faulting" /\ journal \in Journals /\ ctx \in Contexts /\ State = journal.state
      /\ At("faulting", journal.state, got, ctx.ep.role) /\ Context("faulting", got, ctx)
      /\ Here("faulting", journal, ctx)
  BY LoopFacts
<1>2. /\ journal.state \in AERI_STATES \ HOLD_STATES /\ got \in FaultReasons \cup {"contained"}
      /\ pc \notin OffPcs \cup {"contain", "raised"}
  BY <1>1 DEF At, Context, Journals, OffPcs
<1>3. journal.state \in EPISODE_STATES =>
        ctx.ep = journal.episode /\ ~ctx.written /\ journal.episode \in Eps
  BY <1>1 DEF Here, FaultPcs, IInv, OnDisk, Results
<1>4. FaultRes <=> journal.state \in EPISODE_STATES
  BY <1>1, <1>3, NoEpIsNone DEF FaultRes
<1>5. FaultRes => ctx.ep \in Eps
  BY <1>3, <1>4
<1> QED
  BY <1>1, <1>2, <1>3, <1>4, <1>5

\* What it asks for.
LEMMA FaultTx ==
    ASSUME IInv, LoopAt("faulting"), NEW why \in FaultReasons, NEW kind \in {"none", "hold"}
    PROVE  LET u == Tx("FAULT_LOCKED", why, kind, NoStop, IF FaultRes THEN ctx.ep ELSE NoEp)
               t == IF FaultRes THEN WithResult(u) ELSE u
           IN  /\ t \in Txs /\ t.to = "FAULT_LOCKED" /\ t.kind = kind
               /\ t.ep = (IF FaultRes THEN ctx.ep ELSE NoEp)
               /\ t.res <=> FaultRes
               /\ CheckTransition(journal.state, t.to, t.reason, t.who, t.kind, t.ep.role, t.res)
<1> DEFINE ep == IF FaultRes THEN ctx.ep ELSE NoEp
           u == Tx("FAULT_LOCKED", why, kind, NoStop, ep)
           t == IF FaultRes THEN WithResult(u) ELSE u
<1>1. /\ "FAULT_LOCKED" \in AERI_STATES /\ why \in Reasons \ {"recovery_ambiguous"}
      /\ kind \in Kinds /\ NoStop \in Commands /\ ep \in EpOrNone
  BY FaultFacts DEF AERI_STATES, FaultReasons, Reasons, Kinds, Commands, EpOrNone
<1> HIDE DEF ep
<1>2. /\ u \in Txs /\ u.to = "FAULT_LOCKED" /\ u.reason = why /\ u.kind = kind /\ u.ep = ep
      /\ ~u.res
  BY <1>1, TxType
<1>3. u.who = (IF why = "safety_stop" THEN "safety_guard" ELSE "orchestrator")
  BY <1>1, TxWho
<1> HIDE DEF u
<1>4. /\ t \in Txs /\ t.to = "FAULT_LOCKED" /\ t.reason = why /\ t.kind = kind /\ t.ep = ep
      /\ t.who = u.who
      /\ t.res <=> FaultRes
  BY <1>2, WithResultType
<1> HIDE DEF t
<1>5. t.res \in BOOLEAN /\ t.res = (journal.state \in EPISODE_STATES)
  BY <1>4, FaultFacts DEF Txs
<1>6. CheckTransition(journal.state, t.to, t.reason, t.who, t.kind, t.ep.role, t.res)
  BY <1>3, <1>4, <1>5, FaultFacts, FaultEdge
<1> QED
  BY <1>4, <1>6 DEF t, u, ep

LEMMA FaultingKeeps == ASSUME IInv, Faulting PROVE IInv'
<1> DEFINE why == IF got = "contained" THEN "watchdog_timeout" ELSE got
           kind == IF State \in POLICY_MAY_INFER /\ ~(got = "contained") THEN "hold" ELSE "none"
           next == IF got = "contained" THEN "contained" ELSE "faulted"
           u == Tx("FAULT_LOCKED", why, kind, NoStop, IF FaultRes THEN ctx.ep ELSE NoEp)
           t == IF FaultRes THEN WithResult(u) ELSE u
<1>1. /\ LoopAt("faulting") /\ Asks(t, next) /\ verdict' = NoVerdict
      /\ rollout' \in {rollout, [rollout EXCEPT ![ctx.ep] = "incomplete"]}
      /\ ctx' \in {ctx, [ctx EXCEPT !.sealed = "incomplete"]}
      /\ UNCHANGED <<counts, stops, gen, consumed, spc, rgen>>
  BY DEF Faulting, VerdictDropped
<1>2. why \in FaultReasons /\ kind \in {"none", "hold"} /\ next \in {"faulted", "contained"}
  BY <1>1, FaultFacts DEF FaultReasons
<1> HIDE DEF why, kind, next
<1>3. /\ t \in Txs /\ t.to = "FAULT_LOCKED" /\ t.kind = kind
      /\ t.ep = (IF FaultRes THEN ctx.ep ELSE NoEp)
      /\ t.res <=> FaultRes
      /\ CheckTransition(journal.state, t.to, t.reason, t.who, t.kind, t.ep.role, t.res)
  BY <1>1, <1>2, FaultTx
<1> HIDE DEF t
<1>4. lock = Free /\ ~halted /\ journal.open = NoTx
  BY <1>1, FaultFacts, OpenIsNone DEF Asks, Begin
<1>5. t.kind \notin NON_IDEMPOTENT_KINDS
  BY <1>2, <1>3 DEF NON_IDEMPOTENT_KINDS
<1>6. Allowed(t)
  BY <1>3, <1>4, <1>5 DEF Allowed, State
<1>7. ctx' \in Contexts /\ ctx'.ep = ctx.ep /\ ctx'.written = ctx.written
  BY <1>1, FaultFacts DEF Contexts
<1>8. rollout' \in Rollouts
  BY <1>1 DEF IInv, RunTypes, Rollouts
<1>9. Context(next, "none", ctx')
  BY <1>2 DEF Context, IdlePcs, OffPcs, EpisodePcs, ForwardPcs, ResetPcs
<1>10. Here(next, journal, ctx')
  BY <1>1, <1>7, FaultFacts DEF Here
<1>11. Leg(next, journal.state, ctx', t)
  BY <1>1, <1>2, <1>3, <1>7, FaultFacts DEF Leg
<1>12. /\ next \in TxPcs \ {"started"} /\ next \notin EpisodePcs
  BY <1>2 DEF TxPcs, EpisodePcs, ForwardPcs, ResetPcs
<1>13. OpenFits(Prepared(t), t)
  BY <1>3, <1>5, <1>9, <1>10, <1>11, <1>12, LegFits
<1>14. RunTypes'
  <2>1. /\ journal' = Prepared(t) /\ pc' = next /\ token' = NoToken
        /\ lock' = [by |-> "loop", at |-> IF t.kind = "none" THEN "acknowledged" ELSE "prepared"]
        /\ halted' = halted /\ numbers' = numbers
    BY <1>1, <1>6 DEF Asks, Begin, Revoked, counts
  <2>2. lock' \in Locks /\ pc' \in Pcs /\ token' \in Tokens
    BY <1>12, <2>1 DEF Locks, TxStages, Pcs, TxPcs, Tokens
  <2>3. journal' \in Journals
    BY <1>3, <1>5, <2>1, PreparedType
  <2> QED
    BY <1>7, <1>8, <2>1, <2>2, <2>3 DEF IInv, RunTypes
<1>15. StopTypes'
  BY <1>1 DEF IInv, StopTypes, Verdicts
<1>16. \A r \in Roles : numbers[r] <= numbers'[r]
  BY <1>1 DEF IInv, RunTypes, counts
<1>17. Asks(t, next) /\ next \in TxPcs /\ pc \notin OffPcs \cup {"contain", "raised"}
  BY <1>1, <1>12, FaultFacts
<1> HIDE DEF Asks
<1> QED
  BY <1>3, <1>5, <1>6, <1>9, <1>10, <1>11, <1>12, <1>13, <1>14, <1>15, <1>16, <1>17, AskKeeps

LEMMA FaultedKeeps == ASSUME IInv, Faulted PROVE IInv'
<1>1. pc \in {"faulted", "contained"} /\ LoopAt(pc) /\ pc \notin OffPcs \cup {"contain", "raised"}
  BY DEF Faulted, LoopAt, OffPcs
<1>2. /\ pc' \in {"top", "raised"} /\ got' = "none" /\ ctx' = NoCtx /\ verdict' = NoVerdict
      /\ UNCHANGED <<journal, rollout, lock, numbers, token, halted, gen, stops, refused>>
  BY <1>1 DEF Faulted, VerdictDropped, counts, ghosts
<1>3. journal.state \in {"FAULT_LOCKED", "PREFLIGHT"}
  BY <1>1, LoopFacts DEF At
<1>4. /\ verdict' \in Verdicts /\ token' \in Tokens /\ Fence(token', lock, journal)
      /\ ctx' \in Contexts
  BY <1>2, NoCtxType DEF IInv, RunTypes, Verdicts
<1>5. pc' \in Pcs \ OffPcs /\ pc' \notin EpisodePcs \cup FaultPcs
  BY <1>2 DEF Pcs, OffPcs, EpisodePcs, ForwardPcs, ResetPcs, FaultPcs
<1>6. /\ At(pc', journal.state, got', ctx'.ep.role) /\ Context(pc', got', ctx')
      /\ Here(pc', journal, ctx')
  BY <1>2, <1>3, <1>5 DEF At, Context, Here, HOLD_STATES, EpisodePcs, ForwardPcs, ResetPcs
<1> QED
  BY <1>1, <1>2, <1>4, <1>5, <1>6, GoesKeep
-----------------------------------------------------------------------------
(* An open transaction is closed as unknown.                               *)

LEMMA AbortedIs ==
    ASSUME IInv
    PROVE  /\ Aborted \in Journals /\ Aborted.open = NoTx /\ Aborted.ack = "none"
           /\ Aborted.state = journal.state /\ Aborted.episode = journal.episode
           /\ Aborted.attempted = journal.attempted /\ Aborted.begun = journal.begun
           /\ Aborted.results = journal.results
           /\ Results(Aborted)
<1>1. journal \in Journals /\ Results(journal)
  BY DEF IInv, RunTypes, OnDisk
<1>2. /\ Aborted \in Journals /\ Aborted.open = NoTx /\ Aborted.ack = "none"
      /\ Aborted.state = journal.state /\ Aborted.episode = journal.episode
      /\ Aborted.attempted = journal.attempted /\ Aborted.begun = journal.begun
      /\ Aborted.results = journal.results
  BY <1>1 DEF Aborted, Journals
<1> QED
  BY <1>1, <1>2 DEF Results

LEMMA ContainKeeps == ASSUME IInv, Contain PROVE IInv'
<1>1. LoopAt("contain") /\ pc = "contain" /\ lock = Free /\ ~halted /\ pc \notin OffPcs
  BY DEF Contain, LoopAt, OffPcs
<1>2. /\ journal' = Aborted /\ got' = "contained"
      /\ pc' = IF journal.state \in {"FAULT_LOCKED", "COMPLETED"} THEN "raised" ELSE "faulting"
      /\ UNCHANGED <<rollout, lock, ctx, numbers, token, halted, gen, stops, verdict, refused>>
  BY <1>1 DEF Contain, counts, opvars, ghosts, State
<1>3. /\ journal.state \notin HOLD_STATES /\ Here("contain", journal, ctx)
  BY <1>1, LoopFacts DEF At
<1>4. pc' = "faulting" /\ pc' \in Pcs \ OffPcs /\ pc' \notin EpisodePcs
  BY <1>2, <1>3 DEF HOLD_STATES, Pcs, OffPcs, EpisodePcs, ForwardPcs, ResetPcs
<1>5. RunTypes' /\ StopTypes'
  BY <1>2, <1>4, AbortedIs DEF IInv, RunTypes, StopTypes
<1>6. Control'
  <2>1. At("faulting", Aborted.state, "contained", ctx.ep.role)
    BY <1>3, AbortedIs DEF At
  <2>2. Context("faulting", "contained", ctx)
    BY DEF Context, IdlePcs, OffPcs, EpisodePcs, ForwardPcs, ResetPcs
  <2>3. Here("faulting", Aborted, ctx)
    BY <1>3, AbortedIs DEF Here, FaultPcs
  <2>4. Holder("faulting", Free, Aborted, "contained", ctx)
    BY AbortedIs, CommandsAssumption DEF Holder, Free
  <2>5. Off("faulting", Free, FALSE, token, Aborted)
    BY DEF Off, OffPcs
  <2>6. halted' = FALSE /\ lock' = Free
    BY <1>1, <1>2 DEF IInv, RunTypes
  <2> QED
    BY <1>2, <1>4, <2>1, <2>2, <2>3, <2>4, <2>5, <2>6 DEF Control
<1>7. Fence(token, lock, journal)'
  BY <1>1, <1>2, AbortedIs DEF IInv, Fence, Free
<1>8. OnDisk'
  BY <1>2, AbortedIs DEF OnDisk
<1>9. Fresh(pc, journal, numbers, ctx)'
  BY <1>1, <1>2, <1>4, AbortedIs DEF IInv, Fresh
<1> QED
  BY <1>2, <1>5, <1>6, <1>7, <1>8, <1>9 DEF IInv

-----------------------------------------------------------------------------
(* A transaction of the loop goes on.                                      *)

LEMMA HeldFacts ==
    ASSUME IInv, lock.by # "nobody"
    PROVE  /\ ~halted /\ pc \notin OffPcs /\ lock # Free /\ token.kind # "policy_steps"
           /\ lock.at # "homing" => token.kind = "none"
           /\ journal \in Journals /\ ctx \in Contexts /\ pc \in Pcs /\ lock \in Locks
           /\ Context(pc, got, ctx) /\ Here(pc, journal, ctx)
           /\ Holder(pc, lock, journal, got, ctx)
<1>1. ~halted /\ pc \notin OffPcs /\ lock # Free
  BY DEF IInv, Control, Off, Free
<1>2. token.kind # "policy_steps" /\ (lock.at # "homing" => token.kind = "none")
  BY <1>1 DEF IInv, Fence, RunTypes, Tokens, NoToken
<1> QED
  BY <1>1, <1>2 DEF IInv, Control, RunTypes

LEMMA TxFacts ==
    ASSUME IInv, lock.by = "loop", lock.at \in TxStages
    PROVE  /\ pc \in TxPcs /\ pc \notin OffPcs /\ ~halted
           /\ Open = journal.open /\ Open \in Txs /\ journal.open # NoTx
           /\ Leg(pc, journal.state, ctx, Open) /\ OpenFits(journal, Open)
           /\ Open.kind \in Seal \cup NON_IDEMPOTENT_KINDS => Open.ep \in Eps
<1>1. lock.by # "nobody"
  OBVIOUS
<1>2. /\ pc \in TxPcs /\ pc \notin OffPcs /\ ~halted /\ Open = journal.open /\ Open \in Txs
      /\ Leg(pc, journal.state, ctx, Open) /\ Context(pc, got, ctx)
  BY <1>1, HeldFacts DEF Holder, Open
<1>3. journal.open # NoTx
  BY <1>2, NoTxIsNone
<1>4. OpenFits(journal, Open)
  BY <1>2, <1>3 DEF IInv, OnDisk
<1>5. Open.kind \in Seal \cup NON_IDEMPOTENT_KINDS =>
        pc \in EpisodePcs /\ pc \notin {"top", "faulted", "contained"}
  BY <1>2 DEF Leg, TxPcs, Seal, NON_IDEMPOTENT_KINDS, EpisodePcs, ForwardPcs, ResetPcs
<1>6. Open.kind \in Seal \cup NON_IDEMPOTENT_KINDS => Open.ep \in Eps
  BY <1>2, <1>5 DEF Leg, Context
<1> QED
  BY <1>2, <1>3, <1>4, <1>6

LEMMA LockMoves ==
    ASSUME lock \in Locks, NEW at \in {"homing", "acted", "acknowledged", "consume", "clear"}
    PROVE  LET l == [lock EXCEPT !.at = at]
           IN  l \in Locks /\ l.by = lock.by /\ l.at = at
BY DEF Locks, TxStages

\* The fence is down; what is left to show of a step inside a transaction.
LEMMA HeldKeeps ==
    ASSUME IInv, RunTypes', StopTypes', lock.by = "loop", lock'.by = "loop",
           UNCHANGED <<pc, numbers, halted, refused>>,
           ctx'.ep = ctx.ep, ctx'.written = ctx.written,
           Context(pc, got', ctx'), Holder(pc, lock', journal', got', ctx'),
           journal'.state = journal.state, journal'.episode = journal.episode,
           journal'.attempted = journal.attempted,
           Fence(token', lock', journal'),
           OnDisk'
    PROVE  IInv'
<1>1. /\ ~halted /\ pc \notin OffPcs /\ Here(pc, journal, ctx)
  BY HeldFacts
<1>2. Here(pc, journal', ctx')
  BY <1>1 DEF Here
<1>3. Off(pc, lock', FALSE, token', journal')
  BY <1>1 DEF Off, OffPcs
<1>4. halted' = FALSE
  BY <1>1 DEF IInv, RunTypes
<1>5. Control'
  BY <1>2, <1>3, <1>4 DEF Control
<1>6. Fresh(pc, journal, numbers, ctx)'
  BY <1>1 DEF IInv, Fresh, Unused, OffPcs
<1> QED
  BY <1>5, <1>6 DEF IInv

LEMMA HomeStartsKeeps == ASSUME IInv, HomeStarts PROVE IInv'
<1>1. /\ lock.by = "loop" /\ lock.at = "prepared" /\ Open.kind = "home" /\ lock \in Locks
      /\ token' = [kind |-> "home", ep |-> Open.ep] /\ lock' = [lock EXCEPT !.at = "homing"]
      /\ UNCHANGED <<journal, rollout, pc, got, ctx, numbers, halted, gen, stops, verdict, refused>>
  BY DEF HomeStarts, counts, opvars, ghosts, IInv, RunTypes
<1>2. Open.ep \in Eps
  BY <1>1, TxFacts DEF TxStages, NON_IDEMPOTENT_KINDS
<1>3. lock' \in Locks /\ lock'.by = "loop" /\ lock'.at = "homing"
  BY <1>1, LockMoves
<1>4. RunTypes' /\ StopTypes'
  <2>1. token' \in Tokens
    BY <1>1, <1>2 DEF Tokens
  <2> QED
    BY <1>1, <1>3, <2>1 DEF IInv, RunTypes, StopTypes
<1>5. Holder(pc, lock', journal, got, ctx)
  BY <1>1, <1>3, HeldFacts, CommandsAssumption DEF Holder, TxStages, Open
<1>6. Fence(token', lock', journal)
  BY <1>1, <1>3 DEF Fence, Open
<1>7. Context(pc, got, ctx) /\ OnDisk'
  BY <1>1, HeldFacts DEF IInv, OnDisk
<1> QED
  BY <1>1, <1>3, <1>4, <1>5, <1>6, <1>7, HeldKeeps

LEMMA ActAnswers ==
    ASSUME Open.kind \in Kinds \ {"none"}, NEW x \in ActOutcomes \ {"raises"}
    PROVE  Answer(Open.kind, x)
<1>1. CASE Open.kind = "policy_steps"
  <2>1. Open.kind \notin Seal
    BY <1>1 DEF Seal
  <2>2. ActOutcomes = IF \E c \in StopIds : stops[c] > 0 THEN {"operator"}
                      ELSE {"yes", "policy", "policy_fault", "recorder", "raises"}
    BY <1>1, <2>1, Zenon DEF ActOutcomes
  <2> QED
    BY <1>1, <2>2 DEF Answer, Seal
<1>2. CASE Open.kind = "hold"
  <2>1. Open.kind \notin Seal
    BY <1>2 DEF Seal
  <2>2. ActOutcomes = {"yes", "raises"}
    BY <1>2, <2>1, Zenon DEF ActOutcomes
  <2> QED
    BY <1>2, <2>2 DEF Answer, Seal
<1>3. CASE Open.kind = "policy_quiesce"
  <2>1. Open.kind \notin Seal
    BY <1>3 DEF Seal
  <2>2. ActOutcomes = {"yes", "unknown", "raises"}
    BY <1>3, <2>1, Zenon DEF ActOutcomes
  <2> QED
    BY <1>3, <2>2 DEF Answer, Seal
<1>4. CASE Open.kind \in Seal
  <2>1. Open.kind \notin {"policy_steps", "hold", "policy_quiesce", "home"}
    BY <1>4 DEF Seal
  <2>2. ActOutcomes = {"yes", "no"}
    BY <1>4, <2>1, Zenon DEF ActOutcomes
  <2> QED
    BY <1>4, <2>1, <2>2 DEF Answer
<1>5. CASE Open.kind = "home"
  <2>1. Open.kind \notin Seal
    BY <1>5 DEF Seal
  <2>2. ActOutcomes = {"yes", "no", "unknown", "raises"}
    BY <1>5, <2>1, Zenon DEF ActOutcomes
  <2> QED
    BY <1>5, <2>1, <2>2 DEF Answer
<1> QED
  BY <1>1, <1>2, <1>3, <1>4, <1>5 DEF Kinds, Seal

\* What an action's outcome makes of the rollout.
LEMMA ActRollout ==
    ASSUME NEW x, NEW r \in {"none", "open", "complete", "incomplete"}
    PROVE  LET v == CASE x = "yes" /\ Open.kind = "policy_steps" -> "open"
                      [] x = "yes" /\ Open.kind = "recorder_seal" -> "complete"
                      [] x = "yes" /\ Open.kind = "recorder_abort" -> "incomplete"
                      [] OTHER -> r
           IN  /\ v \in {"none", "open", "complete", "incomplete"}
               /\ x = "yes" /\ Open.kind \in Seal => v \in {"complete", "incomplete"}
<1> DEFINE v == CASE x = "yes" /\ Open.kind = "policy_steps" -> "open"
                  [] x = "yes" /\ Open.kind = "recorder_seal" -> "complete"
                  [] x = "yes" /\ Open.kind = "recorder_abort" -> "incomplete"
                  [] OTHER -> r
<1>1. v \in {"open", "complete", "incomplete", r}
  BY Zenon
<1>2. x = "yes" /\ Open.kind = "recorder_seal" => v = "complete"
  BY Zenon
<1>3. x = "yes" /\ Open.kind = "recorder_abort" => v = "incomplete"
  BY Zenon
<1> HIDE DEF v
<1>4. v \in {"none", "open", "complete", "incomplete"}
  BY <1>1
<1>5. x = "yes" /\ Open.kind \in Seal => v \in {"complete", "incomplete"}
  BY <1>2, <1>3 DEF Seal
<1> QED
  BY <1>4, <1>5 DEF v

LEMMA ActsKeeps == ASSUME IInv, Acts PROVE IInv'
<1>1. PICK x \in ActOutcomes \ {"raises"} :
        /\ got' = x
        /\ rollout' = [rollout EXCEPT ![Open.ep] =
              CASE x = "yes" /\ Open.kind = "policy_steps" -> "open"
                [] x = "yes" /\ Open.kind = "recorder_seal" -> "complete"
                [] x = "yes" /\ Open.kind = "recorder_abort" -> "incomplete"
                [] OTHER -> rollout[Open.ep]]
        /\ ctx' = IF x = "yes" /\ Open.kind \in Seal
                  THEN [ctx EXCEPT !.sealed = rollout'[Open.ep]] ELSE ctx
  BY DEF Acts
<1>2. /\ lock.by = "loop" /\ lock.at \in {"prepared", "homing"}
      /\ lock.at = (IF Open.kind = "home" THEN "homing" ELSE "prepared")
      /\ token' = (IF Open.kind = "home" THEN NoToken ELSE token)
      /\ lock' = [lock EXCEPT !.at = "acted"]
      /\ UNCHANGED <<journal, pc, numbers, halted, gen, stops, verdict, refused>>
  BY DEF Acts, counts, opvars, ghosts
<1>3. lock' \in Locks /\ lock'.by = "loop" /\ lock'.at = "acted"
  BY <1>2, HeldFacts, LockMoves
<1>4. /\ pc \in TxPcs /\ Open = journal.open /\ Open \in Txs
      /\ Leg(pc, journal.state, ctx, Open)
      /\ Open.kind \in Seal => Open.ep \in Eps
  BY <1>2, TxFacts DEF TxStages
<1>5. Open.kind \in Kinds \ {"none"} /\ journal.ack = "none"
  BY <1>2, <1>4, HeldFacts DEF Holder, Txs
<1>6. Answer(Open.kind, got')
  BY <1>1, <1>5, ActAnswers
<1>7. rollout' \in Rollouts /\ (x = "yes" /\ Open.kind \in Seal =>
        rollout'[Open.ep] \in {"complete", "incomplete"})
  <2> DEFINE v == CASE x = "yes" /\ Open.kind = "policy_steps" -> "open"
                    [] x = "yes" /\ Open.kind = "recorder_seal" -> "complete"
                    [] x = "yes" /\ Open.kind = "recorder_abort" -> "incomplete"
                    [] OTHER -> rollout[Open.ep]
  <2>1. rollout \in Rollouts
    BY DEF IInv, RunTypes
  <2>2. rollout' = [rollout EXCEPT ![Open.ep] = v]
    BY <1>1
  <2>3. Open.ep \in Eps =>
          /\ v \in {"none", "open", "complete", "incomplete"}
          /\ x = "yes" /\ Open.kind \in Seal => v \in {"complete", "incomplete"}
    <3>1. ASSUME Open.ep \in Eps PROVE rollout[Open.ep] \in {"none", "open", "complete", "incomplete"}
      BY <2>1, <3>1 DEF Rollouts
    <3> QED
      BY <3>1, ActRollout
  <2> HIDE DEF v
  <2> QED
    BY <1>4, <2>1, <2>2, <2>3 DEF Rollouts
<1>8. /\ ctx' \in Contexts /\ ctx'.ep = ctx.ep /\ ctx'.written = ctx.written
      /\ ctx'.ran = ctx.ran /\ ctx'.reason = ctx.reason /\ ctx'.outcome = ctx.outcome
      /\ ctx'.left = ctx.left
      /\ Open.kind \notin Seal => ctx' = ctx
  BY <1>1, <1>2, <1>7, HeldFacts DEF Contexts
<1>9. Context(pc, got', ctx')
  <2>1. pc = "top" => Open.kind \notin Seal
    BY <1>4 DEF Leg, Seal
  <2>2. Context(pc, got, ctx)
    BY <1>2, HeldFacts
  <2> QED
    BY <1>4, <1>8, <2>1, <2>2 DEF Context, TxPcs, IdlePcs, OffPcs
<1>10. Leg(pc, journal.state, ctx', Open)
  BY <1>4, <1>8 DEF Leg
<1>11. Holder(pc, lock', journal', got', ctx')
  BY <1>2, <1>3, <1>4, <1>5, <1>6, <1>10, CommandsAssumption DEF Holder, TxStages
<1>12. token' = NoToken \/ token'.kind = "none"
  BY <1>2, HeldFacts
<1>13. token' \in Tokens /\ Fence(token', lock', journal')
  BY <1>2, <1>12 DEF Fence, NoToken, IInv, RunTypes, Tokens
<1>14. RunTypes' /\ StopTypes'
  BY <1>2, <1>3, <1>7, <1>8, <1>13 DEF IInv, RunTypes, StopTypes
<1>15. OnDisk' /\ UNCHANGED journal
  BY <1>2 DEF IInv, OnDisk
<1> QED
  BY <1>2, <1>3, <1>8, <1>9, <1>11, <1>13, <1>14, <1>15, HeldKeeps

LEMMA AcknowledgesKeeps == ASSUME IInv, Acknowledges PROVE IInv'
<1> DEFINE ack == IF got \in {"yes", "unknown"} THEN got ELSE "no"
<1>1. /\ lock.at = "acted" /\ journal' = [journal EXCEPT !.ack = ack]
      /\ lock' = [lock EXCEPT !.at = "acknowledged"]
      /\ UNCHANGED <<rollout, pc, got, ctx, numbers, token, halted, gen, stops, verdict, refused>>
  BY DEF Acknowledges, counts, opvars, ghosts
<1>2. lock.by = "loop"
  BY <1>1, CommandsAssumption DEF IInv, Control, Holder, RunTypes, Locks
<1>3. lock' \in Locks /\ lock'.by = "loop" /\ lock'.at = "acknowledged"
  BY <1>1, <1>2, HeldFacts, LockMoves
<1>4. /\ journal' \in Journals /\ journal'.ack = ack /\ journal'.open = journal.open
      /\ journal'.state = journal.state /\ journal'.episode = journal.episode
      /\ journal'.attempted = journal.attempted /\ journal'.begun = journal.begun
      /\ journal'.results = journal.results
  <2>1. ack \in {"none", "yes", "no", "unknown"}
    OBVIOUS
  <2> HIDE DEF ack
  <2> QED
    BY <1>1, <1>2, <2>1, HeldFacts DEF Journals
<1>5. Holder(pc, lock', journal', got, ctx)
  BY <1>1, <1>2, <1>3, <1>4, HeldFacts, CommandsAssumption DEF Holder, TxStages
<1>6. Fence(token, lock', journal')
  BY <1>1, <1>2, HeldFacts DEF Fence
<1>7. RunTypes' /\ StopTypes'
  BY <1>1, <1>3, <1>4 DEF IInv, RunTypes, StopTypes
<1>8. OnDisk'
  BY <1>4 DEF IInv, OnDisk, Results, OpenFits
<1>9. Context(pc, got, ctx)
  BY <1>2, HeldFacts
<1> HIDE DEF ack
<1> QED
  BY <1>1, <1>2, <1>3, <1>4, <1>5, <1>6, <1>7, <1>8, <1>9, HeldKeeps

-----------------------------------------------------------------------------
(* A transaction is committed.                                             *)

\* What a commit leaves on disk.
LEMMA CommittedIs ==
    ASSUME IInv, NEW b \in BOOLEAN, Open \in Txs, OpenFits(journal, Open),
           Open.kind = "recorder_seal" => Open.ep \in Eps
    PROVE  /\ Committed(b) \in Journals /\ Committed(b).state = Open.to
           /\ Committed(b).open = NoTx
           /\ Committed(b).episode = (IF Open.ep = NoEp THEN journal.episode ELSE Open.ep)
           /\ Committed(b).attempted = journal.attempted
           /\ Results(Committed(b))
<1> DEFINE j == Committed(b)
           t == Open
<1>1. journal \in Journals /\ Results(journal) /\ t \in Txs /\ OpenFits(journal, t)
  BY DEF IInv, RunTypes, OnDisk
<1>2. /\ t.to \in AERI_STATES /\ t.ep \in EpOrNone /\ t.res \in BOOLEAN
      /\ t.to \in MOTION_STATES => t.ep \in Eps
      /\ t.res => t.ep \in Eps
  BY <1>1 DEF Txs, OpenFits, Results
<1>3. /\ j.state = t.to /\ j.open = NoTx /\ j.ack = "none"
      /\ j.episode = (IF t.ep = NoEp THEN journal.episode ELSE t.ep)
      /\ j.begun = (IF t.to \in MOTION_STATES THEN journal.begun \cup {t.ep} ELSE journal.begun)
      /\ j.attempted = journal.attempted
      /\ j.results = (IF t.res THEN [journal.results EXCEPT ![t.ep] = journal.results[t.ep] + 1]
                      ELSE journal.results)
  BY <1>1 DEF Committed, BeginsEpisode, Journals
<1>4. j \in Journals
  <2> DEFINE episode == IF Open.ep = NoEp THEN journal.episode ELSE Open.ep
             begun == IF BeginsEpisode THEN journal.begun \cup {Open.ep} ELSE journal.begun
             sealed == IF Open.kind = "recorder_seal" THEN journal.sealed \cup {Open.ep}
                       ELSE journal.sealed
             results == IF Open.res
                        THEN [journal.results EXCEPT ![Open.ep] = journal.results[Open.ep] + 1]
                        ELSE journal.results
             complete == IF Open.res /\ b THEN journal.complete \cup {Open.ep}
                         ELSE journal.complete
             rounds == IF Open.res /\ b /\ Round THEN journal.rounds \cup {Open.ep}
                       ELSE journal.rounds
  <2>1. /\ episode \in EpOrNone /\ begun \in SUBSET Eps /\ results \in [Eps -> Nat]
        /\ sealed \in SUBSET Eps /\ complete \in SUBSET Eps /\ rounds \in SUBSET Eps
    BY <1>1, <1>2 DEF BeginsEpisode, Journals
  <2>2. j = [journal EXCEPT !.state = Open.to, !.open = NoTx, !.ack = "none",
                            !.episode = episode, !.begun = begun, !.sealed = sealed,
                            !.results = results, !.complete = complete, !.rounds = rounds]
    BY DEF Committed
  <2> HIDE DEF episode, begun, sealed, results, complete, rounds
  <2> QED
    BY <1>1, <1>2, <2>1, <2>2 DEF Journals
<1> HIDE DEF j
<1>5. Results(j)
  <2>1. CASE t.to \in MOTION_STATES
    <3>1. /\ t.ep \in Eps /\ t.ep \notin journal.begun /\ ~t.res
          /\ [ep |-> t.ep, kind |-> "policy_steps"] \in journal.attempted
          /\ journal.state \notin EPISODE_STATES
      BY <1>1, <2>1 DEF OpenFits, SceneStates, EPISODE_STATES
    <3>2. j.begun = journal.begun \cup {t.ep} /\ j.results = journal.results /\ j.episode = t.ep
      BY <1>3, <2>1, <3>1, NoEpIsNone
    <3>3. journal.results[t.ep] = 0 /\ j.state \in EPISODE_STATES
      BY <1>1, <1>3, <2>1, <3>1 DEF Results, MOTION_STATES, EPISODE_STATES
    <3> QED
      BY <1>1, <1>3, <3>1, <3>2, <3>3 DEF Results
  <2>2. CASE t.to \in EPISODE_STATES \ MOTION_STATES
    BY <1>1, <1>2, <1>3, <2>2, NoEpIsNone DEF Results, OpenFits
  <2>3. CASE t.to \notin EPISODE_STATES /\ t.res
    <3>1. t.to \notin MOTION_STATES
      BY <2>3 DEF MOTION_STATES, EPISODE_STATES
    <3> QED
      BY <1>1, <1>2, <1>3, <2>3, <3>1 DEF Results, OpenFits, Journals
  <2>4. CASE t.to \notin EPISODE_STATES /\ ~t.res
    <3>1. t.to \notin MOTION_STATES
      BY <2>4 DEF MOTION_STATES, EPISODE_STATES
    <3> QED
      BY <1>1, <1>2, <1>3, <2>4, <3>1 DEF Results, OpenFits
  <2> QED
    BY <2>1, <2>2, <2>3, <2>4
<1> QED
  BY <1>3, <1>4, <1>5 DEF j

LEMMA CommitsAre ==
    ASSUME IInv, Commits
    PROVE  /\ lock.at = "acknowledged" /\ lock.by # "nobody" /\ ~halted
           /\ Open.kind = "none" \/ journal.ack = "yes"
           /\ \E b \in BOOLEAN : journal' = Committed(b)
           /\ ctx' = (IF Open.res THEN [ctx EXCEPT !.written = TRUE] ELSE ctx)
           /\ got' = (IF lock.by = "loop" THEN "yes" ELSE got)
           /\ Consumes /\ lock.by # "resume" => lock' = [lock EXCEPT !.at = "consume"]
           /\ ~Consumes /\ lock.by = "resume" => lock' = [lock EXCEPT !.at = "clear"]
           /\ ~Consumes /\ lock.by # "resume" => lock' = Free
           /\ UNCHANGED <<rollout, pc, numbers, token, halted, gen, stops, verdict, refused>>
<1>1. /\ lock' = CASE Consumes -> [lock EXCEPT !.at = "consume"]
                   [] lock.by = "resume" -> [lock EXCEPT !.at = "clear"]
                   [] OTHER -> Free
  BY DEF Commits
<1>2. /\ Consumes /\ lock.by # "resume" => lock' = [lock EXCEPT !.at = "consume"]
      /\ ~Consumes /\ lock.by = "resume" => lock' = [lock EXCEPT !.at = "clear"]
      /\ ~Consumes /\ lock.by # "resume" => lock' = Free
  BY <1>1, Zenon
<1>3. lock.at = "acknowledged" /\ lock.by # "nobody"
  BY DEF Commits, IInv, Control, Holder
<1>4. \E b \in BOOLEAN : journal' = Committed(b)
  <2>1. (ctx.sealed = "complete") \in BOOLEAN /\ journal' = Committed(ctx.sealed = "complete")
    BY Zenon DEF Commits
  <2> QED
    BY <2>1, Zenon
<1> QED
  BY <1>2, <1>3, <1>4 DEF Commits, counts, opvars

\* The loop's own transaction is over.
LEMMA LoopCommits ==
    ASSUME IInv, Commits, lock.by = "loop"
    PROVE  IInv'
<1> DEFINE t == Open
<1>1. /\ pc \in TxPcs /\ pc \notin OffPcs /\ ~halted /\ t = journal.open /\ t \in Txs
      /\ Leg(pc, journal.state, ctx, t) /\ OpenFits(journal, t)
      /\ t.kind = "recorder_seal" => t.ep \in Eps
  BY CommitsAre, TxFacts DEF TxStages, Seal
<1>2. PICK b \in BOOLEAN : journal' = Committed(b)
  BY CommitsAre
<1>3. /\ journal' \in Journals /\ journal'.state = t.to /\ journal'.open = NoTx
      /\ journal'.episode = (IF t.ep = NoEp THEN journal.episode ELSE t.ep)
      /\ journal'.attempted = journal.attempted /\ Results(journal')
  BY <1>1, <1>2, CommittedIs
<1>4. /\ ctx \in Contexts /\ Context(pc, got, ctx) /\ Here(pc, journal, ctx)
      /\ lock \in Locks /\ token.kind = "none"
  BY CommitsAre, HeldFacts
<1>5. /\ ctx' \in Contexts /\ ctx'.ep = ctx.ep /\ ctx'.reason = ctx.reason
      /\ ctx'.outcome = ctx.outcome /\ ctx'.left = ctx.left
      /\ t.res => pc \notin IdlePcs /\ pc # "started"
      /\ ~t.res => ctx' = ctx
  BY <1>1, <1>4, CommitsAre DEF Contexts, Leg, TxPcs, IdlePcs, OffPcs
<1>6. got' = "yes" /\ pc' = pc /\ halted' = FALSE /\ UNCHANGED <<numbers, token, refused>>
  BY <1>1, CommitsAre DEF IInv, RunTypes
<1>7. Context(pc, "yes", ctx')
  BY <1>1, <1>4, <1>5 DEF Context, TxPcs, IdlePcs, OffPcs
<1>8. Here(pc, journal', ctx')
  <2> SUFFICES ASSUME pc \in EpisodePcs \cup FaultPcs, t.to \in EPISODE_STATES
               PROVE  ctx'.ep = journal'.episode /\ ~ctx'.written
    BY <1>3 DEF Here
  <2>1. ~t.res /\ ctx' = ctx
    BY <1>1, <1>5 DEF OpenFits, MOTION_STATES, EPISODE_STATES
  <2>2. pc \notin {"top", "faulted", "contained"}
    BY <1>1 DEF Leg, EpisodePcs, ForwardPcs, ResetPcs, FaultPcs, EPISODE_STATES
  <2>3. pc \in EpisodePcs /\ t.ep = ctx.ep /\ ctx.ep \in Eps
    BY <1>1, <1>4, <2>2 DEF Leg, TxPcs, EpisodePcs, ForwardPcs, ResetPcs, Context
  <2>4. ~ctx.written
    <3>1. CASE pc = "started"
      BY <1>4, <3>1 DEF Context
    <3>2. CASE pc # "started"
      <4>1. t.to \notin MOTION_STATES
        BY <1>1, <2>2, <2>3, <3>2 DEF Leg, TxPcs, MOTION_STATES, Eps, Roles
      <4>2. t.to \in EPISODE_STATES \ MOTION_STATES
        BY <4>1
      <4>3. journal.state \in EPISODE_STATES
        BY <1>1, <4>2 DEF OpenFits
      <4> QED
        BY <1>4, <4>3 DEF Here
    <3> QED
      BY <3>1, <3>2
  <2> QED
    BY <1>3, <2>1, <2>3, <2>4, NoEpIsNone
<1>9. ctx.ep.role \in Roles \/ pc \notin EpisodePcs
  BY <1>4 DEF Context, Eps
<1>10. CASE Consumes
  <2>1. lock' \in Locks /\ lock'.by = "loop" /\ lock'.at = "consume"
    BY <1>4, <1>10, CommitsAre, LockMoves
  <2>2. /\ pc = "top" => t.to \in {"WAIT_HUMAN", "COMPLETED"}
        /\ pc # "top" => pc = "homed" /\ ctx.ep.role = "reset" /\ t.to = "WAIT_HUMAN"
    BY <1>1, <1>9, <1>10 DEF Consumes, Leg, TxPcs, EpisodePcs, Roles, MotionOf
  <2>3. Holder(pc, lock', journal', "yes", ctx')
    BY <1>1, <1>3, <1>5, <2>1, <2>2, CommandsAssumption DEF Holder, TxStages
  <2>4. Control'
    BY <1>1, <1>6, <1>7, <1>8, <2>1, <2>3 DEF Control, Off, OffPcs
  <2>5. Fence(token, lock, journal)'
    BY <1>4, <1>6 DEF Fence
  <2>6. RunTypes' /\ StopTypes'
    BY <1>3, <1>5, <2>1, CommitsAre DEF IInv, RunTypes, StopTypes
  <2>7. OnDisk' /\ Fresh(pc, journal, numbers, ctx)'
    BY <1>1, <1>3, <1>5, <1>6 DEF IInv, OnDisk, Fresh, Unused, OffPcs
  <2> QED
    BY <1>6, <2>4, <2>5, <2>6, <2>7 DEF IInv
<1>11. CASE ~Consumes
  <2>1. lock' = Free
    BY <1>11, CommitsAre
  <2>2. At(pc, journal'.state, "yes", ctx'.ep.role)
    BY <1>1, <1>3, <1>5, <1>9 DEF At, Leg, TxPcs, EpisodePcs, HOLD_STATES, SceneStates, Roles
  <2>3. Holder(pc, lock', journal', "yes", ctx')
    BY <1>3, <2>1, CommandsAssumption DEF Holder, Free
  <2>4. Control'
    BY <1>1, <1>6, <1>7, <1>8, <2>2, <2>3 DEF Control, Off, OffPcs
  <2>5. Fence(token, lock, journal)'
    BY <1>4, <1>6 DEF Fence
  <2>6. RunTypes' /\ StopTypes'
    BY <1>3, <1>5, <2>1, CommitsAre DEF IInv, RunTypes, StopTypes, Free, Locks
  <2>7. OnDisk' /\ Fresh(pc, journal, numbers, ctx)'
    BY <1>1, <1>3, <1>5, <1>6 DEF IInv, OnDisk, Fresh, Unused, OffPcs
  <2> QED
    BY <1>6, <2>4, <2>5, <2>6, <2>7 DEF IInv
<1> QED
  BY <1>10, <1>11

\* Where the loop rests while the operator moves the run.
LEMMA RestsThrough ==
    ASSUME IInv, lock.by # "loop", ~halted, pc \notin OffPcs, journal.state \in HUMAN_STATES,
           NEW s \in {"COMPLETED", "PREFLIGHT"}, s = "COMPLETED" => journal.state = "WAIT_HUMAN"
    PROVE  At(pc, s, got, ctx.ep.role)
<1>1. At(pc, journal.state, got, ctx.ep.role) /\ Context(pc, got, ctx)
  BY DEF IInv, Control
<1>2. ctx.ep.role \in Roles \/ pc \notin EpisodePcs
  BY <1>1 DEF Context, Eps
<1>3. pc \in {"top", "rest", "homed", "faulted", "contained", "raised"}
  BY <1>1, <1>2 DEF IInv, RunTypes, At, Pcs, OffPcs, EpisodePcs, HUMAN_STATES, HOLD_STATES,
                    SceneStates, MotionOf, Roles
<1> QED
  BY <1>1, <1>2, <1>3 DEF At, HUMAN_STATES, HOLD_STATES, EpisodePcs, Roles

\* An operator's transaction is over.
LEMMA OperatorCommits ==
    ASSUME IInv, Commits, lock.by # "loop"
    PROVE  IInv'
<1>1. /\ lock.by \in StopIds \cup {"resume"} /\ lock \in Locks /\ ~halted /\ pc \notin OffPcs
      /\ Context(pc, got, ctx) /\ Holder(pc, lock, journal, got, ctx)
      /\ token.kind = "none" /\ lock.at = "acknowledged" /\ ctx \in Contexts
  BY CommitsAre, HeldFacts DEF Locks
<1>2. /\ Open \in Txs /\ Open = journal.open /\ ~Open.res /\ Open.kind = "none" /\ Open.ep = NoEp
      /\ lock.by = "resume" => Open.to = "PREFLIGHT" /\ journal.state \in HUMAN_STATES
      /\ lock.by \in StopIds =>
           Open.to = "COMPLETED" /\ Open.reason = "operator_stop" /\ journal.state = "WAIT_HUMAN"
  <2>1. CASE lock.by \in StopIds
    BY <1>1, <2>1, CommandsAssumption DEF Holder, Tx, Open
  <2>2. CASE lock.by = "resume"
    BY <1>1, <2>2, CommandsAssumption DEF Holder, Tx, Open
  <2> QED
    BY <1>1, <2>1, <2>2, CommandsAssumption
<1>3. PICK b \in BOOLEAN : journal' = Committed(b)
  BY CommitsAre
<1>4. OpenFits(journal, Open)
  BY <1>2, NoTxIsNone DEF IInv, OnDisk
<1>5. /\ journal' \in Journals /\ journal'.state = Open.to /\ journal'.open = NoTx
      /\ journal'.attempted = journal.attempted /\ Results(journal')
  BY <1>2, <1>3, <1>4, CommittedIs
<1>6. /\ ctx' = ctx /\ got' = got /\ pc' = pc /\ halted' = FALSE /\ UNCHANGED <<numbers, token, refused>>
  BY <1>1, <1>2, CommitsAre DEF IInv, RunTypes
<1>7. /\ lock' \in Locks /\ lock'.by = lock.by
      /\ lock.by = "resume" => lock'.at = "clear"
      /\ lock.by \in StopIds => lock'.at = "consume"
  <2>1. CASE lock.by \in StopIds
    BY <1>1, <1>2, <2>1, CommitsAre, LockMoves, CommandsAssumption DEF Consumes
  <2>2. CASE lock.by = "resume"
    BY <1>1, <1>2, <2>2, CommitsAre, LockMoves, CommandsAssumption DEF Consumes
  <2> QED
    BY <1>1, <2>1, <2>2
<1>8. Control'
  <2>1. At(pc, journal'.state, got, ctx.ep.role)
    BY <1>1, <1>2, <1>5, RestsThrough, CommandsAssumption DEF HUMAN_STATES
  <2>2. Here(pc, journal', ctx)
    BY <1>1, <1>2, <1>5 DEF Here, EPISODE_STATES
  <2>3. Holder(pc, lock', journal', got, ctx)
    BY <1>1, <1>2, <1>5, <1>7, CommandsAssumption DEF Holder
  <2>4. Off(pc, lock', FALSE, token, journal')
    BY <1>1 DEF Off, OffPcs
  <2> QED
    BY <1>1, <1>6, <2>1, <2>2, <2>3, <2>4 DEF Control
<1>9. Fence(token, lock, journal)'
  BY <1>1, <1>6 DEF Fence
<1>10. RunTypes' /\ StopTypes'
  BY <1>1, <1>5, <1>6, <1>7, CommitsAre DEF IInv, RunTypes, StopTypes
<1>11. OnDisk' /\ Fresh(pc, journal, numbers, ctx)'
  BY <1>1, <1>5, <1>6 DEF IInv, OnDisk, Fresh, Unused
<1> QED
  BY <1>6, <1>8, <1>9, <1>10, <1>11 DEF IInv

LEMMA CommitsKeeps == ASSUME IInv, Commits PROVE IInv'
BY LoopCommits, OperatorCommits

-----------------------------------------------------------------------------
(* The end of a transaction that is not committed, and of one that is.     *)

LEMMA AbortsKeeps == ASSUME IInv, Aborts PROVE IInv'
<1>1. /\ lock.at = "acknowledged" /\ ~halted /\ Open.kind # "none" /\ journal.ack # "yes"
      /\ journal' = Aborted /\ lock' = Free
      /\ UNCHANGED <<rollout, pc, got, ctx, numbers, token, halted, gen, stops, verdict, refused>>
  BY DEF Aborts, counts, opvars, ghosts
<1>2. lock.by # "nobody" /\ Holder(pc, lock, journal, got, ctx)
  BY <1>1 DEF IInv, Control, Holder
<1>3. lock.by = "loop"
  <2>1. ASSUME NEW c \in StopIds, journal.open = Tx("COMPLETED", "operator_stop", "none", c, NoEp)
        PROVE  FALSE
    BY <1>1, <2>1 DEF Tx, Open
  <2>2. ASSUME journal.open = Tx("PREFLIGHT", "human_resumed", "none", OtherId, NoEp) PROVE FALSE
    BY <1>1, <2>2 DEF Tx, Open
  <2>3. lock.by \in {"loop", "resume"} \cup StopIds
    BY <1>2, HeldFacts DEF Locks
  <2> QED
    BY <1>1, <1>2, <2>1, <2>2, <2>3 DEF Holder
<1>4. /\ pc \in TxPcs /\ pc \notin OffPcs /\ Open = journal.open /\ Open \in Txs
      /\ Leg(pc, journal.state, ctx, Open) /\ OpenFits(journal, Open)
  BY <1>1, <1>3, TxFacts DEF TxStages
<1>5. Answer(Open.kind, got) /\ got # "yes"
  BY <1>1, <1>2, <1>3, <1>4 DEF Holder
<1>6. /\ Context(pc, got, ctx) /\ Here(pc, journal, ctx) /\ token.kind = "none"
  BY <1>1, <1>2, HeldFacts
<1>7. ctx.ep.role \in Roles \/ pc \notin EpisodePcs
  BY <1>6 DEF Context, Eps
<1>8. At(pc, journal.state, got, ctx.ep.role)
  BY <1>1, <1>4, <1>5, <1>7 DEF At, Leg, TxPcs, EpisodePcs, ForwardPcs, ResetPcs, Roles, Answer
<1>9. Control'
  <2>1. Here(pc, Aborted, ctx) /\ At(pc, Aborted.state, got, ctx.ep.role)
    BY <1>6, <1>8, AbortedIs DEF Here
  <2>2. Holder(pc, Free, Aborted, got, ctx)
    BY AbortedIs, CommandsAssumption DEF Holder, Free
  <2>3. Off(pc, Free, FALSE, token, Aborted)
    BY <1>4 DEF Off, OffPcs
  <2>4. halted' = FALSE
    BY <1>1 DEF IInv, RunTypes
  <2> QED
    BY <1>1, <1>6, <2>1, <2>2, <2>3, <2>4 DEF Control
<1>10. Fence(token, lock, journal)'
  BY <1>1, <1>6 DEF Fence
<1>11. RunTypes' /\ StopTypes'
  BY <1>1, AbortedIs DEF IInv, RunTypes, StopTypes, Free, Locks
<1>12. OnDisk' /\ Fresh(pc, journal, numbers, ctx)'
  BY <1>1, <1>4, AbortedIs DEF IInv, OnDisk, Fresh, Unused, OffPcs
<1> QED
  BY <1>1, <1>9, <1>10, <1>11, <1>12 DEF IInv

LEMMA ReleaseKeeps ==
    ASSUME IInv, lock.at \in {"consume", "clear"}, lock' = Free, StopTypes',
           UNCHANGED <<journal, rollout, pc, got, ctx, numbers, token, halted, refused>>
    PROVE  IInv'
<1>1. lock.by # "nobody" /\ lock # Free /\ token.kind = "none"
  BY HeldFacts DEF IInv, Control, Holder
<1>2. /\ ~halted /\ pc \notin OffPcs /\ Context(pc, got, ctx) /\ Here(pc, journal, ctx)
      /\ Holder(pc, lock, journal, got, ctx) /\ lock \in Locks
  BY <1>1, HeldFacts
<1>3. journal.open = NoTx
  BY <1>1, <1>2 DEF Holder, Locks, TxStages
<1>4. At(pc, journal.state, got, ctx.ep.role)
  <2>1. CASE lock.by # "loop"
    BY <1>2, <2>1 DEF IInv, Control
  <2>2. CASE lock.by = "loop"
    BY <1>2, <2>2 DEF Holder, TxStages, At, HOLD_STATES
  <2> QED
    BY <2>1, <2>2
<1>5. Control'
  <2>1. Holder(pc, Free, journal, got, ctx)
    BY <1>3, CommandsAssumption DEF Holder, Free
  <2>2. Off(pc, Free, FALSE, token, journal)
    BY <1>2 DEF Off, OffPcs
  <2>3. halted' = FALSE
    BY <1>2 DEF IInv, RunTypes
  <2> QED
    BY <1>2, <1>4, <2>1, <2>2, <2>3 DEF Control
<1>6. Fence(token, lock, journal)'
  BY <1>1 DEF Fence
<1>7. RunTypes'
  BY DEF IInv, RunTypes, Free, Locks
<1>8. OnDisk' /\ Fresh(pc, journal, numbers, ctx)'
  BY DEF IInv, OnDisk
<1> QED
  BY <1>5, <1>6, <1>7, <1>8 DEF IInv

LEMMA ConsumesStopsKeeps == ASSUME IInv, ConsumesStops PROVE IInv'
<1>1. /\ lock.at = "consume" /\ lock' = Free /\ stops' = [c \in StopIds |-> 0]
      /\ UNCHANGED <<journal, rollout, pc, got, ctx, numbers, token, halted, refused, gen, verdict>>
  BY DEF ConsumesStops, counts, ghosts
<1>2. StopTypes'
  BY <1>1 DEF IInv, StopTypes
<1> QED
  BY <1>1, <1>2, ReleaseKeeps

LEMMA ResumeClearsKeeps == ASSUME IInv, ResumeClears PROVE IInv'
<1>1. /\ lock.at = "clear" /\ lock' = Free
      /\ stops' = [c \in StopIds |-> IF Overridden(c) THEN 0 ELSE stops[c]]
      /\ UNCHANGED <<journal, rollout, pc, got, ctx, numbers, token, halted, refused, gen, verdict>>
  BY DEF ResumeClears, ghosts
<1>2. StopTypes'
  BY <1>1 DEF IInv, StopTypes
<1> QED
  BY <1>1, <1>2, ReleaseKeeps
-----------------------------------------------------------------------------
(* The operator.                                                           *)

LEMMA RegistersKeep ==
    ASSUME IInv, NEW c \in StopIds, StopChecks(c) \/ StopRegisters(c) \/ StopReturns(c)
    PROVE  IInv'
<1>1. UNCHANGED <<journal, rollout, pc, lock, got, ctx, numbers, token, halted, refused, verdict>>
  BY DEF StopChecks, StopRegisters, StopReturns, counts, ghosts
<1>2. RunTypes'
  BY <1>1 DEF IInv, RunTypes
<1>3. (gen' = gen /\ stops' = stops) \/ (gen' = gen + 1 /\ stops' = [stops EXCEPT ![c] = gen + 1])
  BY DEF StopChecks, StopRegisters, StopReturns
<1>4. StopTypes'
  <2>1. CASE gen' = gen /\ stops' = stops
    BY <1>1, <2>1 DEF IInv, StopTypes
  <2>2. CASE gen' = gen + 1 /\ stops' = [stops EXCEPT ![c] = gen + 1]
    <3>1. gen \in Nat /\ stops \in [StopIds -> Nat] /\ \A d \in StopIds : stops[d] <= gen
      BY DEF IInv, StopTypes
    <3>2. gen' \in Nat /\ stops' \in [StopIds -> Nat]
      BY <2>2, <3>1
    <3>3. \A d \in StopIds : stops'[d] <= gen'
      BY <2>2, <3>1
    <3> QED
      BY <1>1, <3>2, <3>3 DEF IInv, StopTypes
  <2> QED
    BY <1>3, <2>1, <2>2
<1> QED
  BY <1>1, <1>2, <1>4, ApartKeeps

LEMMA EpisodeVerdictKeeps == ASSUME IInv, EpisodeVerdict PROVE IInv'
<1>1. /\ UNCHANGED <<journal, rollout, pc, lock, got, ctx, numbers, token, halted, refused, stops, gen>>
      /\ ctx.ep.role = "forward" /\ \E l \in {"keep", "discard"} : verdict' = [ep |-> ctx.ep, label |-> l]
  BY DEF EpisodeVerdict, counts, ghosts
<1>2. ctx.ep \in Eps
  BY <1>1 DEF IInv, RunTypes, Contexts, EpOrNone, NoEp
<1>3. RunTypes' /\ StopTypes'
  BY <1>1, <1>2 DEF IInv, RunTypes, StopTypes, Verdicts
<1> QED
  BY <1>1, <1>3, ApartKeeps

\* The operator's transaction has nothing to carry out.
LEMMA OperatorBegins ==
    ASSUME IInv, NEW by \in StopIds \cup {"resume"}, NEW t \in Txs, Begin(by, t), Serving,
           journal.state \in HUMAN_STATES, t.kind = "none", ~t.res, t.ep = NoEp,
           t.to \in {"COMPLETED", "PREFLIGHT"},
           CheckTransition(journal.state, t.to, t.reason, t.who, t.kind, t.ep.role, t.res),
           by \in StopIds => /\ journal.state = "WAIT_HUMAN"
                             /\ t = Tx("COMPLETED", "operator_stop", "none", by, NoEp),
           by = "resume" => t = Tx("PREFLIGHT", "human_resumed", "none", OtherId, NoEp),
           UNCHANGED <<rollout, pc, got, ctx, numbers, halted, gen, stops, verdict>>
    PROVE  IInv'
<1>1. lock = Free /\ ~halted /\ lock.by # "loop" /\ pc \notin OffPcs /\ pc # "raised"
  BY DEF Begin, Free, Serving, OffPcs
<1>2. /\ At(pc, journal.state, got, ctx.ep.role) /\ Context(pc, got, ctx)
      /\ Here(pc, journal, ctx)
  BY <1>1 DEF IInv, Control
<1>3. pc # "contain"
  BY <1>2 DEF At, HUMAN_STATES, HOLD_STATES
<1>4. journal.open = NoTx
  BY <1>1, <1>3, OpenIsNone
<1>5. Allowed(t)
  BY <1>1, <1>4 DEF Allowed, State, NON_IDEMPOTENT_KINDS
<1> DEFINE j == Prepared(t)
           l == [by |-> by, at |-> "acknowledged"]
<1>6. journal' = j /\ lock' = l /\ token' = NoToken /\ refused' = refused
  BY <1>5 DEF Begin, Revoked
<1>7. /\ j \in Journals /\ j.open = t /\ j.ack = "none" /\ j.state = journal.state
      /\ j.episode = journal.episode /\ j.attempted = journal.attempted /\ j.begun = journal.begun
  BY PreparedType DEF NON_IDEMPOTENT_KINDS
<1>8. OpenFits(j, t)
  BY <1>7 DEF OpenFits, HUMAN_STATES, EPISODE_STATES, MOTION_STATES
<1>9. Results(j) /\ OpenFits(j, j.open)
  BY <1>8, PrepareKeepsDisk DEF NON_IDEMPOTENT_KINDS
<1> HIDE DEF j
<1>10. Control'
  <2>1. Holder(pc, l, j, got, ctx)
    BY <1>7, CommandsAssumption DEF Holder
  <2>2. Here(pc, j, ctx) /\ At(pc, j.state, got, ctx.ep.role)
    BY <1>2, <1>7 DEF Here
  <2>3. Off(pc, l, FALSE, NoToken, j)
    BY <1>1 DEF Off, OffPcs
  <2>4. halted' = FALSE
    BY <1>1 DEF IInv, RunTypes
  <2> QED
    BY <1>2, <1>6, <2>1, <2>2, <2>3, <2>4 DEF Control
<1>11. Fence(token', lock', journal')
  BY <1>6 DEF Fence, NoToken
<1>12. RunTypes' /\ StopTypes'
  <2>1. l \in Locks
    BY DEF Locks, TxStages
  <2> QED
    BY <1>6, <1>7, <2>1 DEF IInv, RunTypes, StopTypes, Tokens
<1>13. OnDisk' /\ Fresh(pc, journal, numbers, ctx)'
  BY <1>1, <1>6, <1>7, <1>9 DEF IInv, OnDisk, Fresh, Unused
<1> QED
  BY <1>6, <1>10, <1>11, <1>12, <1>13 DEF IInv

LEMMA StopCompletesKeeps == ASSUME IInv, NEW c \in StopIds, StopCompletes(c) PROVE IInv'
<1> DEFINE t == Tx("COMPLETED", "operator_stop", "none", c, NoEp)
<1>1. /\ Serving /\ Begin(c, t) /\ ~halted /\ journal.state = "WAIT_HUMAN"
      /\ UNCHANGED <<rollout, pc, got, ctx, numbers, halted, gen, stops, verdict>>
  BY DEF StopCompletes, EndsHere, State, counts
<1>2. /\ t \in Txs /\ t.to = "COMPLETED" /\ t.reason = "operator_stop" /\ t.kind = "none"
      /\ t.ep = NoEp /\ ~t.res
  <2>1. /\ "COMPLETED" \in AERI_STATES /\ "operator_stop" \in Reasons /\ "none" \in Kinds
        /\ c \in Commands /\ NoEp \in EpOrNone
    BY DEF AERI_STATES, Reasons, FORWARD_STOPS, Kinds, Commands, EpOrNone
  <2> QED
    BY <2>1, TxType
<1>3. t.who = "operator"
  BY WhoActs, CommandsAssumption
<1>4. t = Tx("COMPLETED", "operator_stop", "none", c, NoEp)
  OBVIOUS
<1> HIDE DEF t
<1>5. CheckTransition(journal.state, t.to, t.reason, t.who, t.kind, t.ep.role, t.res)
  <2>1. t.res \in BOOLEAN
    BY <1>2 DEF Txs
  <2> QED
    BY <1>1, <1>2, <1>3, <2>1, EndEdge
<1> QED
  BY <1>1, <1>2, <1>4, <1>5, OperatorBegins, CommandsAssumption DEF HUMAN_STATES

LEMMA ResumeKeeps == ASSUME IInv, Resume PROVE IInv'
<1> DEFINE t == Tx("PREFLIGHT", "human_resumed", "none", OtherId, NoEp)
<1>1. /\ Serving /\ Begin("resume", t) /\ journal.state \in HUMAN_STATES
      /\ UNCHANGED <<rollout, pc, got, ctx, numbers, halted, gen, stops, verdict>>
  BY DEF Resume, Begin, State, counts
<1>2. /\ t \in Txs /\ t.to = "PREFLIGHT" /\ t.reason = "human_resumed" /\ t.kind = "none"
      /\ t.ep = NoEp /\ ~t.res
  <2>1. /\ "PREFLIGHT" \in AERI_STATES /\ "human_resumed" \in Reasons /\ "none" \in Kinds
        /\ OtherId \in Commands /\ NoEp \in EpOrNone
    BY DEF AERI_STATES, Reasons, Kinds, Commands, EpOrNone
  <2> QED
    BY <2>1, TxType
<1>3. t.who = "operator"
  BY WhoActs, CommandsAssumption
<1>4. t = Tx("PREFLIGHT", "human_resumed", "none", OtherId, NoEp)
  OBVIOUS
<1> HIDE DEF t
<1>5. CheckTransition(journal.state, t.to, t.reason, t.who, t.kind, t.ep.role, t.res)
  <2>1. t.res \in BOOLEAN
    BY <1>2 DEF Txs
  <2> QED
    BY <1>1, <1>2, <1>3, <2>1, ResumeEdge
<1> QED
  BY <1>1, <1>2, <1>4, <1>5, OperatorBegins, CommandsAssumption

-----------------------------------------------------------------------------
(* An exception, a line that cannot be written, a crash.                   *)

LEMMA RaisesKeeps == ASSUME IInv, Raises PROVE IInv'
<1>1. /\ ~halted /\ token' = NoToken /\ lock' = Free /\ pc' = "contain"
      /\ UNCHANGED <<journal, rollout, got, ctx, numbers, halted, gen, stops, verdict, refused>>
  BY DEF Raises, counts, opvars, ghosts
<1>2. journal.state \notin HOLD_STATES /\ Here("contain", journal, ctx) /\ pc \notin OffPcs
  <2>1. CASE lock.by = "loop" /\ lock.at \in {"prepared", "homing"}
    <3>1. /\ pc \in TxPcs /\ pc \notin OffPcs /\ Open \in Txs /\ Open = journal.open
          /\ Leg(pc, journal.state, ctx, Open)
      BY <2>1, TxFacts DEF TxStages
    <3>2. /\ Context(pc, got, ctx) /\ Here(pc, journal, ctx) /\ Open.kind # "none"
      BY <2>1, <3>1, HeldFacts DEF Holder
    <3>3. ctx.ep.role \in Roles \/ pc \notin EpisodePcs
      BY <3>2 DEF Context, Eps
    <3>4. journal.state \notin HOLD_STATES /\ pc # "top"
      BY <3>1, <3>2, <3>3 DEF Leg, TxPcs, EpisodePcs, ForwardPcs, ResetPcs, HOLD_STATES, SceneStates, Roles
    <3>5. pc \in EpisodePcs \cup FaultPcs
      BY <3>1, <3>4 DEF TxPcs, EpisodePcs, ForwardPcs, ResetPcs, FaultPcs
    <3> QED
      BY <3>1, <3>2, <3>4, <3>5 DEF Here
  <2>2. CASE lock = Free /\ AsksAdapter
    <3>1. LoopAt(pc)
      BY <1>1, <2>2 DEF LoopAt, Free
    <3>2. CASE pc \in {"preflight", "assessed"}
      <4>1. journal.state \in SceneStates \cup {"PREFLIGHT"}
        BY <3>1, <3>2, LoopFacts DEF At
      <4> QED
        BY <3>2, <4>1 DEF HOLD_STATES, SceneStates, Here, EPISODE_STATES, OffPcs
    <3>3. CASE pc \in {"drive", "step"}
      BY <3>1, <3>3, DriveFacts DEF Here
    <3>4. CASE pc \in {"finalized", "verified", "counted", "resetSealed"}
      <4>1. pc \in EpisodePcs
        BY <3>4 DEF EpisodePcs, ForwardPcs, ResetPcs
      <4>2. Here(pc, journal, ctx) /\ At(pc, journal.state, got, ctx.ep.role)
            /\ pc \notin OffPcs
        BY <3>1, <4>1, EpFacts
      <4>3. journal.state \notin HOLD_STATES
        BY <2>2, <3>4, <4>2 DEF AsksAdapter, At, HOLD_STATES
      <4> QED
        BY <4>1, <4>2, <4>3 DEF Here, FaultPcs
    <3> QED
      BY <2>2, <3>2, <3>3, <3>4 DEF AsksAdapter
  <2> QED
    BY <2>1, <2>2 DEF Raises, InAdapter
<1>3. Control'
  <2>1. At("contain", journal.state, got, ctx.ep.role) /\ Context("contain", got, ctx)
    BY <1>2 DEF At, Context, IdlePcs, OffPcs, EpisodePcs, ForwardPcs, ResetPcs
  <2>2. Holder("contain", Free, journal, got, ctx)
    BY CommandsAssumption DEF Holder, Free
  <2>3. Off("contain", Free, FALSE, NoToken, journal)
    BY DEF Off, OffPcs
  <2>4. halted' = FALSE
    BY <1>1 DEF IInv, RunTypes
  <2> QED
    BY <1>1, <1>2, <2>1, <2>2, <2>3, <2>4 DEF Control
<1>4. Fence(token, lock, journal)'
  BY <1>1 DEF Fence, NoToken
<1>5. RunTypes' /\ StopTypes'
  BY <1>1 DEF IInv, RunTypes, StopTypes, Free, Locks, Tokens, Pcs
<1>6. OnDisk' /\ Fresh("contain", journal, numbers, ctx)
  BY <1>1, <1>2 DEF IInv, OnDisk, Fresh, OffPcs, EpisodePcs, ForwardPcs, ResetPcs
<1> QED
  BY <1>1, <1>3, <1>4, <1>5, <1>6 DEF IInv

LEMMA HaltsKeeps == ASSUME IInv, Halts PROVE IInv'
<1>1. /\ lock # Free /\ halted' = TRUE /\ token' = NoToken /\ lock' = Free /\ pc' = "raised"
      /\ UNCHANGED <<journal, rollout, got, ctx, numbers, gen, stops, verdict, refused>>
  BY DEF Halts, counts, opvars, ghosts
<1>2. pc \notin OffPcs
  BY <1>1 DEF IInv, Control, Off
<1>3. Control'
  <2>1. Context("raised", got, ctx)
    BY DEF Context, IdlePcs, OffPcs, EpisodePcs, ForwardPcs, ResetPcs
  <2>2. Holder("raised", Free, journal, got, ctx)
    BY CommandsAssumption DEF Holder, Free
  <2>3. Off("raised", Free, TRUE, NoToken, journal)
    BY DEF Off, OffPcs
  <2> QED
    BY <1>1, <2>1, <2>2, <2>3 DEF Control
<1>4. Fence(token, lock, journal)'
  BY <1>1 DEF Fence, NoToken
<1>5. RunTypes' /\ StopTypes'
  BY <1>1 DEF IInv, RunTypes, StopTypes, Free, Locks, Tokens, Pcs
<1>6. OnDisk' /\ Fresh("raised", journal, numbers, ctx)
  BY <1>1, <1>2 DEF IInv, OnDisk, Fresh, OffPcs, EpisodePcs, ForwardPcs, ResetPcs
<1> QED
  BY <1>1, <1>3, <1>4, <1>5, <1>6 DEF IInv

LEMMA MaxNumberType == \A r \in Roles : MaxNumber[r] \in Nat
BY BoundsAssumption DEF MaxNumber, Roles

LEMMA CrashKeeps == ASSUME IInv, Crash PROVE IInv'
<1>1. /\ pc' = "down" /\ lock' = Free /\ got' = "none" /\ ctx' = NoCtx /\ token' = NoToken
      /\ halted' = FALSE /\ numbers' = [r \in Roles |-> 0]
      /\ stops' = [c \in StopIds |-> 0] /\ gen' = 0 /\ verdict' = NoVerdict
      /\ UNCHANGED <<journal, rollout, refused>>
  BY DEF Crash
<1>2. Control'
  <2>1. /\ At("down", journal.state, "none", NoCtx.ep.role) /\ Context("down", "none", NoCtx)
        /\ Here("down", journal, NoCtx)
    BY DEF At, Context, Here, EpisodePcs, ForwardPcs, ResetPcs, FaultPcs
  <2>2. Holder("down", Free, journal, "none", NoCtx) /\ Off("down", Free, FALSE, NoToken, journal)
    BY CommandsAssumption DEF Holder, Free, Off, OffPcs
  <2> QED
    BY <1>1, <2>1, <2>2 DEF Control
<1>3. Fence(token, lock, journal)'
  BY <1>1 DEF Fence, NoToken
<1>4. RunTypes' /\ StopTypes'
  <2>1. numbers' \in [Roles -> Nat] /\ \A r \in Roles : numbers'[r] <= MaxNumber[r]
    BY <1>1, MaxNumberType
  <2>2. lock' \in Locks /\ token' \in Tokens /\ pc' \in Pcs /\ ctx' \in Contexts /\ verdict' \in Verdicts
    BY <1>1, NoCtxType DEF Free, Locks, Tokens, Pcs, Verdicts
  <2>3. gen' \in Nat /\ stops' \in [StopIds -> Nat] /\ \A c \in StopIds : stops'[c] <= gen'
    BY <1>1
  <2>4. journal' \in Journals /\ rollout' \in Rollouts /\ halted' \in BOOLEAN
    BY <1>1 DEF IInv, RunTypes
  <2>5. RunTypes'
    BY <2>1, <2>2, <2>4 DEF RunTypes
  <2> QED
    BY <2>2, <2>3, <2>5 DEF StopTypes
<1>5. OnDisk' /\ Fresh("down", journal, numbers', NoCtx)
  BY <1>1 DEF IInv, OnDisk, Fresh, EpisodePcs, ForwardPcs, ResetPcs
<1> QED
  BY <1>1, <1>2, <1>3, <1>4, <1>5 DEF IInv
-----------------------------------------------------------------------------
(* The run is taken over.                                                  *)

\* The numbers a new process reads are the last ones used.
LEMMA ReadNumberIs ==
    ASSUME NEW j \in Journals, NEW r \in Roles
    PROVE  /\ ReadNumber(j, r) \in Nat /\ ReadNumber(j, r) <= MaxNumber[r]
           /\ \A k \in j.attempted : k.ep.role = r => k.ep.number <= ReadNumber(j, r)
<1> DEFINE Of == {a \in j.attempted : a.ep.role = r}
           ns == {k.ep.number : k \in Of}
           n == CHOOSE m \in ns : \A x \in ns : x <= m
<1>1. ASSUME NEW k \in Of PROVE k.ep.number \in Nat /\ k.ep.number <= MaxNumber[r]
  <2>1. k.ep \in Eps /\ k.ep.role = r
    BY DEF Journals, Keys
  <2> QED
    BY <2>1, BoundsAssumption DEF Eps
<1>2. ns \in SUBSET Nat /\ \A x \in ns : x <= MaxNumber[r]
  BY <1>1
<1>3. ReadNumber(j, r) = IF ns = {} THEN 0 ELSE n
  BY DEF ReadNumber
<1>4. \A k \in j.attempted : k.ep.role = r => k.ep.number \in ns
  OBVIOUS
<1> HIDE DEF ns
<1>5. CASE ns = {}
  BY <1>3, <1>4, <1>5, MaxNumberType
<1>6. CASE ns # {}
  <2>1. \E m \in ns : \A x \in ns : x <= m
    BY <1>2, <1>6, MaxNumberType, Largest
  <2>2. n \in ns /\ \A x \in ns : x <= n
    BY <2>1
  <2> HIDE DEF n
  <2> QED
    BY <1>2, <1>3, <1>4, <1>6, <2>2
<1> QED
  BY <1>5, <1>6

\* What is left to show of a step of a process that is not up yet.
LEMMA OffKeeps ==
    ASSUME IInv, pc \in OffPcs, pc' \in OffPcs \cup {"rest"},
           UNCHANGED <<lock, got, ctx, token, halted, gen, stops, verdict, refused>>,
           journal' \in Journals, rollout' \in Rollouts,
           numbers' \in [Roles -> Nat], \A r \in Roles : numbers'[r] <= MaxNumber[r],
           \A k \in journal'.attempted : k.ep.number <= numbers'[k.ep.role],
           At(pc', journal'.state, got, "none"),
           pc' \notin {"down", "abort", "commit"} => journal'.open = NoTx,
           pc' \in {"abort", "prepare"} => journal'.state # "COMPLETED",
           pc' = "commit" =>
              /\ journal'.open \in Txs /\ journal'.open.to = "FAULT_LOCKED" /\ journal'.open.kind = "none"
              /\ journal'.open.ep \in {NoEp, journal'.episode},
           OnDisk'
    PROVE  IInv'
<1>1. ~halted /\ lock = Free /\ token = NoToken /\ ctx = NoCtx /\ ctx.ep.role = "none"
  BY DEF IInv, Control, Off, OffPcs, Context, IdlePcs, NoCtx, NoEp
<1>2. pc' \notin EpisodePcs \cup FaultPcs \cup {"raised"} /\ pc' \in Pcs
  BY DEF OffPcs, EpisodePcs, ForwardPcs, ResetPcs, FaultPcs, Pcs
<1>3. Control'
  <2>1. Context(pc', got, NoCtx) /\ Here(pc', journal', NoCtx)
    BY <1>2 DEF Context, Here, EpisodePcs, ForwardPcs, ResetPcs, FaultPcs
  <2>2. Holder(pc', Free, journal', got, NoCtx)
    BY CommandsAssumption DEF Holder, Free, OffPcs
  <2>3. Off(pc', Free, FALSE, NoToken, journal')
    BY DEF Off, OffPcs
  <2>4. halted' = FALSE
    BY <1>1 DEF IInv, RunTypes
  <2> QED
    BY <1>1, <2>1, <2>2, <2>3, <2>4 DEF Control
<1>4. Fence(token, lock, journal)'
  BY <1>1 DEF Fence, NoToken
<1>5. RunTypes' /\ StopTypes'
  BY <1>2 DEF IInv, RunTypes, StopTypes
<1>6. Fresh(pc, journal, numbers, ctx)'
  BY <1>2 DEF Fresh
<1> QED
  BY <1>3, <1>4, <1>5, <1>6 DEF IInv

LEMMA RestartKeeps == ASSUME IInv, Restart PROVE IInv'
<1>1. /\ pc = "down" /\ numbers' = [r \in Roles |-> ReadNumber(journal, r)]
      /\ UNCHANGED <<journal, rollout, lock, got, ctx, token, halted, gen, stops, verdict, refused>>
  BY DEF Restart, opvars
<1>2. \/ pc' = "rollouts" /\ journal.state = "COMPLETED" /\ journal.open = NoTx
      \/ pc' = "abort" /\ journal.open # NoTx
      \/ pc' = "prepare" /\ journal.open = NoTx /\ journal.state # "COMPLETED"
  BY Zenon DEF Restart
<1>3. journal \in Journals /\ rollout \in Rollouts /\ OnDisk
  BY DEF IInv, RunTypes
<1>4. numbers' \in [Roles -> Nat] /\ \A r \in Roles : numbers'[r] <= MaxNumber[r]
  BY <1>1, <1>3, ReadNumberIs
<1>5. ASSUME NEW k \in journal.attempted PROVE k.ep.number <= numbers'[k.ep.role]
  <2>1. k.ep.role \in Roles
    BY <1>3 DEF Journals, Keys, Eps
  <2> QED
    BY <1>1, <1>3, <2>1, ReadNumberIs
<1>6. journal.open # NoTx => journal.state # "COMPLETED"
  BY <1>3 DEF OnDisk, OpenFits
<1>7. At(pc', journal.state, got, "none")
  BY <1>2 DEF At
<1>8. OnDisk'
  BY <1>1, <1>3 DEF OnDisk
<1> QED
  BY <1>1, <1>2, <1>3, <1>4, <1>5, <1>6, <1>7, <1>8, OffKeeps DEF OffPcs

LEMMA RecoverAbortsKeeps == ASSUME IInv, RecoverAborts PROVE IInv'
<1>1. /\ pc = "abort" /\ pc' = "prepare" /\ journal' = Aborted
      /\ UNCHANGED <<rollout, lock, got, ctx, numbers, token, halted, gen, stops, verdict, refused>>
  BY DEF RecoverAborts, Recover, counts, opvars, ghosts
<1>2. journal.state # "COMPLETED"
  BY <1>1 DEF IInv, Control, Off
<1>3. /\ rollout' \in Rollouts /\ numbers' \in [Roles -> Nat]
      /\ \A r \in Roles : numbers'[r] <= MaxNumber[r]
  BY <1>1 DEF IInv, RunTypes
<1>4. \A k \in journal'.attempted : k.ep.number <= numbers'[k.ep.role]
  BY <1>1, AbortedIs DEF IInv, Fresh
<1>5. At("prepare", journal'.state, got, "none")
  BY DEF At
<1>6. OnDisk'
  BY <1>1, AbortedIs DEF OnDisk
<1> QED
  BY <1>1, <1>2, <1>3, <1>4, <1>5, <1>6, AbortedIs, OffKeeps DEF OffPcs

LEMMA RecoverPreparesKeeps == ASSUME IInv, RecoverPrepares PROVE IInv'
<1> DEFINE u == Tx("FAULT_LOCKED", "recovery_ambiguous", "none", NoStop,
                   IF CrashRes THEN journal.episode ELSE NoEp)
           t == IF CrashRes THEN WithResult(u) ELSE u
<1>1. /\ pc = "prepare" /\ pc' = "commit" /\ journal' = Prepared(t)
      /\ UNCHANGED <<rollout, lock, got, ctx, numbers, token, halted, gen, stops, verdict, refused>>
  BY DEF RecoverPrepares, Recover, counts, opvars, ghosts
<1>2. CrashRes <=> journal.state \in EPISODE_STATES
  BY DEF IInv, OnDisk, Results, CrashRes
<1>3. journal \in Journals
  BY DEF IInv, RunTypes
<1>4. /\ t \in Txs /\ t.to = "FAULT_LOCKED" /\ t.kind = "none"
      /\ t.ep = (IF CrashRes THEN journal.episode ELSE NoEp)
      /\ t.res <=> CrashRes
  <2> DEFINE ep == IF CrashRes THEN journal.episode ELSE NoEp
  <2>1. /\ "FAULT_LOCKED" \in AERI_STATES /\ "recovery_ambiguous" \in Reasons /\ "none" \in Kinds
        /\ NoStop \in Commands /\ ep \in EpOrNone
    BY <1>3 DEF AERI_STATES, Reasons, Kinds, Commands, EpOrNone, Journals
  <2> HIDE DEF ep
  <2>2. /\ u \in Txs /\ u.to = "FAULT_LOCKED" /\ u.kind = "none" /\ u.ep = ep /\ ~u.res
    BY <2>1, TxType DEF ep
  <2> HIDE DEF u
  <2>3. t \in Txs /\ t.to = "FAULT_LOCKED" /\ t.kind = "none" /\ t.ep = ep
    BY <2>2, WithResultType
  <2>4. t.res <=> CrashRes
    BY <2>2, WithResultType
  <2> QED
    BY <2>3, <2>4 DEF ep
<1> HIDE DEF t
<1>5. /\ Prepared(t) \in Journals /\ Prepared(t).open = t /\ Prepared(t).state = journal.state
      /\ Prepared(t).episode = journal.episode /\ Prepared(t).attempted = journal.attempted
  BY <1>4, PreparedType DEF NON_IDEMPOTENT_KINDS
<1>6. OpenFits(Prepared(t), t)
  <2>1. journal.state # "COMPLETED"
    BY <1>1 DEF IInv, Control, Off
  <2> QED
    BY <1>2, <1>4, <1>5, <2>1 DEF OpenFits, MOTION_STATES, EPISODE_STATES
<1>7. OnDisk'
  BY <1>1, <1>4, <1>6, PrepareKeepsDisk DEF OnDisk, NON_IDEMPOTENT_KINDS
<1>8. /\ rollout' \in Rollouts /\ numbers' \in [Roles -> Nat]
      /\ \A r \in Roles : numbers'[r] <= MaxNumber[r]
  BY <1>1 DEF IInv, RunTypes
<1>9. \A k \in journal'.attempted : k.ep.number <= numbers'[k.ep.role]
  BY <1>1, <1>5 DEF IInv, Fresh
<1>10. At("commit", journal'.state, got, "none")
  BY DEF At
<1> QED
  BY <1>1, <1>4, <1>5, <1>7, <1>8, <1>9, <1>10, OffKeeps DEF OffPcs

LEMMA RecoverCommitsKeeps == ASSUME IInv, RecoverCommits PROVE IInv'
<1>1. /\ pc = "commit" /\ pc' = "rollouts"
      /\ UNCHANGED <<rollout, lock, got, ctx, numbers, token, halted, gen, stops, verdict, refused>>
  BY DEF RecoverCommits, Recover, counts, opvars, ghosts
<1>2. \E b \in BOOLEAN : journal' = Committed(b)
  <2> DEFINE b == journal.episode \in journal.sealed
  <2>1. journal' = Committed(b)
    BY SMT DEF RecoverCommits, Recover
  <2>2. b \in BOOLEAN
    OBVIOUS
  <2> HIDE DEF b
  <2> QED
    BY <2>1, <2>2, Zenon
<1>3. PICK b \in BOOLEAN : journal' = Committed(b)
  BY <1>2
<1>4. Open \in Txs /\ Open.to = "FAULT_LOCKED" /\ Open.kind = "none"
  BY <1>1 DEF IInv, Control, Off, Open
<1>5. OpenFits(journal, Open)
  BY <1>4, NoTxIsNone DEF IInv, OnDisk, Open
<1>6. /\ journal' \in Journals /\ journal'.state = "FAULT_LOCKED" /\ journal'.open = NoTx
      /\ journal'.attempted = journal.attempted /\ Results(journal')
  BY <1>3, <1>4, <1>5, CommittedIs
<1>7. /\ rollout' \in Rollouts /\ numbers' \in [Roles -> Nat]
      /\ \A r \in Roles : numbers'[r] <= MaxNumber[r]
  BY <1>1 DEF IInv, RunTypes
<1>8. \A k \in journal'.attempted : k.ep.number <= numbers'[k.ep.role]
  BY <1>1, <1>6 DEF IInv, Fresh
<1>9. At("rollouts", journal'.state, got, "none") /\ OnDisk'
  BY <1>6 DEF At, OnDisk
<1> QED
  BY <1>1, <1>6, <1>7, <1>8, <1>9, OffKeeps DEF OffPcs

LEMMA RecoverRolloutsKeeps == ASSUME IInv, RecoverRollouts PROVE IInv'
<1>1. /\ pc = "rollouts" /\ pc' = "rest"
      /\ rollout' = [e \in Eps |-> IF Abandoned(e) THEN "incomplete" ELSE rollout[e]]
      /\ UNCHANGED <<journal, lock, got, ctx, numbers, token, halted, gen, stops, verdict, refused>>
  BY DEF RecoverRollouts, counts, opvars, ghosts
<1>2. ~halted /\ lock = Free
  BY <1>1 DEF IInv, Control, Off, OffPcs
<1>3. journal.state \in {"FAULT_LOCKED", "COMPLETED"} /\ journal.open = NoTx
  BY <1>1, <1>2 DEF IInv, Control, At, Holder, Free
<1>4. /\ rollout' \in Rollouts /\ numbers' \in [Roles -> Nat] /\ journal' \in Journals
      /\ \A r \in Roles : numbers'[r] <= MaxNumber[r]
  BY <1>1 DEF IInv, RunTypes, Rollouts
<1>5. \A k \in journal'.attempted : k.ep.number <= numbers'[k.ep.role]
  BY <1>1 DEF IInv, Fresh
<1>6. At("rest", journal'.state, got, "none") /\ OnDisk'
  BY <1>1, <1>3 DEF At, IInv, OnDisk, HOLD_STATES
<1> QED
  BY <1>1, <1>3, <1>4, <1>5, <1>6, OffKeeps DEF OffPcs

-----------------------------------------------------------------------------
(* The invariant holds of every run.                                       *)

LEMMA Initially == ASSUME Init PROVE IInv
<1>1. /\ journal = Blank /\ rollout = [e \in Eps |-> "none"] /\ pc = "top" /\ lock = Free
      /\ got = "none" /\ ctx = NoCtx /\ numbers = [r \in Roles |-> 0] /\ token = NoToken
      /\ halted = FALSE /\ stops = [c \in StopIds |-> 0] /\ gen = 0 /\ verdict = NoVerdict
      /\ refused = FALSE
  BY DEF Init
<1>2. /\ journal \in Journals /\ journal.state = "PREFLIGHT" /\ journal.open = NoTx
      /\ journal.attempted = {} /\ journal.begun = {} /\ journal.results = [e \in Eps |-> 0]
  BY <1>1 DEF Blank, Journals, AERI_STATES, EpOrNone
<1>3. RunTypes
  <2>1. numbers \in [Roles -> Nat] /\ \A r \in Roles : numbers[r] <= MaxNumber[r]
    BY <1>1, MaxNumberType
  <2>2. lock \in Locks /\ token \in Tokens /\ pc \in Pcs /\ ctx \in Contexts /\ rollout \in Rollouts
    BY <1>1, NoCtxType DEF Free, Locks, Tokens, Pcs, Rollouts
  <2> QED
    BY <1>1, <1>2, <2>1, <2>2 DEF RunTypes
<1>4. StopTypes
  BY <1>1 DEF StopTypes, Verdicts
<1>5. Control
  <2>1. /\ At("top", "PREFLIGHT", "none", NoCtx.ep.role) /\ Context("top", "none", NoCtx)
        /\ Here("top", journal, NoCtx)
    BY DEF At, Context, Here, EpisodePcs, ForwardPcs, ResetPcs, FaultPcs
  <2>2. Holder("top", Free, journal, "none", NoCtx)
    BY <1>2, CommandsAssumption DEF Holder, Free
  <2>3. Off("top", Free, FALSE, NoToken, journal)
    BY DEF Off, OffPcs
  <2> QED
    BY <1>1, <1>2, <2>1, <2>2, <2>3 DEF Control
<1>6. Fence(token, lock, journal)
  BY <1>1 DEF Fence, NoToken
<1>7. OnDisk
  BY <1>2 DEF OnDisk, Results, EPISODE_STATES
<1>8. Fresh(pc, journal, numbers, ctx)
  BY <1>1, <1>2 DEF Fresh, EpisodePcs, ForwardPcs, ResetPcs
<1> QED
  BY <1>1, <1>3, <1>4, <1>5, <1>6, <1>7, <1>8 DEF IInv

LEMMA LoopKeeps == ASSUME IInv, Loop PROVE IInv'
<1>1. CASE Top \/ Rest \/ Preflight \/ Decide \/ Assessed \/ Started \/ NotStarted
  BY <1>1, TopKeeps, RestKeeps, PreflightKeeps, DecideKeeps, AssessedKeeps, StartedKeeps,
     NotStartedKeeps
<1>2. CASE DriveChecks \/ RecordsVerdict \/ Step
  BY <1>2, DriveChecksKeeps, RecordsVerdictKeeps, StepKeeps
<1>3. CASE Stopping \/ Drops \/ Finalizing \/ Finalized \/ Sealed \/ Counted \/ Homed
  BY <1>3, StoppingKeeps, DropsKeeps, FinalizingKeeps, FinalizedKeeps, SealedKeeps,
     CountedKeeps, HomedKeeps
<1>4. CASE Verifying \/ Verified \/ Concluded \/ ResetSealed
  BY <1>4, VerifyingKeeps, VerifiedKeeps, ConcludedKeeps, ResetSealedKeeps
<1>5. CASE Faulting \/ Faulted \/ Contain
  BY <1>5, FaultingKeeps, FaultedKeeps, ContainKeeps
<1> QED
  BY <1>1, <1>2, <1>3, <1>4, <1>5, Zenon DEF Loop

LEMMA TransactionKeeps == ASSUME IInv, Transaction PROVE IInv'
BY HomeStartsKeeps, ActsKeeps, AcknowledgesKeeps, CommitsKeeps, AbortsKeeps, ConsumesStopsKeeps,
   ResumeClearsKeeps, Zenon DEF Transaction

LEMMA OperatorKeeps == ASSUME IInv, Operator PROVE IInv'
<1>1. CASE \E c \in StopIds :
              StopChecks(c) \/ StopRegisters(c) \/ StopCompletes(c) \/ StopReturns(c)
  <2>1. PICK c \in StopIds :
              StopChecks(c) \/ StopRegisters(c) \/ StopCompletes(c) \/ StopReturns(c)
    BY <1>1
  <2> QED
    BY <2>1, RegistersKeep, StopCompletesKeeps
<1> QED
  BY <1>1, ResumeKeeps, EpisodeVerdictKeeps, Zenon DEF Operator

LEMMA ProcessKeeps == ASSUME IInv, Process PROVE IInv'
BY RaisesKeeps, HaltsKeeps, CrashKeeps, RestartKeeps, RecoverAbortsKeeps, RecoverPreparesKeeps,
   RecoverCommitsKeeps, RecoverRolloutsKeeps, Zenon DEF Process

LEMMA StutterKeeps == ASSUME IInv, UNCHANGED vars PROVE IInv'
<1>1. UNCHANGED <<journal, rollout, pc, lock, got, ctx, numbers, token, halted, stops, gen,
                  verdict, refused>>
  BY DEF vars
<1>2. RunTypes' /\ StopTypes' /\ Control' /\ OnDisk'
  BY <1>1 DEF IInv, RunTypes, StopTypes, Control, OnDisk
<1> QED
  BY <1>1, <1>2 DEF IInv

\* Every run of the orchestrator keeps the invariant: what the loop, the
\* operator's threads, crashes and restarts do to each other never breaks it.
THEOREM Invariant == Spec => []IInv
<1>1. Init => IInv
  BY Initially
<1>2. IInv /\ [Next]_vars => IInv'
  BY LoopKeeps, TransactionKeeps, OperatorKeeps, ProcessKeeps, StutterKeeps, Zenon DEF Next
<1> QED
  BY <1>1, <1>2, PTL DEF Spec

\* The types of the run's state (TypeOK).
THEOREM Types == Spec => []TypeOK
<1>1. IInv => TypeOK
  <2> SUFFICES ASSUME IInv PROVE TypeOK
    OBVIOUS
  <2>1. /\ journal \in Journals /\ rollout \in Rollouts /\ pc \in Pcs /\ lock \in Locks
        /\ ctx \in Contexts
        /\ numbers \in [Roles -> Nat] /\ \A r \in Roles : numbers[r] <= MaxNumber[r]
        /\ gen \in Nat /\ stops \in [StopIds -> Nat] /\ \A c \in StopIds : stops[c] <= gen
        /\ verdict \in Verdicts
    BY DEF IInv, RunTypes, StopTypes
  <2>2. /\ journal.state \in AERI_STATES /\ journal.attempted \subseteq Keys
        /\ journal.begun \cup journal.sealed \cup journal.discards \subseteq Eps
    BY <2>1 DEF Journals
  <2>3. /\ lock.by \in {"nobody", "loop", "resume"} \cup StopIds
        /\ lock.at \in {"free", "prepared", "homing", "acted", "acknowledged", "consume", "clear"}
    BY <2>1 DEF Locks, TxStages
  <2>4. ctx.ep \in Eps \cup {NoEp} /\ ctx.left \in 0..MaxSteps /\ verdict.ep \in Eps \cup {NoEp}
    BY <2>1 DEF Contexts, EpOrNone, Verdicts, NoVerdict
  <2>5. \A r \in Roles : numbers[r] \in 0..MaxNumber[r]
    BY <2>1, MaxNumberType
  <2>6. stops \in [StopIds -> 0..gen]
    BY <2>1
  <2> QED
    BY <2>1, <2>2, <2>3, <2>4, <2>5, <2>6 DEF TypeOK, Rollouts
<1> QED
  BY <1>1, Invariant, PTL

\* Whatever stops, verdicts, faults, adapters and crashes come in between, the
\* loop never asks for a move its own table refuses, never repeats a physical
\* action's key and never prepares over an open transaction (_tx,
\* check_transition, Journal.prepare).
THEOREM NeverRefused == Spec => []TableNeverRefuses
<1>1. IInv => TableNeverRefuses
  BY DEF IInv, TableNeverRefuses
<1> QED
  BY <1>1, Invariant, PTL

\* _loop finds the run only in a state it can go on from: no chain of
\* transactions is ever broken off half-way and left to it.
THEOREM ChainsHold == Spec => []NoChainBreaks
<1>1. IInv => NoChainBreaks
  <2> SUFFICES ASSUME IInv, LoopAt("top")
               PROVE  State \in HOLD_STATES \cup SceneStates \cup {"PREFLIGHT"}
    BY DEF NoChainBreaks
  <2> QED
    BY LoopFacts DEF At
<1> QED
  BY <1>1, Invariant, PTL

\* A motion token that is out is backed by what is on disk (MotionFence): the
\* episode's committed motion state, or the home being carried out.
THEOREM FenceIsBacked == Spec => []FenceBackedByJournal
<1>1. IInv => FenceBackedByJournal
  <2> SUFFICES ASSUME IInv PROVE FenceBackedByJournal
    OBVIOUS
  <2>1. CASE token.kind = "policy_steps"
    BY <2>1 DEF IInv, Fence, FenceBackedByJournal
  <2>2. CASE token.kind = "home"
    <3>1. lock.by = "loop" /\ lock.at = "homing" /\ journal.open.ep = token.ep
      BY <2>2 DEF IInv, Fence
    <3>2. journal.open # NoTx /\ journal.ack = "none" /\ journal.open.kind = "home"
      BY <3>1, TxFacts DEF IInv, Control, Holder, TxStages
    <3> QED
      BY <2>2, <3>1, <3>2 DEF FenceBackedByJournal
  <2> QED
    BY <2>1, <2>2 DEF FenceBackedByJournal
<1> QED
  BY <1>1, Invariant, PTL

\* Every episode that began has exactly one result as soon as the run is no
\* longer inside it, crashes and faults included; no other has one.
THEOREM OneResult == Spec => []OneResultPerEpisode
<1>1. IInv => OneResultPerEpisode
  <2> SUFFICES ASSUME IInv, NEW e \in Eps
               PROVE  /\ journal.results[e] <= 1
                      /\ journal.results[e] = 1 => e \in journal.begun
                      /\ e \in journal.begun => InEpisode(e) \/ journal.results[e] = 1
    BY DEF OneResultPerEpisode
  <2>1. /\ journal.results[e] \in {0, 1}
        /\ journal.results[e] = 1 => e \in journal.begun
        /\ e \in journal.begun =>
             (journal.state \in EPISODE_STATES /\ journal.episode = e) \/ journal.results[e] = 1
    BY DEF IInv, OnDisk, Results
  <2>2. journal.results[e] <= 1
    BY <2>1
  <2> QED
    BY <2>1, <2>2 DEF InEpisode
<1> QED
  BY <1>1, Invariant, PTL

-----------------------------------------------------------------------------
(* What a step of the loop between two transactions leaves alone.          *)

SameRecord ==
    /\ journal'.state = journal.state /\ journal'.episode = journal.episode
    /\ journal'.begun = journal.begun /\ journal'.results = journal.results
    /\ journal'.sealed = journal.sealed /\ journal'.complete = journal.complete

Leaves ==
    /\ UNCHANGED <<stops, gen, rgen, halted, owed>>
    /\ SameRecord
    /\ lock' = lock \/ (lock'.by = "loop" /\ got' = "none")
    /\ verdict' \in {verdict, NoVerdict}

\* It sends no step and authorises no motion.
Onward == Leaves /\ after' = after /\ pc' # "step" /\ token' \in {token, NoToken}

LEMMA PreparedSame ==
    ASSUME IInv, NEW t
    PROVE  /\ Prepared(t).state = journal.state /\ Prepared(t).episode = journal.episode
           /\ Prepared(t).begun = journal.begun /\ Prepared(t).results = journal.results
           /\ Prepared(t).sealed = journal.sealed /\ Prepared(t).complete = journal.complete
           /\ Prepared(t).rounds = journal.rounds /\ Prepared(t).discards = journal.discards
           /\ Prepared(t).open = t
<1> DEFINE commands == IF t.cmd \in StopIds THEN journal.commands \cup {t.cmd} ELSE journal.commands
           attempted == IF t.kind \in NON_IDEMPOTENT_KINDS
                        THEN journal.attempted \cup {KeyOf(t)} ELSE journal.attempted
<1>1. Prepared(t) = [journal EXCEPT !.open = t, !.ack = "none", !.commands = commands,
                                    !.attempted = attempted]
  BY DEF Prepared
<1>2. journal \in Journals
  BY DEF IInv, RunTypes
<1> HIDE DEF commands, attempted
<1> QED
  BY <1>1, <1>2 DEF Journals

LEMMA AsksOn ==
    ASSUME IInv, NEW t, NEW next, next \notin {"step"}, Asks(t, next),
           UNCHANGED <<stops, gen, rgen>>, verdict' \in {verdict, NoVerdict}
    PROVE  Onward /\ token' = NoToken
<1>1. /\ UNCHANGED <<halted, owed, after>> /\ token' = NoToken /\ got' = "none"
      /\ \/ journal' = Prepared(t) /\ lock'.by = "loop"
         \/ UNCHANGED <<journal, lock>>
  BY DEF Asks, Begin, Revoked
<1>2. pc' \in {next, "contain"}
  BY DEF Asks
<1>3. SameRecord
  BY <1>1, PreparedSame DEF SameRecord
<1> QED
  BY <1>1, <1>2, <1>3 DEF Onward, Leaves

LEMMA MovesOn ==
    ASSUME IInv, NEW t, NEW next, next \notin {"step"}, Moves(t, next)
    PROVE  Onward /\ token' = NoToken /\ verdict' = verdict
<1>1. Asks(t, next) /\ UNCHANGED <<stops, gen, rgen, verdict>>
  BY DEF Moves, opvars
<1> QED
  BY <1>1, AsksOn

LEMMA QuietOn ==
    ASSUME UNCHANGED <<journal, lock, token, halted, stops, gen, rgen, owed, after>>,
           verdict' \in {verdict, NoVerdict}, pc' # "step"
    PROVE  Onward
BY DEF Onward, Leaves, SameRecord

LEMMA FaultsOn == ASSUME NEW reason, Faults(reason) PROVE Onward
BY QuietOn DEF Faults, opvars, ghosts

LEMMA GoesOn == ASSUME NEW p, p # "step", Goes(p) PROVE Onward
BY QuietOn DEF Goes, opvars, ghosts

LEMMA ToHumanOn == ASSUME IInv, NEW reason, NEW cmd, ToHuman(reason, cmd) PROVE Onward
BY MovesOn DEF ToHuman

LEMMA ConcludesOn == ASSUME NEW r, NEW c, NEW o, Concludes(r, c, o) PROVE Onward
BY QuietOn DEF Concludes, opvars, ghosts

\* The loop while no episode is under way.
LEMMA IdleOn ==
    ASSUME IInv, Top \/ Rest \/ Preflight \/ Decide \/ Assessed \/ NotStarted
    PROVE  Onward
<1>1. CASE Top
  <2>1. State \in HOLD_STATES \cup SceneStates \cup {"PREFLIGHT"}
    BY <1>1, TopCases, LoopFacts DEF At
  <2> QED
    BY <1>1, <2>1, TopCases, GoesOn
<1>2. CASE Rest
  BY <1>2, GoesOn DEF Rest
<1>3. CASE Preflight
  BY <1>3, MovesOn, FaultsOn, ToHumanOn DEF Preflight
<1>4. CASE Decide
  BY <1>4, DecideCases, ToHumanOn, MovesOn, GoesOn
<1>5. CASE Assessed
  <2>1. ASSUME NEW role, NEW reason, Starts(role, reason) PROVE Onward
    <3> DEFINE t == Tx(IF role = "forward" THEN "FORWARD_ACTIVE" ELSE "RESET_ACTIVE",
                       reason, "policy_steps", NoStop, [role |-> role, number |-> numbers[role] + 1])
    <3>1. Asks(t, "started") /\ UNCHANGED <<stops, gen, rgen, verdict>>
      BY <2>1 DEF Starts, opvars
    <3> HIDE DEF t
    <3> QED
      BY <3>1, AsksOn
  <2> QED
    BY <1>5, <2>1, ToHumanOn DEF Assessed
<1>6. CASE NotStarted
  BY <1>6, ToHumanOn DEF NotStarted
<1> QED
  BY <1>1, <1>2, <1>3, <1>4, <1>5, <1>6

\* The loop after the last step of an episode.
LEMMA FinishOn ==
    ASSUME IInv, Stopping \/ Drops \/ Finalizing \/ Finalized \/ Sealed \/ Counted \/ Homed
    PROVE  Onward
<1>1. CASE Stopping \/ Finalizing
  BY <1>1, MovesOn DEF Stopping, Finalizing
<1>2. CASE Drops
  BY <1>2, QuietOn DEF Drops, VerdictDropped, ghosts
<1>3. CASE Finalized
  BY <1>3, MovesOn, FaultsOn DEF Finalized
<1>4. CASE Sealed
  <2>1. Faults("recorder_failed")
        \/ /\ pc' = "counted"
           /\ UNCHANGED <<journal, lock, token, halted, stops, gen, rgen, owed, after, verdict>>
    BY <1>4 DEF Sealed, opvars, ghosts
  <2> QED
    BY <2>1, FaultsOn, QuietOn
<1>5. CASE Counted
  <2>1. ASSUME NEW reason, NEW cmd, WaitsInPlace(reason, cmd) PROVE Onward
    <3> DEFINE t == Tx("WAIT_HUMAN", reason, "none", cmd, NoEp)
    <3>1. Asks(t, "top") /\ UNCHANGED <<stops, gen, rgen, verdict>>
      BY <2>1 DEF WaitsInPlace, opvars
    <3> HIDE DEF t
    <3> QED
      BY <3>1, AsksOn
  <2> QED
    BY <1>5, <2>1, CountedCases, FaultsOn, MovesOn
<1>6. CASE Homed
  <2>1. Faults("home_failed")
        \/ /\ pc' = "top"
           /\ UNCHANGED <<journal, lock, token, halted, stops, gen, rgen, owed, after, verdict>>
    BY <1>6 DEF Homed, opvars, ghosts
  <2> QED
    BY <2>1, FaultsOn, QuietOn
<1> QED
  BY <1>1, <1>2, <1>3, <1>4, <1>5, <1>6

LEMMA ResetOn ==
    ASSUME IInv, Verifying \/ Verified \/ Concluded \/ ResetSealed
    PROVE  Onward
<1>1. CASE Verifying \/ Concluded
  BY <1>1, MovesOn DEF Verifying, Concluded
<1>2. CASE Verified
  BY <1>2, VerifiedCases, FaultsOn, ConcludesOn
<1>3. CASE ResetSealed
  BY <1>3, ResetSealedCases, FaultsOn, MovesOn
<1> QED
  BY <1>1, <1>2, <1>3

LEMMA FaultOn ==
    ASSUME IInv, Faulting \/ Faulted \/ Contain
    PROVE  Onward
<1>1. CASE Faulting
  <2> DEFINE contained == got = "contained"
             u == Tx("FAULT_LOCKED", IF contained THEN "watchdog_timeout" ELSE got,
                     IF State \in POLICY_MAY_INFER /\ ~contained THEN "hold" ELSE "none",
                     NoStop, IF FaultRes THEN ctx.ep ELSE NoEp)
             t == IF FaultRes THEN WithResult(u) ELSE u
             next == IF contained THEN "contained" ELSE "faulted"
  <2>1. Asks(t, next) /\ UNCHANGED <<stops, gen, rgen>> /\ verdict' = NoVerdict
    BY <1>1 DEF Faulting, VerdictDropped
  <2>2. next # "step"
    OBVIOUS
  <2> HIDE DEF t, next
  <2> QED
    BY <2>1, <2>2, AsksOn
<1>2. CASE Faulted
  BY <1>2, QuietOn DEF Faulted, VerdictDropped, ghosts
<1>3. CASE Contain
  <2>1. /\ journal' = Aborted /\ pc' # "step"
        /\ UNCHANGED <<lock, token, halted, stops, gen, rgen, owed, after, verdict>>
    BY <1>3 DEF Contain, opvars, ghosts
  <2>2. SameRecord
    BY <2>1 DEF SameRecord, Aborted, IInv, RunTypes, Journals
  <2> QED
    BY <2>1, <2>2 DEF Onward, Leaves
<1> QED
  BY <1>1, <1>2, <1>3

\* The iterations of an episode; only the look before a step lets it step.
LEMMA DriveOn ==
    ASSUME IInv, DriveChecks
    PROVE  Leaves /\ token' = token /\ after' = after /\ (pc' = "step" => ~Stopped)
<1>1. LoopAt("drive")
  BY DEF DriveChecks
<1>2. ASSUME NEW reason, NEW cmd, Ends(reason, cmd) PROVE Onward /\ token' = token
  BY <1>2, QuietOn DEF Ends, opvars, ghosts
<1>3. CASE TakesVerdict
  <2>1. /\ pc' \in {pc, "recording"} /\ verdict' = NoVerdict /\ pc = "drive"
        /\ UNCHANGED <<journal, lock, token, halted, stops, gen, rgen, owed, after>>
    BY <1>1, <1>3 DEF TakesVerdict, LoopAt, ghosts
  <2> QED
    BY <2>1 DEF Leaves, SameRecord
<1>4. CASE FailsEarly \/ LosesChunk
  <2>1. /\ pc' \in {"drive", "stopping", "verifying"}
        /\ UNCHANGED <<journal, lock, token, halted, stops, gen, rgen, owed, after, verdict>>
    BY <1>1, <1>4 DEF FailsEarly, LosesChunk, LoopAt, opvars, ghosts
  <2> QED
    BY <2>1 DEF Leaves, SameRecord
<1>5. CASE Goes("step") /\ ~StopSeen
  BY <1>5 DEF Goes, opvars, ghosts, Leaves, SameRecord, StopSeen
<1>6. ASSUME NEW reason, Faults(reason) PROVE Onward /\ token' = token
  BY <1>6, QuietOn DEF Faults, opvars, ghosts
<1> QED
  BY <1>2, <1>3, <1>4, <1>5, <1>6 DEF DriveChecks, Onward

LEMMA RecordsOn == ASSUME IInv, RecordsVerdict PROVE Onward /\ verdict' = verdict
<1>1. /\ pc' = "stopping" /\ journal' = (IF got = "discard" THEN [journal EXCEPT !.discards = @ \cup {ctx.ep}]
                                         ELSE journal)
      /\ UNCHANGED <<lock, token, halted, stops, gen, rgen, owed, after, verdict>>
  BY DEF RecordsVerdict, opvars, ghosts
<1>2. SameRecord
  BY <1>1 DEF SameRecord, IInv, RunTypes, Journals
<1> QED
  BY <1>1, <1>2 DEF Onward, Leaves

\* A step is the only place where policy steps are sent.
LEMMA StepOn ==
    ASSUME IInv, Step
    PROVE  /\ Leaves /\ token' = token /\ pc = "step" /\ pc' # "step" /\ verdict' = verdict
           /\ after' = after \/ (owed # {} /\ after' = after + 1)
<1>1. ASSUME NEW reason, Faults(reason) \/ Ends(reason, NoStop)
      PROVE  Onward /\ token' = token /\ verdict' = verdict
  BY <1>1, QuietOn DEF Faults, Ends, opvars, ghosts
<1>2. pc = "step"
  BY DEF Step, LoopAt
<1> QED
  BY <1>1, <1>2 DEF Step, Onward, Leaves, SameRecord, opvars

\* The only place where an episode's motion is authorised.
LEMMA StartedOn ==
    ASSUME IInv, Started
    PROVE  /\ Leaves /\ after' = after /\ pc' # "step" /\ verdict' = verdict
           /\ \/ token' = token
              \/ token' = [kind |-> "policy_steps", ep |-> ctx.ep] /\ got = "yes"
<1>1. UNCHANGED <<journal, lock, halted, stops, gen, rgen, owed, after, verdict>>
  BY StartedCases DEF opvars, ghosts
<1> QED
  BY <1>1, StartedCases DEF Leaves, SameRecord

LEMMA LoopLeaves == ASSUME IInv, Loop PROVE Leaves
BY IdleOn, FinishOn, ResetOn, FaultOn, DriveOn, RecordsOn, StepOn, StartedOn, Zenon
   DEF Loop, Onward

-----------------------------------------------------------------------------
(* A stop is kept until the run rests with a person.                       *)

\* StopNotLost needs to know that a resume overrides only older stops: what
\* is owed while it is under way was registered after it began.
StopsKept ==
    /\ owed \subseteq StopIds /\ rgen \in Nat /\ rgen <= gen
    /\ StopNotLost
    /\ lock.by = "resume" => \A c \in owed : stops[c] > rgen

\* A transaction moves the run, out of a hold only on a resume.
LEMMA CommitMoves ==
    ASSUME IInv, Commits
    PROVE  /\ Open \in Txs /\ OpenFits(journal, Open) /\ journal'.state = Open.to
           /\ lock.by = "loop" => journal.state \notin HOLD_STATES
           /\ lock.by # "loop" =>
                /\ lock.by \in StopIds \cup {"resume"}
                /\ Open.kind = "none" /\ Open.ep = NoEp /\ ~Open.res
                /\ lock.by = "resume" => Open.to = "PREFLIGHT" /\ journal.state \in HUMAN_STATES
                /\ lock.by # "resume" => Open.to = "COMPLETED" /\ journal.state = "WAIT_HUMAN"
           /\ lock.by = "resume" => lock'.by = "resume" /\ lock'.at = "clear"
           /\ lock.by # "resume" => lock'.by \in {lock.by, "nobody"}
<1>1. /\ Holder(pc, lock, journal, got, ctx) /\ lock \in Locks /\ lock.at = "acknowledged"
      /\ lock.by # "nobody"
  BY CommitsAre, HeldFacts
<1>2. CASE lock.by = "loop"
  <2>1. /\ Open \in Txs /\ OpenFits(journal, Open) /\ Leg(pc, journal.state, ctx, Open) /\ pc \in TxPcs
        /\ Context(pc, got, ctx)
        /\ Open.kind = "recorder_seal" => Open.ep \in Eps
    BY <1>1, <1>2, TxFacts, HeldFacts DEF TxStages, Seal
  <2>2. journal'.state = Open.to
    <3>1. PICK b \in BOOLEAN : journal' = Committed(b)
      BY CommitsAre
    <3> QED
      BY <2>1, <3>1, CommittedIs
  <2>3. journal.state \notin HOLD_STATES
    BY <2>1 DEF Leg, TxPcs, Context, EpisodePcs, Eps, Roles, HOLD_STATES, SceneStates
  <2>4. lock'.by \in {lock.by, "nobody"}
    <3> DEFINE l == [lock EXCEPT !.at = "consume"]
    <3>1. l.by = lock.by
      BY <1>1, LockMoves
    <3>2. lock' \in {l, Free}
      BY <1>2, CommitsAre
    <3> HIDE DEF l
    <3> QED
      BY <3>1, <3>2 DEF Free
  <2> QED
    BY <1>2, <2>1, <2>2, <2>3, <2>4
<1>3. CASE lock.by # "loop"
  <2>1. lock.by \in StopIds \cup {"resume"}
    BY <1>1, <1>3 DEF Locks
  <2>2. /\ Open \in Txs /\ ~Open.res /\ Open.kind = "none" /\ Open.ep = NoEp
        /\ lock.by = "resume" => Open.to = "PREFLIGHT" /\ journal.state \in HUMAN_STATES
        /\ lock.by \in StopIds =>
             Open.to = "COMPLETED" /\ Open.reason = "operator_stop" /\ journal.state = "WAIT_HUMAN"
    <3>1. CASE lock.by \in StopIds
      BY <1>1, <3>1, CommandsAssumption DEF Holder, Tx, Open
    <3>2. CASE lock.by = "resume"
      BY <1>1, <3>2, CommandsAssumption DEF Holder, Tx, Open
    <3> QED
      BY <2>1, <3>1, <3>2, CommandsAssumption
  <2>3. OpenFits(journal, Open)
    BY <2>2, NoTxIsNone DEF IInv, OnDisk, Open
  <2>4. journal'.state = Open.to
    <3>1. PICK b \in BOOLEAN : journal' = Committed(b)
      BY CommitsAre
    <3> QED
      BY <2>2, <2>3, <3>1, CommittedIs
  <2>5. lock.by = "resume" => lock'.by = "resume" /\ lock'.at = "clear"
    BY <1>1, <2>2, CommitsAre, LockMoves DEF Consumes
  <2>6. lock.by # "resume" => lock'.by \in {lock.by, "nobody"}
    <3> DEFINE l == [lock EXCEPT !.at = "consume"]
    <3>1. l.by = lock.by
      BY <1>1, LockMoves
    <3>2. lock.by # "resume" => lock' \in {l, Free}
      BY CommitsAre
    <3> HIDE DEF l
    <3> QED
      BY <3>1, <3>2 DEF Free
  <2> QED
    BY <1>3, <2>1, <2>2, <2>3, <2>4, <2>5, <2>6
<1> QED
  BY <1>2, <1>3

\* A step that registers and clears no stop, and begins no resume.
LEMMA StopsLeft ==
    ASSUME StopsKept, UNCHANGED <<stops, gen, rgen, owed>>,
           lock'.by = "resume" => lock.by = "resume",
           State \in HOLD_STATES => State' \in HOLD_STATES
    PROVE  StopsKept'
BY DEF StopsKept, StopNotLost

LEMMA LoopKeepsStops == ASSUME IInv, StopsKept, Loop PROVE StopsKept'
<1>1. Leaves
  BY LoopLeaves
<1>2. UNCHANGED <<stops, gen, rgen, owed>> /\ (lock'.by = "resume" => lock.by = "resume")
  BY <1>1 DEF Leaves
<1>3. State' = State
  BY <1>1 DEF State, Leaves, SameRecord
<1> QED
  BY <1>2, <1>3, StopsLeft

LEMMA TransactionKeepsStops == ASSUME IInv, StopsKept, Transaction PROVE StopsKept'
<1>1. CASE HomeStarts \/ Acts \/ Acknowledges \/ Aborts
  <2>1. /\ UNCHANGED <<stops, gen, rgen, owed, halted>>
        /\ journal' = journal \/ journal' = [journal EXCEPT !.ack = journal'.ack] \/ journal' = Aborted
        /\ lock' = Free \/ \E at \in {"homing", "acted", "acknowledged"} : lock' = [lock EXCEPT !.at = at]
    BY <1>1 DEF HomeStarts, Acts, Acknowledges, Aborts, opvars, ghosts, IInv, RunTypes, Journals
  <2>2. journal'.state = journal.state
    BY <2>1 DEF IInv, RunTypes, Journals, Aborted
  <2>3. lock'.by \in {lock.by, "nobody"}
    BY <2>1 DEF Free, IInv, RunTypes, Locks
  <2> QED
    BY <2>1, <2>2, <2>3, StopsLeft DEF State
<1>2. CASE Commits
  <2>1. /\ UNCHANGED <<stops, gen, rgen, halted>>
        /\ owed' = (IF Open.to \in HOLD_STATES THEN {} ELSE owed)
    BY <1>2 DEF Commits, opvars
  <2>2. /\ journal'.state = Open.to
        /\ lock.by \in StopIds \cup {"resume", "loop"}
        /\ journal.state \in HOLD_STATES => Open.to \in HOLD_STATES \/ lock.by = "resume"
        /\ lock'.by = "resume" => lock.by = "resume"
    BY <1>2, CommitMoves DEF HOLD_STATES
  <2>3. ~halted
    BY <1>2 DEF Commits
  <2>4. ASSUME NEW c \in owed' PROVE State' \in HOLD_STATES \/ stops'[c] > 0
    <3>1. CASE lock.by = "resume"
      BY <2>1, <2>4, <3>1 DEF StopsKept, IInv, StopTypes
    <3>2. CASE lock.by # "resume"
      BY <2>1, <2>2, <2>3, <2>4, <3>2 DEF StopsKept, StopNotLost, State
    <3> QED
      BY <3>1, <3>2
  <2> QED
    BY <2>1, <2>2, <2>4 DEF StopsKept, StopNotLost
<1>3. CASE ConsumesStops
  <2>1. /\ lock.at = "consume" /\ stops' = [c \in StopIds |-> 0] /\ lock' = Free
        /\ UNCHANGED <<journal, halted, gen, rgen, owed>> /\ ~halted
    BY <1>3 DEF ConsumesStops, ghosts
  <2>2. Holder(pc, lock, journal, got, ctx) /\ lock \in Locks
    BY DEF IInv, Control, RunTypes
  <2>3. journal.state \in HOLD_STATES
    BY <2>1, <2>2 DEF Holder, Locks, TxStages, HOLD_STATES
  <2> QED
    BY <2>1, <2>3 DEF StopsKept, StopNotLost, State, Free
<1>4. CASE ResumeClears
  <2>1. /\ lock.by = "resume" /\ lock' = Free /\ rgen' = 0
        /\ stops' = [c \in StopIds |-> IF Overridden(c) THEN 0 ELSE stops[c]]
        /\ UNCHANGED <<journal, halted, gen, owed>>
    BY <1>4 DEF ResumeClears, ghosts
  <2>2. ASSUME NEW c \in owed PROVE stops'[c] > 0
    BY <2>1, <2>2 DEF StopsKept, Overridden, IInv, StopTypes
  <2> QED
    BY <2>1, <2>2 DEF StopsKept, StopNotLost, Free, IInv, StopTypes
<1> QED
  BY <1>1, <1>2, <1>3, <1>4 DEF Transaction

LEMMA OperatorKeepsStops == ASSUME IInv, StopsKept, Operator PROVE StopsKept'
<1>1. ASSUME NEW c \in StopIds, StopChecks(c) \/ StopReturns(c) PROVE StopsKept'
  <2>1. UNCHANGED <<journal, lock, halted, stops, gen, rgen, owed>>
    BY <1>1 DEF StopChecks, StopReturns, ghosts
  <2> QED
    BY <2>1, StopsLeft DEF State
<1>2. ASSUME NEW c \in StopIds, StopRegisters(c) PROVE StopsKept'
  <2>1. /\ gen' = gen + 1 /\ stops' = [stops EXCEPT ![c] = gen + 1] /\ owed' = owed \cup {c}
        /\ UNCHANGED <<journal, lock, halted, rgen>>
    BY <1>2 DEF StopRegisters
  <2>2. gen \in Nat /\ stops \in [StopIds -> Nat]
    BY DEF IInv, StopTypes
  <2>3. \A d \in owed' : d = c \/ (d \in owed /\ (stops'[d] = stops[d] \/ stops'[d] = gen + 1))
    BY <2>1, <2>2 DEF StopsKept
  <2>4. stops'[c] = gen + 1
    BY <2>1, <2>2
  <2>5. rgen \in Nat /\ rgen <= gen /\ owed' \subseteq StopIds
    BY <2>1 DEF StopsKept
  <2>6. \A d \in owed' : State' \in HOLD_STATES \/ stops'[d] > 0
    BY <2>1, <2>2, <2>3, <2>4 DEF StopsKept, StopNotLost, State
  <2>7. lock.by = "resume" => \A d \in owed' : stops'[d] > rgen
    BY <2>2, <2>3, <2>4, <2>5 DEF StopsKept
  <2>8. rgen' \in Nat /\ rgen' <= gen'
    BY <2>1, <2>2, <2>5
  <2> QED
    BY <2>1, <2>5, <2>6, <2>7, <2>8 DEF StopsKept, StopNotLost
<1>3. ASSUME NEW c \in StopIds, StopCompletes(c) PROVE StopsKept'
  <2>1. /\ UNCHANGED <<stops, gen, rgen, owed, halted>>
        /\ Begin(c, Tx("COMPLETED", "operator_stop", "none", c, NoEp))
    BY <1>3 DEF StopCompletes
  <2>2. journal'.state = journal.state /\ lock'.by \in {lock.by, c}
    BY <2>1, PreparedSame DEF Begin
  <2> QED
    BY <2>1, <2>2, StopsLeft, CommandsAssumption DEF State
<1>4. CASE Resume
  <2>1. /\ UNCHANGED <<stops, gen>> /\ owed' = {} /\ rgen' = gen
    BY <1>4 DEF Resume
  <2> QED
    BY <2>1 DEF StopsKept, StopNotLost, IInv, StopTypes
<1>5. CASE EpisodeVerdict
  <2>1. UNCHANGED <<journal, lock, halted, stops, gen, rgen, owed>>
    BY <1>5 DEF EpisodeVerdict, ghosts
  <2> QED
    BY <2>1, StopsLeft DEF State
<1> QED
  BY <1>1, <1>2, <1>3, <1>4, <1>5 DEF Operator

LEMMA ProcessKeepsStops == ASSUME IInv, StopsKept, Process PROVE StopsKept'
<1>1. CASE Raises \/ Halts
  <2>1. /\ UNCHANGED <<journal, stops, gen, rgen, owed>> /\ lock' = Free
        /\ halted' = halted \/ halted' = TRUE
    BY <1>1 DEF Raises, Halts, opvars, ghosts
  <2>2. State \in HOLD_STATES => State' \in HOLD_STATES
    BY <2>1 DEF State, HOLD_STATES
  <2> QED
    BY <2>1, <2>2, StopsLeft DEF Free
<1>2. CASE Crash
  BY <1>2 DEF Crash, StopsKept, StopNotLost
<1>3. CASE Restart
  <2>1. UNCHANGED <<journal, lock, halted, stops, gen, rgen, owed>>
    BY <1>3 DEF Restart, opvars
  <2> QED
    BY <2>1, StopsLeft DEF State
<1>4. CASE RecoverAborts \/ RecoverPrepares
  <2>1. UNCHANGED <<lock, halted, stops, gen, rgen, owed>>
    BY <1>4 DEF RecoverAborts, RecoverPrepares, Recover, opvars, ghosts
  <2>2. \E t : journal' \in {Aborted, Prepared(t)}
    BY <1>4 DEF RecoverAborts, RecoverPrepares, Recover
  <2>3. journal'.state = journal.state
    BY <2>2, AbortedIs, PreparedSame
  <2> QED
    BY <2>1, <2>3, StopsLeft DEF State
<1>5. CASE RecoverCommits
  <2>1. UNCHANGED <<lock, halted, stops, gen, rgen, owed>> /\ pc' = "rollouts"
    BY <1>5 DEF RecoverCommits, Recover, opvars, ghosts
  <2>2. IInv'
    BY <1>5, RecoverCommitsKeeps
  <2>3. lock' = Free /\ ~halted'
    BY <2>1, <2>2 DEF IInv, Control, Off, OffPcs
  <2>4. journal'.state \in {"FAULT_LOCKED", "COMPLETED"}
    BY <2>1, <2>2, <2>3 DEF IInv, Control, At, Free
  <2> QED
    BY <2>1, <2>3, <2>4, StopsLeft DEF State, HOLD_STATES
<1>6. CASE RecoverRollouts
  <2>1. UNCHANGED <<journal, lock, halted, stops, gen, rgen, owed>>
    BY <1>6 DEF RecoverRollouts, opvars, ghosts
  <2> QED
    BY <2>1, StopsLeft DEF State
<1> QED
  BY <1>1, <1>2, <1>3, <1>4, <1>5, <1>6 DEF Process

LEMMA KeepsStops == ASSUME IInv, StopsKept, [Next]_vars PROVE StopsKept'
<1>1. CASE UNCHANGED vars
  <2>1. UNCHANGED <<journal, lock, halted, stops, gen, rgen, owed>>
    BY <1>1 DEF vars
  <2> QED
    BY <2>1, StopsLeft DEF State
<1> QED
  BY <1>1, LoopKeepsStops, TransactionKeepsStops, OperatorKeepsStops, ProcessKeepsStops DEF Next

LEMMA AlwaysStopsKept == Spec => [](IInv /\ StopsKept)
<1>1. Init => StopsKept
  BY DEF Init, StopsKept, StopNotLost
<1>2. IInv /\ StopsKept /\ [Next]_vars => StopsKept'
  BY KeepsStops
<1> QED
  BY <1>1, <1>2, Invariant, PTL DEF Spec

\* A stop that was registered stays registered until the run rests with a
\* person (stop, _consume_stops, resume): a resume clears only older ones.
THEOREM StopStays == Spec => []StopNotLost
<1>1. StopsKept => StopNotLost
  BY DEF StopsKept
<1> QED
  BY <1>1, AlwaysStopsKept, PTL

\* When a step is next, no policy step was sent while a stop was owed.
StepsAfter ==
    /\ after \in {0, 1}
    /\ owed = {} => after = 0
    /\ pc = "step" => after = 0

LEMMA KeepsStepsAfter == ASSUME IInv, StopsKept, StepsAfter, [Next]_vars PROVE StepsAfter'
<1>1. ASSUME after' = after, owed' = owed, pc' \in {pc} \/ pc' # "step" PROVE StepsAfter'
  BY <1>1 DEF StepsAfter
<1>2. CASE Loop
  <2>1. CASE Onward
    BY <2>1, <1>1 DEF Onward, Leaves
  <2>2. CASE DriveChecks
    <3>1. Leaves /\ after' = after /\ owed' = owed /\ (pc' = "step" => ~Stopped)
      BY <2>2, DriveOn DEF Leaves
    <3>2. CASE pc' = "step"
      <4>1. \A c \in StopIds : ~(stops[c] > 0)
        BY <3>1, <3>2, FirstStopType DEF IInv
      <4>2. State \notin HOLD_STATES
        BY <2>2, LoopFacts DEF DriveChecks, At, MotionOf, HOLD_STATES
      <4>3. owed = {}
        BY <4>1, <4>2 DEF StopsKept, StopNotLost
      <4> QED
        BY <3>1, <4>3 DEF StepsAfter
    <3> QED
      BY <3>1, <3>2, <1>1
  <2>3. CASE Step
    BY <2>3, StepOn DEF StepsAfter, Leaves
  <2>4. CASE Started
    BY <2>4, StartedOn, <1>1 DEF Leaves
  <2> QED
    BY <1>2, <2>1, <2>2, <2>3, <2>4, IdleOn, FinishOn, ResetOn, FaultOn, RecordsOn DEF Loop
<1>3. CASE Transaction
  <2>1. CASE Commits
    <3>1. /\ pc' = pc
          /\ owed' = (IF Open.to \in HOLD_STATES THEN {} ELSE owed)
          /\ after' = (IF Open.to \in HOLD_STATES THEN 0 ELSE after)
      BY <2>1 DEF Commits
    <3> QED
      BY <3>1 DEF StepsAfter
  <2>2. CASE ~Commits
    BY <1>1, <1>3, <2>2 DEF Transaction, HomeStarts, Acts, Acknowledges, Aborts, ConsumesStops,
       ResumeClears, ghosts
  <2> QED
    BY <2>1, <2>2
<1>4. CASE Operator
  <2>1. ASSUME NEW c \in StopIds, StopRegisters(c) PROVE StepsAfter'
    <3>1. owed' = owed \cup {c} /\ UNCHANGED <<pc, after>>
      BY <2>1 DEF StopRegisters
    <3> QED
      BY <3>1 DEF StepsAfter
  <2>2. CASE Resume
    BY <2>2 DEF Resume, StepsAfter
  <2>3. ASSUME NEW c \in StopIds, StopChecks(c) \/ StopCompletes(c) \/ StopReturns(c)
        PROVE  StepsAfter'
    BY <1>1, <2>3 DEF StopChecks, StopCompletes, StopReturns, ghosts
  <2>4. CASE EpisodeVerdict
    BY <1>1, <2>4 DEF EpisodeVerdict, ghosts
  <2> QED
    BY <1>4, <2>1, <2>2, <2>3, <2>4 DEF Operator
<1>5. CASE Process
  <2>1. CASE Crash
    BY <2>1 DEF Crash, StepsAfter
  <2>2. CASE ~Crash
    <3>1. UNCHANGED <<after, owed>>
      BY <1>5, <2>2 DEF Process, Raises, Halts, Restart, RecoverAborts, RecoverPrepares,
         RecoverCommits, RecoverRollouts, Recover, ghosts
    <3>2. CASE Restart
      BY <3>2, Zenon DEF Restart, StepsAfter
    <3>3. CASE ~Restart
      BY <1>1, <1>5, <2>2, <3>1, <3>3 DEF Process, Raises, Halts, RecoverAborts, RecoverPrepares,
         RecoverCommits, RecoverRollouts, Recover
    <3> QED
      BY <3>2, <3>3
  <2> QED
    BY <2>1, <2>2
<1>6. CASE UNCHANGED vars
  BY <1>1, <1>6 DEF vars
<1> QED
  BY <1>2, <1>3, <1>4, <1>5, <1>6 DEF Next

\* At most the one step that was already under way follows a stop (_drive's
\* look before robot.step), and no new episode moves.
THEOREM StopIsPrompt == Spec => []StopWithinOneStep
<1>1. Init => StepsAfter
  BY DEF Init, StepsAfter
<1>2. IInv /\ StopsKept /\ StepsAfter /\ [Next]_vars => StepsAfter'
  BY KeepsStepsAfter
<1>3. StepsAfter => StopWithinOneStep
  BY DEF StepsAfter, StopWithinOneStep
<1> QED
  BY <1>1, <1>2, <1>3, AlwaysStopsKept, PTL DEF Spec

-----------------------------------------------------------------------------
(* A verdict belongs to the episode under way.                             *)

\* Where the loop may still find a verdict: from the start of a forward
\* episode to the transaction after its last step, or on the way to a fault.
VerdictPcs ==
    {"started", "drive", "step", "recording", "stopping", "stopped", "raised"} \cup FaultPcs

VerdictHere ==
    verdict # NoVerdict =>
        /\ pc \in VerdictPcs
        /\ verdict.ep = ctx.ep /\ ctx.ep.role = "forward"
        /\ pc = "started" => lock.by # "loop" /\ got = "yes"

\* The episode of the context stays, and the loop where a verdict may wait.
LEMMA VerdictWaits ==
    ASSUME VerdictHere, verdict' \in {verdict, NoVerdict}, ctx'.ep = ctx.ep,
           pc' \in VerdictPcs, pc' = "started" => pc = "started" /\ lock'.by # "loop" /\ got' = got
    PROVE  VerdictHere'
BY DEF VerdictHere

LEMMA StepCases ==
    Step => \/ /\ pc' \in {"drive", "faulting"}
               /\ ctx' = [ctx EXCEPT !.left = @ - 1, !.ran = TRUE]
            \/ \E reason : Faults(reason)
            \/ Ends("policy_error", NoStop)
BY DEF Step

LEMMA LoopKeepsVerdict == ASSUME IInv, VerdictHere, Loop PROVE VerdictHere'
<1>1. verdict' \in {verdict, NoVerdict}
  BY LoopLeaves DEF Leaves
<1>2. CASE verdict = NoVerdict \/ verdict' = NoVerdict
  BY <1>1, <1>2 DEF VerdictHere
<1>3. CASE verdict # NoVerdict /\ verdict' = verdict
  <2>1. /\ pc \in VerdictPcs /\ Forward
        /\ pc = "started" => got = "yes"
    BY <1>3 DEF VerdictHere, Forward
  <2>2. ctx \in Contexts
    BY DEF IInv, RunTypes
  <2>3. ASSUME NEW p \in VerdictPcs \ {"started"}, pc' = p, ctx'.ep = ctx.ep PROVE VerdictHere'
    BY <1>3, <2>3, VerdictWaits
  <2>4. CASE Started
    <3>1. pc' = "drive" /\ ctx' = ctx
      BY <2>1, <2>4, StartedCases DEF LoopAt
    <3> QED
      BY <2>3, <3>1 DEF VerdictPcs
  <2>5. CASE DriveChecks \/ Step
    <3>1. ASSUME NEW reason, NEW cmd, Ends(reason, cmd) PROVE pc' = "stopping" /\ ctx'.ep = ctx.ep
      BY <2>1, <2>2, <3>1 DEF Ends, Contexts
    <3>2. ASSUME NEW reason, Faults(reason) PROVE pc' = "faulting" /\ ctx' = ctx
      BY <3>2 DEF Faults
    <3>3. ~TakesVerdict
      BY <1>3 DEF TakesVerdict
    <3>4. ASSUME FailsEarly \/ LosesChunk \/ Goes("step"), LoopAt("drive")
          PROVE  pc' \in {"stopping", "drive", "step"} /\ ctx'.ep = ctx.ep
      BY <2>1, <2>2, <3>4 DEF LoopAt, FailsEarly, LosesChunk, Goes, Contexts
    <3>5. ASSUME pc' \in {"drive", "faulting"}, ctx' = [ctx EXCEPT !.left = @ - 1, !.ran = TRUE]
          PROVE  ctx'.ep = ctx.ep
      BY <2>2, <3>5 DEF Contexts
    <3>6. pc' \in {"stopping", "faulting", "drive", "step"} /\ ctx'.ep = ctx.ep
      <4>1. CASE DriveChecks
        <5>1. /\ LoopAt("drive")
              /\ \/ \E reason, cmd : Ends(reason, cmd)
                 \/ \E reason : Faults(reason)
                 \/ TakesVerdict
                 \/ FailsEarly \/ LosesChunk \/ Goes("step")
          BY <4>1, Zenon DEF DriveChecks
        <5> QED
          BY <3>1, <3>2, <3>3, <3>4, <5>1
      <4>2. CASE Step
        BY <3>1, <3>2, <3>5, <4>2, StepCases
      <4> QED
        BY <2>5, <4>1, <4>2
    <3> QED
      BY <2>3, <3>6 DEF VerdictPcs, FaultPcs
  <2>6. CASE RecordsVerdict
    <3>1. /\ pc' = "stopping"
          /\ ctx' = [ctx EXCEPT !.verdict = got, !.auth = OtherId, !.reason = "operator_verdict",
                                !.left = 0]
      BY <2>6 DEF RecordsVerdict
    <3>2. ctx'.ep = ctx.ep
      BY <2>2, <3>1 DEF Contexts
    <3> QED
      BY <2>3, <3>1, <3>2 DEF VerdictPcs
  <2>7. CASE Stopping
    <3>1. pc' \in {"stopped", "contain"} /\ ctx' = ctx
      BY <2>7 DEF Stopping, Moves, Asks
    <3> QED
      BY <2>3, <3>1 DEF VerdictPcs, FaultPcs
  <2>8. CASE Drops \/ Faulting \/ Faulted
    BY <1>3, <2>8 DEF Drops, Faulting, Faulted, VerdictDropped
  <2>9. CASE Contain
    <3>1. pc' \in {"raised", "faulting"} /\ ctx' = ctx
      BY <2>9 DEF Contain
    <3> QED
      BY <2>3, <3>1 DEF VerdictPcs, FaultPcs
  <2>10. ~(Top \/ Rest \/ Preflight \/ Decide \/ Assessed \/ NotStarted)
    <3>1. pc \notin {"top", "rest", "preflight", "decide", "assessed", "notStarted"}
      BY <2>1 DEF VerdictPcs, FaultPcs
    <3> QED
      BY <3>1, TopCases, DecideCases DEF Rest, Preflight, Assessed, NotStarted, LoopAt
  <2>11. ~(Finalizing \/ Finalized \/ Sealed \/ Counted \/ Homed)
    <3>1. pc \notin {"finalizing", "finalized", "sealed", "counted", "homed"}
      BY <2>1 DEF VerdictPcs, FaultPcs
    <3> QED
      BY <3>1, CountedCases DEF Finalizing, Finalized, Sealed, Homed, LoopAt
  <2>12. ~(Verifying \/ Verified \/ Concluded \/ ResetSealed)
    <3>1. pc \notin {"verifying", "verified", "concluded", "resetSealed"}
      BY <2>1 DEF VerdictPcs, FaultPcs
    <3> QED
      BY <3>1, VerifiedCases, ResetSealedCases DEF Verifying, Concluded, LoopAt
  <2> QED
    BY <2>4, <2>5, <2>6, <2>7, <2>8, <2>9, <2>10, <2>11, <2>12, Zenon DEF Loop
<1> QED
  BY <1>1, <1>2, <1>3

LEMMA TransactionKeepsVerdict == ASSUME IInv, VerdictHere, Transaction PROVE VerdictHere'
<1>1. pc' = pc /\ verdict' = verdict
  BY DEF Transaction, HomeStarts, Acts, Acknowledges, Commits, Aborts, ConsumesStops,
     ResumeClears, opvars
<1>2. ctx'.ep = ctx.ep
  <2>1. ctx \in Contexts
    BY DEF IInv, RunTypes
  <2>2. CASE Acts
    <3>1. \/ ctx' = [ctx EXCEPT !.sealed = rollout'[Open.ep]]
          \/ ctx' = ctx
      BY <2>2 DEF Acts
    <3> QED
      BY <2>1, <3>1 DEF Contexts
  <2>3. CASE Commits
    <3>1. ctx' \in {ctx, [ctx EXCEPT !.written = TRUE]}
      BY <2>3 DEF Commits
    <3> QED
      BY <2>1, <3>1 DEF Contexts
  <2>4. CASE ~Acts /\ ~Commits
    BY <2>4 DEF Transaction, HomeStarts, Acknowledges, Aborts, ConsumesStops, ResumeClears
  <2> QED
    BY <2>2, <2>3, <2>4
<1>3. lock.by # "loop" => lock'.by # "loop" /\ got' = got
  <2>1. CASE HomeStarts \/ Acts
    BY <2>1 DEF HomeStarts, Acts
  <2>2. CASE Commits
    BY <2>2, CommitMoves, CommitsAre
  <2>3. CASE Acknowledges
    <3>1. lock' = [lock EXCEPT !.at = "acknowledged"] /\ got' = got
      BY <2>3 DEF Acknowledges
    <3> QED
      BY <3>1 DEF IInv, RunTypes, Locks
  <2>4. CASE Aborts \/ ConsumesStops \/ ResumeClears
    BY <2>4 DEF Aborts, ConsumesStops, ResumeClears, Free
  <2> QED
    BY <2>1, <2>2, <2>3, <2>4 DEF Transaction
<1> QED
  BY <1>1, <1>2, <1>3 DEF VerdictHere

\* A verdict is taken only while a forward episode may still end by it.
LEMMA VerdictIsTimely ==
    ASSUME IInv, EpisodeVerdict
    PROVE  pc \in VerdictPcs /\ (pc = "started" => lock.by # "loop" /\ got = "yes")
<1>1. /\ ~halted /\ journal.state = "FORWARD_ACTIVE" /\ ctx.ep.role = "forward"
      /\ pc \notin OffPcs
  BY DEF EpisodeVerdict, State, Serving, OffPcs
<1>2. Context(pc, got, ctx) /\ Holder(pc, lock, journal, got, ctx) /\ pc \in Pcs /\ lock \in Locks
  BY DEF IInv, Control, RunTypes
<1>3. pc \notin IdlePcs \cup ResetPcs
  BY <1>1, <1>2 DEF Context, NoCtx, NoEp
<1>4. CASE lock.by = "loop"
  <2>1. lock.at \in TxStages
    BY <1>1, <1>2, <1>4 DEF Holder
  <2>2. Leg(pc, "FORWARD_ACTIVE", ctx, journal.open) /\ pc \in TxPcs
    BY <1>1, <1>2, <1>4, <2>1 DEF Holder
  <2>3. pc \in {"stopped", "faulted", "contained"}
    BY <1>1, <2>2 DEF Leg, TxPcs, SceneStates
  <2> QED
    BY <2>3 DEF VerdictPcs, FaultPcs
<1>5. CASE lock.by # "loop"
  <2>1. At(pc, "FORWARD_ACTIVE", got, "forward")
    BY <1>1, <1>5 DEF IInv, Control
  <2> QED
    BY <1>2, <1>3, <1>5, <2>1 DEF At, Pcs, VerdictPcs, FaultPcs, IdlePcs, OffPcs, ResetPcs,
       SceneStates
<1> QED
  BY <1>4, <1>5

LEMMA OperatorKeepsVerdict == ASSUME IInv, VerdictHere, Operator PROVE VerdictHere'
<1>1. CASE EpisodeVerdict
  <2>1. /\ UNCHANGED <<pc, lock, got, ctx>> /\ ctx.ep.role = "forward"
        /\ \E l \in {"keep", "discard"} : verdict' = [ep |-> ctx.ep, label |-> l]
    BY <1>1 DEF EpisodeVerdict
  <2> QED
    BY <1>1, <2>1, VerdictIsTimely DEF VerdictHere
<1>2. ASSUME UNCHANGED <<pc, got, ctx, verdict>>, lock.by # "loop" => lock'.by # "loop"
      PROVE  VerdictHere'
  BY <1>2 DEF VerdictHere
<1>3. ASSUME NEW c \in StopIds, StopChecks(c) \/ StopRegisters(c) \/ StopReturns(c)
      PROVE  VerdictHere'
  BY <1>2, <1>3 DEF StopChecks, StopRegisters, StopReturns
<1>4. ASSUME NEW c \in StopIds, StopCompletes(c) PROVE VerdictHere'
  <2>1. /\ UNCHANGED <<pc, got, ctx, verdict>>
        /\ Begin(c, Tx("COMPLETED", "operator_stop", "none", c, NoEp))
    BY <1>4 DEF StopCompletes
  <2>2. lock'.by \in {lock.by, c}
    BY <2>1 DEF Begin
  <2> QED
    BY <1>2, <2>1, <2>2, CommandsAssumption
<1>5. CASE Resume
  <2>1. /\ UNCHANGED <<pc, got, ctx, verdict>>
        /\ Begin("resume", Tx("PREFLIGHT", "human_resumed", "none", OtherId, NoEp))
    BY <1>5 DEF Resume
  <2>2. lock'.by \in {lock.by, "resume"}
    BY <2>1 DEF Begin
  <2> QED
    BY <1>2, <2>1, <2>2
<1> QED
  BY <1>1, <1>3, <1>4, <1>5 DEF Operator

LEMMA ProcessKeepsVerdict == ASSUME IInv, VerdictHere, Process PROVE VerdictHere'
<1>1. CASE Raises \/ Halts
  <2>1. pc' \in {"contain", "raised"} /\ UNCHANGED <<ctx, verdict>>
    BY <1>1 DEF Raises, Halts, opvars
  <2>2. pc' \in VerdictPcs /\ pc' # "started" /\ ctx'.ep = ctx.ep /\ verdict' \in {verdict, NoVerdict}
    BY <2>1 DEF VerdictPcs, FaultPcs
  <2> QED
    BY <2>2, VerdictWaits
<1>2. CASE Crash
  BY <1>2 DEF Crash, VerdictHere
<1>3. CASE Restart \/ RecoverAborts \/ RecoverPrepares \/ RecoverCommits \/ RecoverRollouts
  <2>1. pc \in OffPcs /\ verdict' = verdict
    BY <1>3 DEF Restart, RecoverAborts, RecoverPrepares, RecoverCommits, RecoverRollouts, Recover,
       opvars, OffPcs
  <2>2. pc \notin VerdictPcs
    BY <2>1 DEF OffPcs, VerdictPcs, FaultPcs
  <2> QED
    BY <2>1, <2>2 DEF VerdictHere
<1> QED
  BY <1>1, <1>2, <1>3 DEF Process

\* A verdict that waits is of the episode under way, however late it was
\* registered (episode_verdict, _drop_verdict): it is never left behind to
\* end, or to block, the next one.
THEOREM VerdictBelongs == Spec => []VerdictOfItsEpisode
<1>1. Init => VerdictHere
  BY DEF Init, VerdictHere
<1>2. IInv /\ VerdictHere /\ [Next]_vars => VerdictHere'
  <2>1. UNCHANGED vars /\ VerdictHere => VerdictHere'
    BY DEF vars, VerdictHere
  <2> QED
    BY <2>1, LoopKeepsVerdict, TransactionKeepsVerdict, OperatorKeepsVerdict, ProcessKeepsVerdict,
       Zenon DEF Next
<1>3. VerdictHere => VerdictOfItsEpisode
  BY DEF VerdictHere, VerdictOfItsEpisode
<1> QED
  BY <1>1, <1>2, <1>3, Invariant, PTL DEF Spec

-----------------------------------------------------------------------------
(* The recorder's folders and the journal agree.                           *)

\* The recorder has sealed the episode under way, and the line that says so
\* is still to come.
SealDone ==
    /\ lock.by = "loop" /\ lock.at \in {"acted", "acknowledged"}
    /\ journal.open.kind = "recorder_seal" /\ got = "yes"

\* A seal is the episode's last transaction but one, or its result.
SealedOnce(j) ==
    \A e \in j.sealed : j.results[e] = 1 \/ (j.state = "RESET_FINALIZE" /\ j.episode = e)

RolloutsKept ==
    /\ \A e \in journal.sealed : rollout[e] = "complete"
    /\ journal.complete \subseteq journal.sealed
    /\ SealedOnce(journal)
    /\ \A e \in Eps : rollout[e] = "complete" =>
         e \in journal.sealed \/ pc \in OffPcs \cup {"raised"} \/ (SealDone /\ journal.open.ep = e)
    /\ SealDone => rollout[journal.open.ep] = "complete"
    /\ ctx.sealed = "complete" => ctx.ep \in journal.sealed \/ SealDone \/ pc = "raised"

\* The context is not sealed by the loop itself.
NotSealed == ctx'.sealed = "complete" => ctx.sealed = "complete" /\ ctx'.ep = ctx.ep

LEMMA LoopRuns == Loop => lock.by # "loop" /\ ~halted /\ pc \notin OffPcs \cup {"raised"}
<1>1. ASSUME NEW p \in Pcs \ (OffPcs \cup {"raised"}), LoopAt(p)
      PROVE  lock.by # "loop" /\ ~halted /\ pc \notin OffPcs \cup {"raised"}
  BY <1>1 DEF LoopAt
<1>2. Loop => \E p \in Pcs \ (OffPcs \cup {"raised"}) : LoopAt(p)
  <2>1. Top \/ Decide \/ Counted \/ Verified \/ ResetSealed \/ Started =>
          \E p \in Pcs \ (OffPcs \cup {"raised"}) : LoopAt(p)
    BY TopCases, DecideCases, CountedCases, VerifiedCases, ResetSealedCases, StartedCases
       DEF Pcs, OffPcs
  <2>2. Rest \/ Preflight \/ Assessed \/ NotStarted \/ DriveChecks \/ RecordsVerdict \/ Step =>
          \E p \in Pcs \ (OffPcs \cup {"raised"}) : LoopAt(p)
    BY DEF Rest, Preflight, Assessed, NotStarted, DriveChecks, RecordsVerdict, Step, Pcs, OffPcs
  <2>3. Stopping \/ Drops \/ Finalizing \/ Finalized \/ Sealed \/ Homed \/ Verifying \/ Concluded =>
          \E p \in Pcs \ (OffPcs \cup {"raised"}) : LoopAt(p)
    BY DEF Stopping, Drops, Finalizing, Finalized, Sealed, Homed, Verifying, Concluded, Pcs, OffPcs
  <2>4. Faulting \/ Faulted \/ Contain => \E p \in Pcs \ (OffPcs \cup {"raised"}) : LoopAt(p)
    BY DEF Faulting, Faulted, Contain, Pcs, OffPcs
  <2> QED
    BY <2>1, <2>2, <2>3, <2>4, Zenon DEF Loop
<1> QED
  BY <1>1, <1>2

\* What the loop does to folders: it abandons one that is open, on a fault.
LEMMA LoopFolders ==
    ASSUME IInv, Loop
    PROVE  /\ NotSealed
           /\ \/ rollout' = rollout
              \/ /\ ctx.ep \in Eps /\ rollout[ctx.ep] = "open"
                 /\ rollout' = [rollout EXCEPT ![ctx.ep] = "incomplete"]
<1>1. ctx \in Contexts /\ NoCtx.sealed = "none"
  BY DEF IInv, RunTypes, NoCtx
<1>2. ASSUME NEW t, NEW next, Moves(t, next) PROVE NotSealed /\ rollout' = rollout
  BY <1>2 DEF Moves, NotSealed
<1>3. ASSUME NEW p, Goes(p) \/ Faults(p) PROVE NotSealed /\ rollout' = rollout
  BY <1>3 DEF Goes, Faults, NotSealed
<1>4. ASSUME NEW reason, NEW cmd, ToHuman(reason, cmd) PROVE NotSealed /\ rollout' = rollout
  BY <1>2, <1>4 DEF ToHuman
<1>5. ASSUME NEW reason, NEW cmd, NEW o, Concludes(reason, cmd, o) \/ Ends(reason, cmd)
      PROVE  NotSealed /\ rollout' = rollout
  BY <1>1, <1>5 DEF Concludes, Ends, NotSealed, Contexts
<1>6. CASE Top \/ Rest \/ Preflight \/ Decide \/ NotStarted
  <2>1. CASE Top
    <3>1. State \in HOLD_STATES \cup SceneStates \cup {"PREFLIGHT"}
      BY <2>1, TopCases, LoopFacts DEF At
    <3> QED
      BY <2>1, <3>1, <1>3, TopCases
  <2> QED
    BY <1>2, <1>3, <1>4, <1>6, <2>1, DecideCases DEF Rest, Preflight, NotStarted
<1>7. CASE Assessed
  <2>1. ASSUME NEW role, NEW reason, Starts(role, reason) PROVE NotSealed /\ rollout' = rollout
    <3> DEFINE e == [role |-> role, number |-> numbers[role] + 1]
    <3>1. ctx' = [NoCtx EXCEPT !.ep = e, !.left = MaxSteps] /\ rollout' = rollout
      BY <2>1 DEF Starts
    <3>2. ctx'.sealed = "none"
      BY <3>1 DEF NoCtx
    <3> QED
      BY <3>1, <3>2 DEF NotSealed
  <2> QED
    BY <1>4, <1>7, <2>1 DEF Assessed
<1>8. CASE Started
  BY <1>1, <1>8, StartedCases DEF NotSealed
<1>9. CASE DriveChecks
  <2>1. /\ LoopAt("drive")
        /\ \/ \E reason, cmd : Ends(reason, cmd)
           \/ \E reason : Faults(reason)
           \/ TakesVerdict
           \/ FailsEarly \/ LosesChunk \/ Goes("step")
    BY <1>9, Zenon DEF DriveChecks
  <2>2. CASE TakesVerdict \/ FailsEarly \/ LosesChunk
    BY <1>1, <2>2 DEF TakesVerdict, FailsEarly, LosesChunk, NotSealed, Contexts
  <2> QED
    BY <1>3, <1>5, <2>1, <2>2
<1>10. CASE RecordsVerdict
  BY <1>1, <1>10 DEF RecordsVerdict, NotSealed, Contexts
<1>11. CASE Step
  <2>1. ASSUME ctx' = [ctx EXCEPT !.left = @ - 1, !.ran = TRUE] PROVE NotSealed
    BY <1>1, <2>1 DEF NotSealed, Contexts
  <2>2. rollout' = rollout
    BY <1>3, <1>5, <1>11 DEF Step
  <2> QED
    BY <1>3, <1>5, <1>11, <2>1, <2>2, StepCases
<1>12. CASE Stopping \/ Finalizing \/ Finalized \/ Verifying \/ Concluded
  BY <1>2, <1>3, <1>12 DEF Stopping, Finalizing, Finalized, Verifying, Concluded
<1>13. CASE Drops \/ Sealed \/ Homed
  BY <1>1, <1>3, <1>13 DEF Drops, Sealed, Homed, NotSealed
<1>14. CASE Counted
  <2>1. ASSUME NEW reason, NEW cmd, WaitsInPlace(reason, cmd) PROVE NotSealed /\ rollout' = rollout
    BY <1>1, <2>1 DEF WaitsInPlace, NotSealed
  <2> QED
    BY <1>2, <1>3, <1>14, <2>1, CountedCases
<1>15. CASE Verified
  BY <1>3, <1>5, <1>15, VerifiedCases
<1>16. CASE ResetSealed
  BY <1>2, <1>3, <1>16, ResetSealedCases
<1>17. CASE Faulting
  <2> DEFINE open == ctx.ep # NoEp /\ ctx.sealed = "none" /\ rollout[ctx.ep] = "open"
  <2>1. PICK aborted \in {open, FALSE} :
          /\ rollout' = IF aborted THEN [rollout EXCEPT ![ctx.ep] = "incomplete"] ELSE rollout
          /\ ctx' = IF aborted THEN [ctx EXCEPT !.sealed = "incomplete"] ELSE ctx
    BY <1>17 DEF Faulting
  <2>2. CASE aborted
    <3>1. ctx.ep \in Eps /\ rollout[ctx.ep] = "open"
      BY <1>1, <2>2 DEF Contexts, EpOrNone
    <3>2. ctx'.sealed = "incomplete"
      BY <1>1, <2>1, <2>2 DEF Contexts
    <3> QED
      BY <2>1, <2>2, <3>1, <3>2 DEF NotSealed
  <2>3. CASE ~aborted
    BY <2>1, <2>3 DEF NotSealed
  <2> QED
    BY <2>2, <2>3
<1>18. CASE Faulted \/ Contain
  BY <1>1, <1>18 DEF Faulted, Contain, NotSealed
<1> QED
  BY <1>6, <1>7, <1>8, <1>9, <1>10, <1>11, <1>12, <1>13, <1>14, <1>15, <1>16, <1>17, <1>18, Zenon
     DEF Loop

LEMMA LoopKeepsRollouts == ASSUME IInv, RolloutsKept, Loop PROVE RolloutsKept'
<1>1. /\ SameRecord /\ ~SealDone /\ pc \notin OffPcs \cup {"raised"}
      /\ lock' = lock \/ got' = "none"
  BY LoopLeaves, LoopRuns DEF Leaves, SealDone
<1>2. ~SealDone'
  BY <1>1, LoopRuns DEF SealDone
<1>3. \A e \in Eps : rollout'[e] = "complete" <=> rollout[e] = "complete"
  BY LoopFolders DEF IInv, RunTypes, Rollouts
<1>4. journal.sealed \in SUBSET Eps
  BY DEF IInv, RunTypes, Journals
<1> QED
  BY <1>1, <1>2, <1>3, <1>4, LoopFolders DEF RolloutsKept, NotSealed, SameRecord, SealedOnce


\* A step that seals nothing and abandons nothing.
LEMMA RolloutsLeft ==
    ASSUME IInv, RolloutsKept, SameRecord, rollout' = rollout, NotSealed,
           pc \in OffPcs \cup {"raised"} => pc' \in OffPcs \cup {"raised"},
           pc = "raised" => pc' = "raised" \/ ctx'.sealed # "complete",
           SealDone => pc' = "raised" \/ (SealDone' /\ journal'.open = journal.open),
           SealDone' => SealDone /\ journal'.open = journal.open
    PROVE  RolloutsKept'
<1>1. /\ journal'.sealed = journal.sealed /\ journal'.complete = journal.complete
      /\ SealedOnce(journal')
  BY DEF RolloutsKept, SameRecord, SealedOnce
<1> QED
  BY <1>1 DEF RolloutsKept, NotSealed

\* What an act seals is the episode the run is in, and is not sealed yet.
LEMMA NotYetSealed ==
    ASSUME IInv, RolloutsKept, lock.by = "loop", lock.at \in TxStages,
           Open.kind \in Seal \cup {"policy_steps"}
    PROVE  /\ Open.ep \in Eps /\ Open.ep \notin journal.sealed
           /\ Open.kind \in Seal => Open.ep = ctx.ep
<1>1. /\ Open \in Txs /\ Leg(pc, journal.state, ctx, Open) /\ OpenFits(journal, Open)
      /\ pc \in TxPcs /\ Open.ep \in Eps
  BY TxFacts DEF NON_IDEMPOTENT_KINDS
<1>2. /\ Results(journal) /\ SealedOnce(journal) /\ Context(pc, got, ctx)
  BY HeldFacts DEF IInv, OnDisk, RolloutsKept
<1>3. ctx.ep.role \in Roles \/ pc \notin EpisodePcs
  BY <1>2 DEF Context, Eps
<1>4. CASE Open.kind = "policy_steps"
  <2>1. pc = "started" /\ journal.state \in SceneStates /\ Open.to \in MOTION_STATES
    BY <1>1, <1>3, <1>4 DEF Leg, TxPcs, Roles, EpisodePcs, MotionOf, MOTION_STATES, Seal
  <2>2. Open.ep \notin journal.begun /\ journal.state # "RESET_FINALIZE"
    BY <1>1, <2>1 DEF OpenFits, SceneStates
  <2> QED
    BY <1>1, <1>2, <1>4, <2>2 DEF Results, SealedOnce, Seal
<1>5. CASE Open.kind \in Seal
  <2>1. /\ pc \in {"sealed", "resetSealed"} /\ Open.ep = ctx.ep
        /\ journal.state \in {"FORWARD_FINALIZE", "RESET_VERIFY"}
        /\ Open.to \in {"ROBOT_HOME", "RESET_FINALIZE"}
    BY <1>1, <1>3, <1>5 DEF Leg, TxPcs, Roles, EpisodePcs, Seal
  <2>2. Open.ep = journal.episode /\ journal.state \in EPISODE_STATES
    BY <1>1, <2>1 DEF OpenFits, EPISODE_STATES, MOTION_STATES
  <2>3. journal.results[Open.ep] = 0
    BY <1>2, <2>2 DEF Results
  <2> QED
    BY <1>1, <1>2, <2>1, <2>3 DEF SealedOnce
<1> QED
  BY <1>4, <1>5

LEMMA ActsKeepRollouts == ASSUME IInv, RolloutsKept, Acts PROVE RolloutsKept'
<1> DEFINE t == Open
<1>1. PICK x \in ActOutcomes \ {"raises"} :
        /\ got' = x
        /\ rollout' = [rollout EXCEPT ![t.ep] =
              CASE x = "yes" /\ t.kind = "policy_steps" -> "open"
                [] x = "yes" /\ t.kind = "recorder_seal" -> "complete"
                [] x = "yes" /\ t.kind = "recorder_abort" -> "incomplete"
                [] OTHER -> rollout[t.ep]]
        /\ ctx' = IF x = "yes" /\ t.kind \in Seal
                  THEN [ctx EXCEPT !.sealed = rollout'[t.ep]] ELSE ctx
  BY DEF Acts
<1>2. /\ lock.by = "loop" /\ lock.at \in {"prepared", "homing"} /\ lock' = [lock EXCEPT !.at = "acted"]
      /\ UNCHANGED <<journal, pc, halted>>
  BY DEF Acts
<1>3. /\ pc \notin OffPcs \cup {"raised"} /\ ~SealDone /\ lock \in Locks /\ t = journal.open
      /\ rollout \in Rollouts /\ ctx \in Contexts /\ t \in Txs
  BY <1>2, TxFacts DEF IInv, RunTypes, TxStages, SealDone, TxPcs
<1>4. lock'.by = "loop" /\ lock'.at = "acted"
  BY <1>2, <1>3, LockMoves
<1>5. t.kind \in Seal \cup {"policy_steps"} =>
        t.ep \in Eps /\ t.ep \notin journal.sealed /\ (t.kind \in Seal => t.ep = ctx.ep)
  BY <1>2, NotYetSealed DEF TxStages
<1> HIDE DEF t
<1>6. CASE x = "yes" /\ t.kind = "recorder_seal"
  <2>1. /\ rollout' = [rollout EXCEPT ![t.ep] = "complete"]
        /\ ctx' = [ctx EXCEPT !.sealed = rollout'[t.ep]]
    BY <1>1, <1>6 DEF Seal
  <2>2. SealDone' /\ journal'.open.ep = t.ep
    BY <1>1, <1>2, <1>3, <1>4, <1>6 DEF SealDone
  <2>3. t.ep \in Eps /\ t.ep = ctx.ep /\ ctx'.ep = ctx.ep
    BY <1>3, <1>5, <1>6, <2>1 DEF Seal, Contexts
  <2>4. rollout'[t.ep] = "complete" /\ \A e \in Eps : e # t.ep => rollout'[e] = rollout[e]
    BY <1>3, <2>1, <2>3 DEF Rollouts
  <2>5. journal' = journal /\ journal.sealed \in SUBSET Eps
    BY <1>2 DEF IInv, RunTypes, Journals
  <2> QED
    BY <1>3, <2>2, <2>3, <2>4, <2>5 DEF RolloutsKept
<1>7. CASE x = "yes" /\ t.kind = "recorder_abort"
  <2>1. /\ rollout' = [rollout EXCEPT ![t.ep] = "incomplete"]
        /\ ctx' = [ctx EXCEPT !.sealed = rollout'[t.ep]]
    BY <1>1, <1>7 DEF Seal
  <2>2. ~SealDone'
    BY <1>2, <1>3, <1>7 DEF SealDone
  <2>3. t.ep \in Eps /\ t.ep \notin journal.sealed
    BY <1>5, <1>7 DEF Seal
  <2>4. rollout'[t.ep] = "incomplete" /\ \A e \in Eps : e # t.ep => rollout'[e] = rollout[e]
    BY <1>3, <2>1, <2>3 DEF Rollouts
  <2>5. ctx'.sealed = "incomplete"
    BY <1>3, <2>1, <2>4 DEF Contexts
  <2>6. journal' = journal /\ journal.sealed \in SUBSET Eps
    BY <1>2 DEF IInv, RunTypes, Journals
  <2> QED
    BY <1>3, <2>2, <2>3, <2>4, <2>5, <2>6 DEF RolloutsKept
<1>8. CASE x = "yes" /\ t.kind = "policy_steps"
  <2>1. rollout' = [rollout EXCEPT ![t.ep] = "open"] /\ ctx' = ctx
    BY <1>1, <1>8 DEF Seal
  <2>2. ~SealDone'
    BY <1>2, <1>3, <1>8 DEF SealDone
  <2>3. t.ep \in Eps /\ t.ep \notin journal.sealed
    BY <1>5, <1>8
  <2>4. rollout'[t.ep] = "open" /\ \A e \in Eps : e # t.ep => rollout'[e] = rollout[e]
    BY <1>3, <2>1, <2>3 DEF Rollouts
  <2>5. journal' = journal /\ journal.sealed \in SUBSET Eps
    BY <1>2 DEF IInv, RunTypes, Journals
  <2> QED
    BY <1>3, <2>1, <2>2, <2>3, <2>4, <2>5 DEF RolloutsKept
<1>9. CASE x # "yes" \/ t.kind \notin Seal \cup {"policy_steps"}
  <2>1. rollout' = rollout
    <3>1. rollout' = [rollout EXCEPT ![t.ep] = rollout[t.ep]]
      BY <1>1, <1>9 DEF Seal
    <3> QED
      BY <1>3, <3>1 DEF Rollouts
  <2>2. ctx' = ctx
    BY <1>1, <1>9
  <2>3. ~SealDone'
    BY <1>1, <1>2, <1>3, <1>9 DEF SealDone, Seal
  <2> QED
    BY <1>2, <1>3, <2>1, <2>2, <2>3 DEF RolloutsKept
<1> QED
  BY <1>6, <1>7, <1>8, <1>9 DEF Seal


\* What a commit does to the rest of the journal.
LEMMA CommittedSeals ==
    ASSUME IInv, NEW b \in BOOLEAN, Open \in Txs
    PROVE  /\ Committed(b).sealed =
                (IF Open.kind = "recorder_seal" THEN journal.sealed \cup {Open.ep} ELSE journal.sealed)
           /\ Committed(b).complete =
                (IF Open.res /\ b THEN journal.complete \cup {Open.ep} ELSE journal.complete)
           /\ Committed(b).begun =
                (IF Open.to \in MOTION_STATES THEN journal.begun \cup {Open.ep} ELSE journal.begun)
           /\ Committed(b).results =
                (IF Open.res THEN [journal.results EXCEPT ![Open.ep] = journal.results[Open.ep] + 1]
                 ELSE journal.results)
           /\ Committed(b).rounds =
                (IF Open.res /\ b /\ Round THEN journal.rounds \cup {Open.ep} ELSE journal.rounds)
           /\ Committed(b).discards = journal.discards
<1> DEFINE episode == IF Open.ep = NoEp THEN journal.episode ELSE Open.ep
           begun == IF BeginsEpisode THEN journal.begun \cup {Open.ep} ELSE journal.begun
           sealed == IF Open.kind = "recorder_seal" THEN journal.sealed \cup {Open.ep}
                     ELSE journal.sealed
           results == IF Open.res
                      THEN [journal.results EXCEPT ![Open.ep] = journal.results[Open.ep] + 1]
                      ELSE journal.results
           complete == IF Open.res /\ b THEN journal.complete \cup {Open.ep} ELSE journal.complete
           rounds == IF Open.res /\ b /\ Round THEN journal.rounds \cup {Open.ep} ELSE journal.rounds
<1>1. Committed(b) = [journal EXCEPT !.state = Open.to, !.open = NoTx, !.ack = "none",
                          !.episode = episode, !.begun = begun, !.sealed = sealed,
                          !.results = results, !.complete = complete, !.rounds = rounds]
  BY DEF Committed
<1>2. journal \in Journals
  BY DEF IInv, RunTypes
<1>3. begun = (IF Open.to \in MOTION_STATES THEN journal.begun \cup {Open.ep} ELSE journal.begun)
  BY DEF BeginsEpisode
<1> HIDE DEF episode, begun, sealed, results, complete, rounds
<1>4. /\ Committed(b).sealed = sealed /\ Committed(b).complete = complete
      /\ Committed(b).begun = begun /\ Committed(b).results = results
      /\ Committed(b).rounds = rounds /\ Committed(b).discards = journal.discards
  BY <1>1, <1>2 DEF Journals
<1> QED
  BY <1>3, <1>4 DEF sealed, results, complete, rounds

\* An episode stays sealed, with its result, once the run has left it.
LEMMA StaysSealed ==
    ASSUME IInv, RolloutsKept, NEW b \in BOOLEAN, Open \in Txs, OpenFits(journal, Open),
           journal.state = "RESET_FINALIZE" => Open.to \notin EPISODE_STATES,
           Open.kind = "recorder_seal" =>
             /\ Open.ep \in Eps
             /\ Open.to = "RESET_FINALIZE" \/ Open.res
    PROVE  SealedOnce(Committed(b))
<1> DEFINE j == Committed(b)
           t == Open
<1>1. /\ j.state = t.to /\ j.episode = (IF t.ep = NoEp THEN journal.episode ELSE t.ep)
      /\ Results(j)
  BY CommittedIs
<1>2. /\ j.sealed = (IF t.kind = "recorder_seal" THEN journal.sealed \cup {t.ep} ELSE journal.sealed)
      /\ j.results = (IF t.res THEN [journal.results EXCEPT ![t.ep] = journal.results[t.ep] + 1]
                      ELSE journal.results)
  BY CommittedSeals
<1>3. /\ journal \in Journals /\ Results(journal) /\ SealedOnce(journal)
  BY DEF IInv, RunTypes, OnDisk, RolloutsKept
<1> HIDE DEF j
<1>4. ASSUME NEW e \in journal.sealed PROVE j.results[e] = 1 \/ (j.state = "RESET_FINALIZE" /\ j.episode = e)
  <2>1. e \in Eps /\ journal.results \in [Eps -> Nat]
    BY <1>3 DEF Journals
  <2>2. CASE journal.results[e] = 1
    <3>1. j.results[e] \in {1, 2}
      <4>1. j.results = journal.results \/ j.results = [journal.results EXCEPT ![t.ep] = journal.results[t.ep] + 1]
        BY <1>2
      <4>2. CASE t.ep = e
        <5>1. j.results = journal.results \/ j.results = [journal.results EXCEPT ![e] = journal.results[e] + 1]
          BY <4>1, <4>2
        <5>2. j.results[e] = journal.results[e] \/ j.results[e] = journal.results[e] + 1
          BY <2>1, <5>1
        <5> QED
          BY <2>2, <5>2
      <4>3. CASE t.ep # e
        BY <2>1, <2>2, <4>1, <4>3
      <4> QED
        BY <4>2, <4>3
    <3>2. j.results[e] \in {0, 1}
      BY <1>1, <2>1 DEF Results
    <3> QED
      BY <3>1, <3>2
  <2>3. CASE journal.results[e] # 1
    <3>1. journal.state = "RESET_FINALIZE" /\ journal.episode = e
      BY <1>3, <2>3 DEF SealedOnce
    <3>2. t.res /\ t.ep = e
      BY <3>1 DEF OpenFits, EPISODE_STATES
    <3>3. journal.results[e] = 0
      BY <1>3, <2>1, <2>3 DEF Results
    <3>4. j.results = [journal.results EXCEPT ![e] = journal.results[e] + 1]
      BY <1>2, <3>2
    <3> QED
      BY <2>1, <3>3, <3>4
  <2> QED
    BY <2>2, <2>3
<1>5. ASSUME t.kind = "recorder_seal"
      PROVE  j.results[t.ep] = 1 \/ (j.state = "RESET_FINALIZE" /\ j.episode = t.ep)
  <2>1. CASE t.res
    <3>1. journal.results[t.ep] \in {0, 1} /\ j.results[t.ep] = journal.results[t.ep] + 1
      <4>1. journal.results \in [Eps -> Nat] /\ t.ep \in Eps
        BY <1>3, <1>5 DEF Journals
      <4>2. j.results = [journal.results EXCEPT ![t.ep] = journal.results[t.ep] + 1]
        BY <1>2, <2>1
      <4>3. journal.results[t.ep] \in {0, 1}
        BY <1>3, <4>1 DEF Results
      <4> QED
        BY <4>1, <4>2, <4>3
    <3>2. j.results[t.ep] \in {0, 1}
      BY <1>1, <1>5 DEF Results
    <3> QED
      BY <3>1, <3>2
  <2>2. CASE ~t.res
    BY <1>1, <1>5, <2>2, NoEpIsNone
  <2> QED
    BY <2>1, <2>2
<1>6. SealedOnce(j)
  BY <1>2, <1>4, <1>5 DEF SealedOnce
<1> QED
  BY <1>6 DEF j

LEMMA CommitsKeepRollouts == ASSUME IInv, RolloutsKept, Commits PROVE RolloutsKept'
<1> DEFINE t == Open
           b == ctx.sealed = "complete"
<1>1. /\ lock.at = "acknowledged" /\ ~halted /\ lock.by # "nobody"
      /\ t.kind = "none" \/ journal.ack = "yes"
      /\ UNCHANGED <<rollout, pc>>
      /\ ctx' = (IF t.res THEN [ctx EXCEPT !.written = TRUE] ELSE ctx)
  BY CommitsAre
<1>2. b \in BOOLEAN /\ journal' = Committed(b)
  BY Zenon DEF Commits
<1> HIDE DEF b
<1>3. t \in Txs /\ OpenFits(journal, t)
  BY CommitMoves
<1>4. /\ Holder(pc, lock, journal, got, ctx) /\ ctx \in Contexts /\ lock \in Locks
      /\ Context(pc, got, ctx) /\ t = journal.open
  BY <1>1, HeldFacts DEF Open
<1>5. lock.by # "loop" => t.kind = "none" /\ ~t.res
  BY CommitMoves
<1>6. lock.by = "loop" => /\ Leg(pc, journal.state, ctx, t) /\ pc \in TxPcs
                          /\ t.kind = "recorder_seal" => t.ep \in Eps
  BY <1>1, TxFacts DEF TxStages, Seal
<1>7. ctx.ep.role \in Roles \/ pc \notin EpisodePcs
  BY <1>4 DEF Context, Eps
<1>8. t.kind = "recorder_seal" =>
        /\ t.ep \in Eps /\ t.ep = ctx.ep /\ SealDone
        /\ t.to = "RESET_FINALIZE" \/ t.res
  <2> SUFFICES ASSUME t.kind = "recorder_seal"
               PROVE  t.ep \in Eps /\ t.ep = ctx.ep /\ SealDone /\ (t.to = "RESET_FINALIZE" \/ t.res)
    OBVIOUS
  <2>1. lock.by = "loop" /\ journal.ack = "yes" /\ t.ep \in Eps
    BY <1>1, <1>5, <1>6
  <2>2. got = "yes"
    BY <1>1, <1>4, <2>1 DEF Holder
  <2>3. t.ep = ctx.ep /\ (t.to = "RESET_FINALIZE" \/ t.res)
    BY <1>6, <1>7, <2>1 DEF Leg, TxPcs, EpisodePcs, Roles
  <2> QED
    BY <1>1, <1>4, <2>1, <2>2, <2>3 DEF SealDone
<1>9. journal.state = "RESET_FINALIZE" => t.to \notin EPISODE_STATES
  <2>1. CASE lock.by = "loop"
    BY <1>6, <1>7, <2>1 DEF Leg, TxPcs, EpisodePcs, Roles, EPISODE_STATES, SceneStates, HOLD_STATES
  <2>2. CASE lock.by # "loop"
    BY <2>2, CommitMoves DEF EPISODE_STATES, HUMAN_STATES
  <2> QED
    BY <2>1, <2>2
<1>10. t.res => t.ep = ctx.ep
  BY <1>5, <1>6, <1>7 DEF Leg, TxPcs, EpisodePcs, Roles
<1>11. /\ journal'.sealed = (IF t.kind = "recorder_seal" THEN journal.sealed \cup {t.ep} ELSE journal.sealed)
       /\ journal'.complete = (IF t.res /\ b THEN journal.complete \cup {t.ep} ELSE journal.complete)
  BY <1>2, <1>3, CommittedSeals
<1>12. SealedOnce(journal')
  BY <1>2, <1>3, <1>8, <1>9, StaysSealed
<1>13. ~SealDone'
  BY <1>2, <1>3, <1>8, CommittedIs DEF SealDone, NoTx
<1>14. ctx'.ep = ctx.ep /\ ctx'.sealed = ctx.sealed
  BY <1>1, <1>4 DEF Contexts
<1>15. SealDone => t.kind = "recorder_seal"
  BY <1>4 DEF SealDone
<1>16. t.res => pc # "raised"
  BY <1>5, <1>6 DEF TxPcs
<1>17. rollout' = rollout /\ pc' = pc
  BY <1>1
<1> HIDE DEF t
<1>18. \A e \in journal'.sealed : rollout[e] = "complete"
  BY <1>4, <1>8, <1>11 DEF RolloutsKept
<1>19. journal'.complete \subseteq journal'.sealed
  BY <1>8, <1>10, <1>11, <1>15, <1>16 DEF RolloutsKept, b
<1> QED
  BY <1>4, <1>8, <1>11, <1>12, <1>13, <1>14, <1>15, <1>17, <1>18, <1>19 DEF RolloutsKept


LEMMA TransactionKeepsRollouts ==
    ASSUME IInv, RolloutsKept, Transaction
    PROVE  RolloutsKept'
<1>1. CASE HomeStarts
  <2>1. /\ UNCHANGED <<journal, rollout, pc, ctx, got>> /\ lock.by = "loop" /\ lock.at = "prepared"
        /\ lock' = [lock EXCEPT !.at = "homing"] /\ lock \in Locks
    BY <1>1 DEF HomeStarts, IInv, RunTypes
  <2>2. lock'.at = "homing"
    BY <2>1, LockMoves
  <2>3. SameRecord /\ NotSealed /\ ~SealDone /\ ~SealDone'
    BY <2>1, <2>2 DEF SameRecord, NotSealed, SealDone
  <2> QED
    BY <2>1, <2>3, RolloutsLeft
<1>2. CASE Acknowledges
  <2> DEFINE ack == IF got \in {"yes", "unknown"} THEN got ELSE "no"
  <2>1. /\ journal' = [journal EXCEPT !.ack = ack] /\ lock' = [lock EXCEPT !.at = "acknowledged"]
        /\ UNCHANGED <<rollout, pc, ctx, got>> /\ lock.at = "acted" /\ lock \in Locks
        /\ journal \in Journals
    BY <1>2 DEF Acknowledges, IInv, RunTypes
  <2> HIDE DEF ack
  <2>2. SameRecord /\ journal'.open = journal.open
    BY <2>1 DEF SameRecord, Journals
  <2>3. lock'.at = "acknowledged" /\ lock'.by = lock.by
    BY <2>1, LockMoves
  <2>4. SealDone' <=> SealDone
    BY <2>1, <2>2, <2>3 DEF SealDone
  <2> QED
    BY <2>1, <2>2, <2>4, RolloutsLeft DEF NotSealed
<1>3. CASE Aborts
  <2>1. /\ journal' = Aborted /\ lock' = Free /\ UNCHANGED <<rollout, pc, ctx>>
        /\ lock.at = "acknowledged" /\ Open.kind # "none" /\ journal.ack # "yes" /\ journal \in Journals
    BY <1>3 DEF Aborts, IInv, RunTypes
  <2>2. SameRecord
    BY <2>1 DEF SameRecord, Aborted, Journals
  <2>3. ~SealDone
    <3> SUFFICES ASSUME lock.by = "loop" PROVE got # "yes"
      BY DEF SealDone
    <3>1. Holder(pc, lock, journal, got, ctx)
      BY HeldFacts
    <3> QED
      BY <2>1, <3>1 DEF Holder, Open
  <2>4. ~SealDone'
    BY <2>1 DEF SealDone, Free
  <2> QED
    BY <2>1, <2>2, <2>3, <2>4, RolloutsLeft DEF NotSealed
<1>4. CASE ConsumesStops \/ ResumeClears
  <2>1. /\ UNCHANGED <<journal, rollout, pc, ctx, got>> /\ lock' = Free /\ lock.at \in {"consume", "clear"}
    BY <1>4 DEF ConsumesStops, ResumeClears
  <2>2. SameRecord /\ NotSealed /\ ~SealDone /\ ~SealDone'
    BY <2>1 DEF SameRecord, NotSealed, SealDone, Free
  <2> QED
    BY <2>1, <2>2, RolloutsLeft
<1> QED
  BY <1>1, <1>2, <1>3, <1>4, ActsKeepRollouts, CommitsKeepRollouts, Zenon DEF Transaction

LEMMA OperatorKeepsRollouts ==
    ASSUME IInv, RolloutsKept, Operator
    PROVE  RolloutsKept'
<1>1. ASSUME UNCHANGED <<journal, rollout, pc, lock, got, ctx>> PROVE RolloutsKept'
  <2>1. SameRecord /\ NotSealed /\ (SealDone' <=> SealDone)
    BY <1>1 DEF SameRecord, NotSealed, SealDone
  <2> QED
    BY <1>1, <2>1, RolloutsLeft
<1>2. ASSUME NEW by \in StopIds \cup {"resume"}, NEW t, Begin(by, t), UNCHANGED <<rollout, pc, ctx, got>>
      PROVE  RolloutsKept'
  <2>1. /\ lock = Free
        /\ \/ UNCHANGED <<journal, lock>>
           \/ journal' = Prepared(t) /\ lock'.by = by
    BY <1>2 DEF Begin
  <2>2. CASE UNCHANGED <<journal, lock>>
    BY <1>1, <1>2, <2>2
  <2>3. CASE journal' = Prepared(t) /\ lock'.by = by
    <3>1. SameRecord
      BY <2>3, PreparedSame DEF SameRecord
    <3>2. NotSealed /\ ~SealDone /\ ~SealDone'
      BY <1>2, <2>1, <2>3, CommandsAssumption DEF NotSealed, SealDone, Free
    <3> QED
      BY <1>2, <3>1, <3>2, RolloutsLeft
  <2> QED
    BY <2>1, <2>2, <2>3
<1>3. ASSUME NEW c \in StopIds, StopChecks(c) \/ StopRegisters(c) \/ StopReturns(c) PROVE RolloutsKept'
  BY <1>1, <1>3 DEF StopChecks, StopRegisters, StopReturns
<1>4. ASSUME NEW c \in StopIds, StopCompletes(c) PROVE RolloutsKept'
  <2> DEFINE t == Tx("COMPLETED", "operator_stop", "none", c, NoEp)
  <2>1. Begin(c, t) /\ UNCHANGED <<rollout, pc, ctx, got>>
    BY <1>4 DEF StopCompletes
  <2> HIDE DEF t
  <2> QED
    BY <1>2, <2>1
<1>5. CASE Resume
  <2> DEFINE t == Tx("PREFLIGHT", "human_resumed", "none", OtherId, NoEp)
  <2>1. Begin("resume", t) /\ UNCHANGED <<rollout, pc, ctx, got>>
    BY <1>5 DEF Resume
  <2> HIDE DEF t
  <2> QED
    BY <1>2, <2>1
<1>6. CASE EpisodeVerdict
  BY <1>1, <1>6 DEF EpisodeVerdict
<1> QED
  BY <1>3, <1>4, <1>5, <1>6 DEF Operator

LEMMA ProcessKeepsRollouts ==
    ASSUME IInv, RolloutsKept, Process
    PROVE  RolloutsKept'
<1>1. CASE Raises
  <2>1. /\ UNCHANGED <<journal, rollout, ctx>> /\ lock' = Free
    BY <1>1 DEF Raises
  <2>2. pc \notin OffPcs \cup {"raised"} /\ ~SealDone
    <3>1. CASE lock.by = "loop" /\ lock.at \in {"prepared", "homing"}
      BY <3>1, TxFacts DEF TxStages, TxPcs, SealDone
    <3>2. CASE lock = Free /\ AsksAdapter
      BY <3>2 DEF AsksAdapter, OffPcs, SealDone, Free
    <3> QED
      BY <1>1, <3>1, <3>2 DEF Raises, InAdapter
  <2>3. SameRecord /\ NotSealed /\ ~SealDone'
    BY <2>1 DEF SameRecord, NotSealed, SealDone, Free
  <2> QED
    BY <2>1, <2>2, <2>3, RolloutsLeft
<1>2. CASE Halts
  <2>1. UNCHANGED <<journal, rollout, ctx>> /\ lock' = Free /\ pc' = "raised"
    BY <1>2 DEF Halts
  <2>2. SameRecord /\ NotSealed /\ ~SealDone'
    BY <2>1 DEF SameRecord, NotSealed, SealDone, Free
  <2> QED
    BY <2>1, <2>2, RolloutsLeft
<1>3. CASE Crash
  <2>1. /\ UNCHANGED <<journal, rollout>> /\ lock' = Free /\ pc' = "down" /\ ctx' = NoCtx
    BY <1>3 DEF Crash
  <2>2. SameRecord /\ ~SealDone' /\ ctx'.sealed = "none"
    BY <2>1 DEF SameRecord, SealDone, Free, NoCtx
  <2> QED
    BY <2>1, <2>2 DEF RolloutsKept, OffPcs
<1>4. CASE Restart
  <2>1. UNCHANGED <<journal, rollout, ctx, lock>> /\ pc = "down" /\ pc' \in {"rollouts", "abort", "prepare"}
    BY <1>4 DEF Restart
  <2>2. lock = Free
    BY <2>1 DEF IInv, Control, Off, OffPcs
  <2>3. SameRecord /\ NotSealed /\ ~SealDone /\ ~SealDone'
    BY <2>1, <2>2 DEF SameRecord, NotSealed, SealDone, Free
  <2> QED
    BY <2>1, <2>3, RolloutsLeft DEF OffPcs
<1>5. CASE RecoverAborts \/ RecoverPrepares
  <2>1. /\ pc \in {"abort", "prepare"} /\ pc' \in {"prepare", "commit"}
        /\ UNCHANGED <<rollout, ctx, lock>>
        /\ journal' = Aborted \/ \E t : journal' = Prepared(t)
    BY <1>5 DEF RecoverAborts, RecoverPrepares, Recover
  <2>2. lock = Free
    BY <2>1 DEF IInv, Control, Off, OffPcs
  <2>3. SameRecord
    <3>1. CASE journal' = Aborted
      BY <3>1 DEF SameRecord, Aborted, IInv, RunTypes, Journals
    <3>2. ASSUME NEW t, journal' = Prepared(t) PROVE SameRecord
      BY <3>2, PreparedSame DEF SameRecord
    <3> QED
      BY <2>1, <3>1, <3>2
  <2>4. NotSealed /\ ~SealDone /\ ~SealDone'
    BY <2>1, <2>2 DEF NotSealed, SealDone, Free
  <2> QED
    BY <2>1, <2>3, <2>4, RolloutsLeft DEF OffPcs
<1>6. CASE RecoverCommits
  <2> DEFINE t == Open
             b == journal.episode \in journal.sealed
  <2>1. b \in BOOLEAN
    OBVIOUS
  <2>2. journal' = Committed(b) /\ pc = "commit" /\ pc' = "rollouts" /\ UNCHANGED <<rollout, ctx, lock>>
    BY <1>6, Zenon DEF RecoverCommits, Recover
  <2> HIDE DEF b
  <2>3. /\ t \in Txs /\ t.to = "FAULT_LOCKED" /\ t.kind = "none" /\ lock = Free /\ ctx = NoCtx
    BY <2>2 DEF IInv, Control, Off, OffPcs, Open, Context, IdlePcs
  <2>4. OpenFits(journal, t)
    BY <2>3, NoTxIsNone DEF IInv, OnDisk, Open
  <2>5. SealedOnce(journal')
    BY <2>1, <2>2, <2>3, <2>4, StaysSealed DEF EPISODE_STATES
  <2>6. /\ journal'.sealed = journal.sealed
        /\ journal'.complete = (IF t.res /\ b THEN journal.complete \cup {t.ep} ELSE journal.complete)
    BY <2>1, <2>2, <2>3, CommittedSeals
  <2>7. t.res => t.ep = journal.episode
    BY <2>3, <2>4 DEF OpenFits, EPISODE_STATES, MOTION_STATES
  <2>8. ~SealDone' /\ ctx'.sealed # "complete"
    BY <2>2, <2>3 DEF SealDone, Free, NoCtx
  <2> HIDE DEF t
  <2>9. journal'.complete \subseteq journal'.sealed
    BY <2>6, <2>7 DEF b, RolloutsKept
  <2> QED
    BY <2>2, <2>5, <2>6, <2>8, <2>9 DEF RolloutsKept, OffPcs
<1>7. CASE RecoverRollouts
  <2>1. /\ rollout' = [e \in Eps |-> IF Abandoned(e) THEN "incomplete" ELSE rollout[e]]
        /\ pc = "rollouts" /\ pc' = "rest" /\ UNCHANGED <<journal, ctx, lock>>
    BY <1>7 DEF RecoverRollouts
  <2>2. lock = Free /\ ctx = NoCtx /\ journal.sealed \in SUBSET Eps
    BY <2>1 DEF IInv, RunTypes, Journals, Control, Off, OffPcs, Context, IdlePcs
  <2>3. ~SealDone' /\ ctx'.sealed # "complete"
    BY <2>1, <2>2 DEF SealDone, Free, NoCtx
  <2>4. \A e \in Eps : rollout'[e] = "complete" <=> rollout[e] = "complete" /\ e \in journal.sealed
    BY <2>1 DEF Abandoned
  <2> QED
    BY <2>1, <2>2, <2>3, <2>4 DEF RolloutsKept
<1> QED
  BY <1>1, <1>2, <1>3, <1>4, <1>5, <1>6, <1>7 DEF Process

LEMMA KeepsRollouts == ASSUME IInv, RolloutsKept, [Next]_vars PROVE RolloutsKept'
<1>1. CASE UNCHANGED vars
  <2>1. UNCHANGED <<journal, rollout, pc, lock, got, ctx>>
    BY <1>1 DEF vars
  <2>2. SameRecord /\ NotSealed /\ (SealDone' <=> SealDone)
    BY <2>1 DEF SameRecord, NotSealed, SealDone
  <2> QED
    BY <2>1, <2>2, RolloutsLeft
<1> QED
  BY <1>1, LoopKeepsRollouts, TransactionKeepsRollouts, OperatorKeepsRollouts, ProcessKeepsRollouts
     DEF Next

\* A result says "complete" only of a rollout that is; at rest the recorder's
\* complete rollouts are exactly the ones whose seal was committed, crashes
\* between the two included (_finish_forward, _finish_reset, _recover_rollouts).
THEOREM RolloutsTrue == Spec => []RolloutsAgree
<1>1. Init => RolloutsKept
  BY DEF Init, RolloutsKept, SealedOnce, SealDone, Blank, NoCtx, Free
<1>2. IInv /\ RolloutsKept /\ [Next]_vars => RolloutsKept'
  BY KeepsRollouts
<1>3. IInv /\ RolloutsKept => RolloutsAgree
  <2> SUFFICES ASSUME IInv, RolloutsKept PROVE RolloutsAgree
    OBVIOUS
  <2>1. journal.sealed \in SUBSET Eps
    BY DEF IInv, RunTypes, Journals
  <2>2. pc = "rest" => ~SealDone
    <3>1. lock.by = "loop" => pc \in TxPcs
      BY DEF IInv, Control, Holder
    <3> QED
      BY <3>1 DEF SealDone, TxPcs
  <2> QED
    BY <2>1, <2>2 DEF RolloutsKept, RolloutsAgree, OffPcs
<1> QED
  BY <1>1, <1>2, <1>3, Invariant, PTL DEF Spec

-----------------------------------------------------------------------------
(* The run as EvaluationRun sees it.                                       *)

\* The home that follows a forward episode is that of the latest episode.
HomeHere ==
    pc \in {"sealed", "counted", "homed"} /\ journal.state = "ROBOT_HOME" => ctx.ep = journal.episode

LEMMA LoopKeepsHome == ASSUME IInv, HomeHere, Loop PROVE HomeHere'
<1> SUFFICES ASSUME pc' \in {"sealed", "counted", "homed"}, journal'.state = "ROBOT_HOME"
             PROVE  ctx'.ep = journal'.episode
  BY DEF HomeHere
<1>1. journal.state = "ROBOT_HOME" /\ journal'.episode = journal.episode
  BY LoopLeaves DEF Leaves, SameRecord
<1>2. LoopAt(pc) /\ pc \in Pcs /\ pc \notin OffPcs \cup {"raised"}
  BY LoopRuns DEF LoopAt, IInv, RunTypes
<1>3. At(pc, "ROBOT_HOME", got, ctx.ep.role) /\ Context(pc, got, ctx)
  BY <1>1, <1>2, LoopFacts
<1>4. ctx.ep.role \in Roles \/ pc \notin EpisodePcs
  BY <1>3 DEF Context, Eps
<1>5. pc \in {"sealed", "counted", "homed", "faulting", "contain"}
  BY <1>2, <1>3, <1>4 DEF At, Pcs, OffPcs, HOLD_STATES, SceneStates, MotionOf, EpisodePcs, Roles
<1>6. CASE Sealed \/ Counted \/ Homed
  <2>1. ~Homed
    <3>1. Homed => pc' \in {"faulting", "top"}
      BY DEF Homed, Faults
    <3> QED
      BY <3>1
  <2>2. CASE Sealed
    BY <1>1, <2>2 DEF Sealed, Faults, LoopAt, HomeHere
  <2>3. CASE Counted
    <3>1. ASSUME NEW reason, NEW cmd, WaitsInPlace(reason, cmd) PROVE pc' \in {"top", "contain"}
      BY <3>1 DEF WaitsInPlace, Asks
    <3>2. ctx' = ctx /\ pc = "counted"
      BY <2>3, <3>1, CountedCases DEF Moves, Faults, LoopAt
    <3> QED
      BY <1>1, <3>2 DEF HomeHere
  <2> QED
    BY <1>6, <2>1, <2>2, <2>3
<1>7. CASE Faulting \/ Contain
  BY <1>7 DEF Faulting, Asks, Contain
<1>8. ~(Top \/ Rest \/ Preflight \/ Decide \/ Assessed \/ NotStarted \/ Started)
  BY <1>5, TopCases, DecideCases, StartedCases DEF Rest, Preflight, Assessed, NotStarted, LoopAt
<1>9. ~(DriveChecks \/ RecordsVerdict \/ Step \/ Stopping \/ Drops \/ Finalizing \/ Finalized)
  BY <1>5 DEF DriveChecks, RecordsVerdict, Step, Stopping, Drops, Finalizing, Finalized, LoopAt
<1>10. ~(Verifying \/ Verified \/ Concluded \/ ResetSealed \/ Faulted)
  BY <1>5, VerifiedCases, ResetSealedCases DEF Verifying, Concluded, Faulted, LoopAt
<1> QED
  BY <1>6, <1>7, <1>8, <1>9, <1>10, Zenon DEF Loop

LEMMA TransactionKeepsHome == ASSUME IInv, HomeHere, Transaction PROVE HomeHere'
<1>1. pc' = pc /\ ctx \in Contexts /\ journal \in Journals
  BY DEF Transaction, HomeStarts, Acts, Acknowledges, Commits, Aborts, ConsumesStops, ResumeClears,
     IInv, RunTypes
<1>2. CASE Commits
  <2> SUFFICES ASSUME pc \in {"sealed", "counted", "homed"}, journal'.state = "ROBOT_HOME"
               PROVE  ctx'.ep = journal'.episode
    BY <1>1 DEF HomeHere
  <2>1. Open \in Txs /\ OpenFits(journal, Open) /\ Open.to = "ROBOT_HOME" /\ lock.by = "loop"
    BY <1>2, CommitMoves
  <2>2. /\ lock.at = "acknowledged" /\ ctx' = (IF Open.res THEN [ctx EXCEPT !.written = TRUE] ELSE ctx)
    BY <1>2, CommitsAre
  <2>3. /\ Leg(pc, journal.state, ctx, Open) /\ Context(pc, got, ctx) /\ pc \in TxPcs
        /\ Open.kind = "recorder_seal" => Open.ep \in Eps
    BY <1>2, <2>1, <2>2, TxFacts, HeldFacts DEF TxStages, Seal
  <2>4. Open.ep = ctx.ep /\ ctx.ep \in Eps
    BY <2>3 DEF Leg, TxPcs, Context, EpisodePcs, ForwardPcs
  <2>5. journal'.episode = Open.ep
    <3>1. PICK b \in BOOLEAN : journal' = Committed(b)
      BY <1>2, CommitsAre
    <3> QED
      BY <2>1, <2>3, <2>4, <3>1, CommittedIs, NoEpIsNone
  <2> QED
    BY <1>1, <2>2, <2>4, <2>5 DEF Contexts
<1>3. CASE ~Commits
  <2>1. ctx'.ep = ctx.ep
    <3>1. CASE Acts
      <4>1. ctx' = [ctx EXCEPT !.sealed = rollout'[Open.ep]] \/ ctx' = ctx
        BY <3>1 DEF Acts
      <4> QED
        BY <1>1, <4>1 DEF Contexts
    <3> QED
      BY <1>3, <3>1 DEF Transaction, HomeStarts, Acknowledges, Aborts, ConsumesStops, ResumeClears
  <2>2. journal' \in {journal, Aborted} \/ journal' = [journal EXCEPT !.ack = journal'.ack]
    <3>1. CASE Acknowledges
      <4> DEFINE ack == IF got \in {"yes", "unknown"} THEN got ELSE "no"
      <4>1. journal' = [journal EXCEPT !.ack = ack]
        BY <3>1 DEF Acknowledges
      <4> HIDE DEF ack
      <4> QED
        BY <1>1, <4>1 DEF Journals
    <3> QED
      BY <1>3, <3>1 DEF Transaction, HomeStarts, Acts, Aborts, ConsumesStops, ResumeClears
  <2>3. journal'.state = journal.state /\ journal'.episode = journal.episode
    BY <1>1, <2>2 DEF Aborted, Journals
  <2> QED
    BY <1>1, <2>1, <2>3 DEF HomeHere
<1> QED
  BY <1>2, <1>3

\* What the operator's threads and the process leave of the record.
LEMMA ApartRecord ==
    ASSUME IInv, Operator \/ (Process /\ ~RecoverCommits)
    PROVE  SameRecord /\ token' \in {token, NoToken} /\ (pc' = pc \/ pc' \notin EpisodePcs)
<1>1. \/ journal' \in {journal, Aborted}
      \/ \E t : journal' = Prepared(t)
  <2>1. ASSUME NEW by, NEW t, Begin(by, t) PROVE journal' = journal \/ journal' = Prepared(t)
    BY <2>1 DEF Begin
  <2>2. ASSUME NEW c \in StopIds, StopChecks(c) \/ StopRegisters(c) \/ StopReturns(c)
        PROVE  journal' = journal
    BY <2>2 DEF StopChecks, StopRegisters, StopReturns
  <2>3. ASSUME NEW c \in StopIds, StopCompletes(c) PROVE \E t : journal' = journal \/ journal' = Prepared(t)
    <3> DEFINE t == Tx("COMPLETED", "operator_stop", "none", c, NoEp)
    <3>1. Begin(c, t)
      BY <2>3 DEF StopCompletes
    <3> HIDE DEF t
    <3> QED
      BY <2>1, <3>1
  <2>4. CASE Resume
    <3> DEFINE t == Tx("PREFLIGHT", "human_resumed", "none", OtherId, NoEp)
    <3>1. Begin("resume", t)
      BY <2>4 DEF Resume
    <3> HIDE DEF t
    <3> QED
      BY <2>1, <3>1
  <2>5. EpisodeVerdict => journal' = journal
    BY DEF EpisodeVerdict
  <2>6. CASE Operator
    BY <2>2, <2>3, <2>4, <2>5, <2>6 DEF Operator
  <2>7. CASE Process /\ ~RecoverCommits
    <3>1. RecoverPrepares => \E t : journal' = Prepared(t)
      BY DEF RecoverPrepares, Recover
    <3>2. RecoverAborts => journal' = Aborted
      BY DEF RecoverAborts, Recover
    <3> QED
      BY <2>7, <3>1, <3>2 DEF Process, Raises, Halts, Crash, Restart, RecoverRollouts
  <2> QED
    BY <2>6, <2>7
<1>2. SameRecord
  <2>1. CASE journal' = journal
    BY <2>1 DEF SameRecord
  <2>2. CASE journal' = Aborted
    BY <2>2 DEF SameRecord, Aborted, IInv, RunTypes, Journals
  <2>3. ASSUME NEW t, journal' = Prepared(t) PROVE SameRecord
    BY <2>3, PreparedSame DEF SameRecord
  <2> QED
    BY <1>1, <2>1, <2>2, <2>3
<1>3. token' \in {token, NoToken} /\ (pc' = pc \/ pc' \notin EpisodePcs)
  <2>1. CASE Operator
    BY <2>1 DEF Operator, StopChecks, StopRegisters, StopReturns, StopCompletes, Resume, Begin, Revoked,
       EpisodeVerdict
  <2>2. CASE Process
    BY <2>2 DEF Process, Raises, Halts, Crash, Restart, RecoverAborts, RecoverPrepares, Recover,
       RecoverCommits, RecoverRollouts, EpisodePcs, ForwardPcs, ResetPcs
  <2> QED
    BY <2>1, <2>2
<1> QED
  BY <1>2, <1>3

LEMMA KeepsHome == ASSUME IInv, HomeHere, [Next]_vars PROVE HomeHere'
<1>1. CASE Operator \/ (Process /\ ~RecoverCommits)
  <2>1. SameRecord /\ (pc' = pc \/ pc' \notin EpisodePcs)
    BY <1>1, ApartRecord
  <2>2. CASE pc' \notin EpisodePcs
    BY <2>2 DEF HomeHere, EpisodePcs, ForwardPcs
  <2>3. CASE pc' = pc /\ pc \in EpisodePcs
    <3>1. ctx' = ctx
      <4>1. CASE Operator
        BY <4>1 DEF Operator, StopChecks, StopRegisters, StopReturns, StopCompletes, Resume, EpisodeVerdict
      <4>2. CASE Process /\ ~RecoverCommits
        BY <2>3, <4>2 DEF Process, Raises, Halts, Crash, Restart, RecoverAborts, RecoverPrepares, Recover,
           RecoverRollouts, EpisodePcs, ForwardPcs, ResetPcs
      <4> QED
        BY <1>1, <4>1, <4>2
    <3> QED
      BY <2>1, <2>3, <3>1 DEF HomeHere, SameRecord
  <2> QED
    BY <2>1, <2>2, <2>3
<1>2. CASE RecoverCommits
  BY <1>2 DEF RecoverCommits, Recover, HomeHere
<1>3. CASE UNCHANGED vars
  BY <1>3 DEF vars, HomeHere
<1> QED
  BY <1>1, <1>2, <1>3, LoopKeepsHome, TransactionKeepsHome DEF Next


\* The steps of EvaluationRun, on what the orchestrator's variables say.
RunSame == RunMode' = RunMode /\ RunLife' = RunLife /\ journal'.episode = journal.episode
NoneRunning == \A e \in Eps : RunLife[e] # "running"

LEMMA RunStays ==
    ASSUME RunSame, RunMoving' = RunMoving
    PROVE  UNCHANGED Run!vars
BY DEF Run!vars, RunSame

LEMMA RunStarts ==
    ASSUME NEW e \in Eps, RunMode = "going", RunMoving = NoEp, NoneRunning, RunLife[e] = "new",
           RunLife' = [RunLife EXCEPT ![e] = "running"], journal'.episode = e,
           RunMode' = RunMode, RunMoving' = RunMoving
    PROVE  Run!Next
BY DEF Run!Next, Run!Start, Run!NoneRuns, NoneRunning

LEMMA RunGrants ==
    ASSUME RunMode = "going", RunMoving = NoEp, journal.episode # NoEp,
           RunMoving' = journal.episode, RunSame
    PROVE  Run!Next
BY DEF Run!Next, Run!Grant, RunSame

LEMMA RunWithdraws ==
    ASSUME RunMoving # NoEp, RunMoving' = NoEp, RunSame
    PROVE  Run!Next
BY DEF Run!Next, Run!Withdraw, RunSame

LEMMA RunCloses ==
    ASSUME RunMode = "going", RunMoving = NoEp, journal.episode # NoEp,
           RunLife[journal.episode] = "running",
           RunLife' = [RunLife EXCEPT ![journal.episode] = "closed"],
           RunMode' \in {"going", "resting"},
           journal'.episode = journal.episode, RunMoving' = RunMoving
    PROVE  Run!Next
BY DEF Run!Next, Run!Close

LEMMA RunMoves ==
    ASSUME RunMoving = NoEp, RunMoving' = NoEp, RunLife' = RunLife,
           journal'.episode = journal.episode,
           \/ RunMode = "going" /\ NoneRunning /\ RunMode' = "resting"
           \/ RunMode = "resting" /\ RunMode' = "going"
           \/ RunMode \in {"going", "resting"} /\ NoneRunning /\ RunMode' = "over"
    PROVE  Run!Next
BY DEF Run!Next, Run!Rest, Run!Resume, Run!End, Run!NoneRuns, NoneRunning

\* A step that leaves the record alone and authorises nothing.
LEMMA RunQuiet ==
    ASSUME IInv, SameRecord, token' \in {token, NoToken}
    PROVE  [Run!Next]_(Run!vars)
<1>1. RunSame
  BY DEF SameRecord, RunSame, RunMode, RunLife
<1>2. RunMoving' = RunMoving \/ (RunMoving # NoEp /\ RunMoving' = NoEp)
  BY DEF RunMoving
<1> QED
  BY <1>1, <1>2, RunStays, RunWithdraws

\* Outside an episode none is running; inside one it is the current one.
LEMMA RunLifeIs ==
    ASSUME IInv
    PROVE  /\ RunLife \in [Eps -> {"new", "running", "closed"}]
           /\ \A e \in Eps :
                /\ RunLife[e] = "new" <=> e \notin journal.begun
                /\ RunLife[e] = "running" <=> e \in journal.begun /\ journal.results[e] = 0
           /\ journal.state \notin EPISODE_STATES => NoneRunning
           /\ journal.state \in EPISODE_STATES =>
                /\ RunMode = "going" /\ journal.episode \in Eps /\ journal.episode # NoEp
                /\ RunLife[journal.episode] = "running"
<1>1. Results(journal)
  BY DEF IInv, OnDisk
<1>2. \A e \in Eps : journal.results[e] \in {0, 1}
  BY <1>1 DEF Results
<1>3. RunLife \in [Eps -> {"new", "running", "closed"}]
  BY DEF RunLife
<1>4. ASSUME NEW e \in Eps
      PROVE  /\ RunLife[e] = "new" <=> e \notin journal.begun
             /\ RunLife[e] = "running" <=> e \in journal.begun /\ journal.results[e] = 0
  BY <1>2, <1>4 DEF RunLife
<1>5. ASSUME journal.state \notin EPISODE_STATES PROVE NoneRunning
  <2>1. \A e \in Eps : e \in journal.begun => journal.results[e] = 1
    BY <1>1, <1>5 DEF Results
  <2> QED
    BY <1>4, <2>1 DEF NoneRunning
<1>6. ASSUME journal.state \in EPISODE_STATES
      PROVE  /\ RunMode = "going" /\ journal.episode \in Eps /\ journal.episode # NoEp
             /\ RunLife[journal.episode] = "running"
  <2>1. RunMode = "going"
    BY <1>6 DEF RunMode, EPISODE_STATES, HUMAN_STATES
  <2>2. journal.episode \in Eps /\ journal.episode \in journal.begun /\ journal.results[journal.episode] = 0
    BY <1>1, <1>6 DEF Results
  <2> QED
    BY <1>4, <2>1, <2>2, NoEpIsNone
<1> QED
  BY <1>3, <1>4, <1>5, <1>6

\* A home is that of the latest episode, and the run goes on meanwhile.
LEMMA HomeStartsRun == ASSUME IInv, HomeHere, HomeStarts PROVE Run!Next
<1>1. /\ lock.by = "loop" /\ lock.at = "prepared" /\ Open.kind = "home" /\ journal' = journal
      /\ token' = [kind |-> "home", ep |-> Open.ep]
  BY DEF HomeStarts
<1>2. /\ Open.ep \in Eps /\ Open \in Txs /\ Leg(pc, journal.state, ctx, Open) /\ OpenFits(journal, Open)
      /\ Context(pc, got, ctx) /\ pc \in TxPcs /\ token.kind = "none"
  BY <1>1, TxFacts, HeldFacts DEF TxStages, NON_IDEMPOTENT_KINDS
<1>3. ctx.ep.role \in Roles \/ pc \notin EpisodePcs
  BY <1>2 DEF Context, Eps
<1>4. /\ pc = "homed" /\ Open.ep = ctx.ep /\ Open.to \notin EPISODE_STATES
      /\ journal.state \in {"ROBOT_HOME", "RESET_FINALIZE"}
  BY <1>1, <1>2, <1>3 DEF Leg, TxPcs, EpisodePcs, Roles, EPISODE_STATES, Seal
<1>5. Open.ep = journal.episode /\ RunMode = "going"
  BY <1>4, <1>2 DEF HomeHere, OpenFits, EPISODE_STATES, RunMode, HUMAN_STATES
<1>6. token = NoToken /\ RunMoving = NoEp
  BY <1>2 DEF IInv, RunTypes, Tokens, NoToken, RunMoving
<1>7. token' # NoToken /\ RunMoving' = journal.episode
  <2>1. token'.kind # NoToken.kind
    BY <1>1 DEF NoToken
  <2>2. token' # NoToken /\ token'.ep = Open.ep
    BY <1>1, <2>1
  <2> QED
    BY <1>5, <2>2 DEF RunMoving
<1>8. RunSame /\ journal.episode # NoEp
  BY <1>1, <1>2, <1>5, NoEpIsNone DEF RunSame, RunMode, RunLife
<1> QED
  BY <1>5, <1>6, <1>7, <1>8, RunGrants

\* The episode's motion is that of the episode that has just begun.
LEMMA StartedRun == ASSUME IInv, Started PROVE [Run!Next]_(Run!vars)
<1>1. SameRecord /\ LoopAt("started")
  BY StartedOn DEF Leaves, Started
<1>2. CASE token' = token
  BY <1>1, <1>2, RunQuiet
<1>3. CASE token' = [kind |-> "policy_steps", ep |-> ctx.ep] /\ got = "yes"
  <2>1. /\ At("started", journal.state, "yes", ctx.ep.role) /\ Context("started", got, ctx)
        /\ Here("started", journal, ctx) /\ lock.by # "loop"
    BY <1>1, <1>3, LoopFacts
  <2>2. ctx.ep \in Eps /\ journal.state \in EPISODE_STATES
    BY <2>1 DEF Context, EpisodePcs, At, MotionOf, EPISODE_STATES
  <2>3. ctx.ep = journal.episode
    BY <2>1, <2>2 DEF Here, EpisodePcs
  <2>4. /\ token \in Tokens /\ token.kind # "home"
        /\ token.kind = "policy_steps" => token.ep = journal.episode
    BY <2>1 DEF IInv, RunTypes, Fence
  <2>5. token = NoToken \/ token = token'
    <3>1. token # NoToken => token = [kind |-> token.kind, ep |-> token.ep]
                             /\ token.kind \in {"policy_steps", "home"}
      BY <2>4 DEF Tokens
    <3> QED
      BY <1>3, <2>3, <2>4, <3>1
  <2>6. CASE token = NoToken
    <3>1. token'.kind # NoToken.kind
      BY <1>3 DEF NoToken
    <3>2. token' # NoToken /\ token'.ep = ctx.ep
      BY <1>3, <3>1
    <3>3. RunMoving' = journal.episode /\ RunMoving = NoEp
      BY <2>3, <2>6, <3>2 DEF RunMoving
    <3>4. RunSame
      BY <1>1 DEF SameRecord, RunSame, RunMode, RunLife
    <3> QED
      BY <2>2, <3>3, <3>4, RunLifeIs, RunGrants
  <2> QED
    BY <1>2, <2>5, <2>6
<1> QED
  BY <1>2, <1>3, StartedOn

LEMMA LoopRun == ASSUME IInv, Loop PROVE [Run!Next]_(Run!vars)
<1>1. SameRecord
  BY LoopLeaves DEF Leaves
<1>2. ~Started => token' \in {token, NoToken}
  BY IdleOn, FinishOn, ResetOn, FaultOn, DriveOn, RecordsOn, StepOn, Zenon DEF Loop, Onward
<1> QED
  BY <1>1, <1>2, StartedRun, RunQuiet


LEMMA LifeChanges ==
    ASSUME NEW e \in Eps, NEW s, RunLife'[e] = s, \A f \in Eps \ {e} : RunLife'[f] = RunLife[f]
    PROVE  RunLife' = [RunLife EXCEPT ![e] = s]
<1>1. RunLife = [f \in Eps |-> RunLife[f]] /\ RunLife' = [f \in Eps |-> RunLife'[f]]
  BY DEF RunLife
<1> QED
  BY <1>1

\* A commit, on what EvaluationRun sees: t goes on from the record.
LEMMA CommitRun ==
    ASSUME IInv, NEW b \in BOOLEAN, journal' = Committed(b), token' = token, token = NoToken,
           Open \in Txs, OpenFits(journal, Open),
           Open.kind = "recorder_seal" => Open.ep \in Eps,
           Open.ep \in Eps /\ Open.to \notin MOTION_STATES => Open.ep = journal.episode,
           journal.state \in EPISODE_STATES => Open.to # "COMPLETED",
           journal.state \notin HUMAN_STATES => Open.to # "PREFLIGHT"
    PROVE  [Run!Next]_(Run!vars)
<1> DEFINE t == Open
<1>1. /\ journal \in Journals /\ Results(journal) /\ t.ep \in EpOrNone /\ t.to \in AERI_STATES
      /\ t.res \in BOOLEAN
  BY DEF IInv, RunTypes, OnDisk, Txs
<1>2. /\ journal'.state = t.to
      /\ journal'.episode = (IF t.ep = NoEp THEN journal.episode ELSE t.ep)
  BY CommittedIs
<1>3. /\ journal'.begun = (IF t.to \in MOTION_STATES THEN journal.begun \cup {t.ep} ELSE journal.begun)
      /\ journal'.results = (IF t.res THEN [journal.results EXCEPT ![t.ep] = journal.results[t.ep] + 1]
                             ELSE journal.results)
  BY CommittedSeals
<1>4. RunMoving = NoEp /\ RunMoving' = NoEp
  BY DEF RunMoving
<1>5. OpenFits(journal, t) /\ (t.ep \in Eps /\ t.to \notin MOTION_STATES => t.ep = journal.episode)
  OBVIOUS
<1>6. /\ journal.state \in EPISODE_STATES => t.to # "COMPLETED"
      /\ journal.state \notin HUMAN_STATES => t.to # "PREFLIGHT"
  OBVIOUS
<1> HIDE DEF t
<1>7. CASE t.to \in MOTION_STATES
  <2>1. /\ t.ep \in Eps /\ t.ep \notin journal.begun /\ journal.state \in SceneStates /\ ~t.res
    BY <1>5, <1>7 DEF OpenFits
  <2>2. /\ journal'.begun = journal.begun \cup {t.ep} /\ journal'.results = journal.results
        /\ journal'.episode = t.ep
    BY <1>2, <1>3, <1>7, <2>1, NoEpIsNone
  <2>3. journal.state \notin EPISODE_STATES /\ RunMode = "going" /\ RunMode' = "going"
    BY <1>2, <1>7, <2>1 DEF SceneStates, EPISODE_STATES, MOTION_STATES, RunMode, HUMAN_STATES
  <2>4. journal.results[t.ep] = 0
    BY <1>1, <2>1 DEF Results
  <2>5. RunLife' = [RunLife EXCEPT ![t.ep] = "running"]
    <3>1. RunLife'[t.ep] = "running"
      BY <2>1, <2>2, <2>4 DEF RunLife
    <3>2. \A f \in Eps \ {t.ep} : RunLife'[f] = RunLife[f]
      BY <2>2 DEF RunLife
    <3> QED
      BY <2>1, <3>1, <3>2, LifeChanges
  <2> QED
    BY <1>4, <2>1, <2>2, <2>3, <2>5, RunLifeIs, RunStarts
<1>8. CASE t.to \notin MOTION_STATES
  <2>1. journal'.episode = journal.episode /\ journal'.begun = journal.begun
    BY <1>1, <1>2, <1>3, <1>5, <1>8 DEF EpOrNone
  <2>2. CASE t.res
    <3>1. journal.state \in EPISODE_STATES /\ t.ep = journal.episode /\ t.to \notin EPISODE_STATES
      BY <1>5, <1>8, <2>2 DEF OpenFits
    <3>2. /\ journal.episode \in Eps /\ journal.episode \in journal.begun
          /\ journal.results[journal.episode] = 0 /\ journal.results \in [Eps -> Nat]
      BY <1>1, <3>1 DEF Results, Journals
    <3>3. journal'.results = [journal.results EXCEPT ![journal.episode] = journal.results[journal.episode] + 1]
      BY <1>3, <2>2, <3>1
    <3>4. RunLife' = [RunLife EXCEPT ![journal.episode] = "closed"]
      <4>1. journal'.results[journal.episode] > 0
        BY <3>2, <3>3
      <4>2. \A f \in Eps \ {journal.episode} : journal'.results[f] = journal.results[f]
        BY <3>2, <3>3
      <4>3. RunLife'[journal.episode] = "closed"
        BY <2>1, <3>2, <4>1 DEF RunLife
      <4>4. \A f \in Eps \ {journal.episode} : RunLife'[f] = RunLife[f]
        BY <2>1, <4>2 DEF RunLife
      <4> QED
        BY <3>2, <4>3, <4>4, LifeChanges
    <3>5. RunMode' \in {"going", "resting"}
      BY <1>2, <1>6, <3>1 DEF RunMode
    <3> QED
      BY <1>4, <2>1, <3>1, <3>4, <3>5, RunLifeIs, RunCloses
  <2>3. CASE ~t.res
    <3>1. RunLife' = RunLife
      BY <1>3, <2>1, <2>3 DEF RunLife
    <3>2. CASE t.to \in EPISODE_STATES
      <4>1. journal.state \in EPISODE_STATES
        BY <1>5, <1>8, <3>2 DEF OpenFits
      <4>2. RunMode = "going" /\ RunMode' = "going"
        BY <1>2, <3>2, <4>1 DEF RunMode, EPISODE_STATES, HUMAN_STATES
      <4> QED
        BY <1>4, <2>1, <3>1, <4>2, RunStays DEF RunSame
    <3>3. CASE t.to \notin EPISODE_STATES
      <4>1. journal.state \notin EPISODE_STATES /\ journal.state # "COMPLETED" /\ NoneRunning
        BY <1>5, <2>3, <3>3, RunLifeIs DEF OpenFits
      <4>2. RunMode \in {"going", "resting"} /\ RunMode' \in {"going", "resting", "over"}
        BY <4>1 DEF RunMode
      <4>3. CASE RunMode' = RunMode
        BY <1>4, <2>1, <3>1, <4>3, RunStays DEF RunSame
      <4>4. CASE RunMode' # RunMode
        BY <1>4, <2>1, <3>1, <4>1, <4>2, <4>4, RunMoves
      <4> QED
        BY <4>3, <4>4
    <3> QED
      BY <3>2, <3>3
  <2> QED
    BY <1>1, <2>2, <2>3
<1> QED
  BY <1>7, <1>8

LEMMA CommitsRun == ASSUME IInv, HomeHere, Commits PROVE [Run!Next]_(Run!vars)
<1>1. PICK b \in BOOLEAN : journal' = Committed(b)
  BY CommitsAre
<1>2. lock.at = "acknowledged" /\ lock.by # "nobody" /\ token' = token
  BY CommitsAre
<1>3. Open \in Txs /\ OpenFits(journal, Open)
  BY CommitMoves
<1>4. token = NoToken
  BY <1>2, HeldFacts DEF IInv, RunTypes, Tokens, NoToken
<1>5. CASE lock.by = "loop"
  <2>1. /\ Leg(pc, journal.state, ctx, Open) /\ Context(pc, got, ctx) /\ pc \in TxPcs
        /\ Open.kind = "recorder_seal" => Open.ep \in Eps
    BY <1>2, <1>5, TxFacts, HeldFacts DEF TxStages, Seal
  <2>2. ctx.ep.role \in Roles \/ pc \notin EpisodePcs
    BY <2>1 DEF Context, Eps
  <2>3. Open.to # "PREFLIGHT" /\ (journal.state \in EPISODE_STATES => Open.to # "COMPLETED")
    BY <2>1, <2>2 DEF Leg, TxPcs, EpisodePcs, Roles, EPISODE_STATES, SceneStates, MotionOf
  <2>4. ASSUME Open.ep \in Eps, Open.to \notin MOTION_STATES PROVE Open.ep = journal.episode
    <3>1. CASE Open.to \in EPISODE_STATES \/ journal.state \in EPISODE_STATES
      BY <1>3, <2>4, <3>1 DEF OpenFits
    <3>2. CASE Open.to \notin EPISODE_STATES /\ journal.state \notin EPISODE_STATES
      <4>1. pc = "homed" /\ journal.state = "ROBOT_HOME" /\ Open.ep = ctx.ep
        BY <2>1, <2>2, <2>4, <3>2, NoEpIsNone
           DEF Leg, TxPcs, EpisodePcs, Roles, EPISODE_STATES, MotionOf
      <4> QED
        BY <4>1 DEF HomeHere
    <3> QED
      BY <3>1, <3>2
  <2> QED
    BY <1>1, <1>2, <1>3, <1>4, <2>1, <2>3, <2>4, CommitRun
<1>6. CASE lock.by # "loop"
  <2>1. /\ Open.kind = "none" /\ Open.ep \notin Eps /\ journal.state \in HUMAN_STATES
        /\ Open.to \in {"PREFLIGHT", "COMPLETED"}
    BY <1>6, CommitMoves, NoEpIsNone DEF HUMAN_STATES
  <2>2. journal.state \notin EPISODE_STATES
    BY <2>1 DEF HUMAN_STATES, EPISODE_STATES
  <2> QED
    BY <1>1, <1>2, <1>3, <1>4, <2>1, <2>2, CommitRun
<1> QED
  BY <1>5, <1>6

LEMMA RecoverCommitsRun == ASSUME IInv, RecoverCommits PROVE [Run!Next]_(Run!vars)
<1> DEFINE b == journal.episode \in journal.sealed
<1>1. b \in BOOLEAN
  OBVIOUS
<1>2. journal' = Committed(b) /\ pc = "commit" /\ token' = token
  BY Zenon DEF RecoverCommits, Recover
<1> HIDE DEF b
<1>3. /\ Open \in Txs /\ Open.to = "FAULT_LOCKED" /\ Open.kind = "none" /\ token = NoToken
  BY <1>2 DEF IInv, Control, Off, OffPcs, Open
<1>4. OpenFits(journal, Open)
  BY <1>3, NoTxIsNone DEF IInv, OnDisk, Open
<1>5. Open.ep \in Eps => Open.ep = journal.episode
  BY <1>2, NoEpIsNone DEF IInv, Control, Off, Open
<1> QED
  BY <1>1, <1>2, <1>3, <1>4, <1>5, CommitRun


LEMMA StepRun == ASSUME IInv, HomeHere, [Next]_vars PROVE [Run!Next]_(Run!vars)
<1>1. CASE Loop
  BY <1>1, LoopRun
<1>2. CASE Transaction
  <2>1. CASE HomeStarts
    BY <2>1, HomeStartsRun
  <2>2. CASE Commits
    BY <2>2, CommitsRun
  <2>3. CASE Acts \/ Acknowledges \/ Aborts \/ ConsumesStops \/ ResumeClears
    <3>1. journal \in Journals
      BY DEF IInv, RunTypes
    <3>2. token' \in {token, NoToken}
      BY <2>3 DEF Acts, Acknowledges, Aborts, ConsumesStops, ResumeClears
    <3>3. SameRecord
      <4>1. CASE Acknowledges
        <5> DEFINE ack == IF got \in {"yes", "unknown"} THEN got ELSE "no"
        <5>1. journal' = [journal EXCEPT !.ack = ack]
          BY <4>1 DEF Acknowledges
        <5> HIDE DEF ack
        <5> QED
          BY <3>1, <5>1 DEF SameRecord, Journals
      <4>2. CASE Aborts
        BY <3>1, <4>2 DEF Aborts, Aborted, SameRecord, Journals
      <4>3. CASE Acts \/ ConsumesStops \/ ResumeClears
        BY <4>3 DEF Acts, ConsumesStops, ResumeClears, SameRecord
      <4> QED
        BY <2>3, <4>1, <4>2, <4>3
    <3> QED
      BY <3>2, <3>3, RunQuiet
  <2> QED
    BY <1>2, <2>1, <2>2, <2>3 DEF Transaction
<1>3. CASE Operator \/ (Process /\ ~RecoverCommits)
  BY <1>3, ApartRecord, RunQuiet
<1>4. CASE RecoverCommits
  BY <1>4, RecoverCommitsRun
<1>5. CASE UNCHANGED vars
  <2>1. UNCHANGED <<journal, token>>
    BY <1>5 DEF vars
  <2> QED
    BY <2>1, RunQuiet DEF SameRecord
<1> QED
  BY <1>1, <1>2, <1>3, <1>4, <1>5 DEF Next

\* The orchestrator keeps the promise of EvaluationRun, step by step: its
\* transactions, the operator's commands, exceptions, crashes and restarts
\* are one of its actions or leave what it sees alone.
THEOREM Implements == Spec => ImplementsRun
<1>1. Init => Run!Init
  <2> SUFFICES ASSUME Init PROVE Run!Init
    OBVIOUS
  <2>1. journal.state = "PREFLIGHT" /\ journal.begun = {} /\ journal.episode = NoEp /\ token = NoToken
    BY DEF Init, Blank
  <2>2. RunMode = "going" /\ RunLife = [e \in Eps |-> "new"] /\ RunMoving = NoEp
    BY <2>1 DEF RunMode, RunLife, RunMoving, HUMAN_STATES
  <2> QED
    BY <2>1, <2>2 DEF Run!Init
<1>2. Init => HomeHere
  BY DEF Init, HomeHere
<1>3. IInv /\ HomeHere /\ [Next]_vars => HomeHere' /\ [Run!Next]_(Run!vars)
  BY KeepsHome, StepRun
<1> QED
  BY <1>1, <1>2, <1>3, Invariant, PTL DEF Spec, ImplementsRun, Run!Spec

-----------------------------------------------------------------------------
(* The rounds a process counts are the rounds a restart reads back.        *)

\* Where the episode under way may have an operator's verdict, and where it
\* has none yet.
RunningPcs == {"started", "drive", "step", "recording"}
VerdictedPcs == RunningPcs \cup {"stopping", "stopped", "finalizing", "finalized", "sealed"}

\* The round whose commit is on disk and which the loop has not counted yet.
Uncounted == IF pc = "sealed" /\ lock.by # "loop" /\ got = "yes" THEN {ctx.ep} ELSE {}

\* c rounds completed and d replaced are what rounds and discards amount to.
Tallied(rounds, discards, c, d) ==
    LET n == Cardinality(rounds \cap discards)
    IN  /\ d = (IF n < DiscardLimit THEN n ELSE DiscardLimit)
        /\ c = Cardinality(rounds) - d

\* The recorder's answer to the round's seal has come.
SealTold == lock.by = "loop" /\ lock.at \in {"acted", "acknowledged"} /\ got = "yes"

CountsKept ==
    /\ IsFiniteSet(journal.rounds)
    /\ \A e \in journal.rounds : journal.results[e] = 1
    /\ journal.discards \subseteq journal.begun
    /\ pc \in VerdictedPcs => (ctx.verdict = "discard" <=> ctx.ep \in journal.discards)
    /\ pc \in RunningPcs => ctx.verdict = "none"
    /\ pc = "sealed" /\ SealTold => (ctx.sealed = "complete" <=> ctx.ran)
    /\ pc = "sealed" /\ lock.by # "loop" /\ got = "yes" => (ctx.ep \in journal.rounds <=> ctx.ran)
    /\ pc \notin {"down", "raised"} =>
         Tallied(journal.rounds \ Uncounted, journal.discards, completed, discarded)

\* One more sealed round, of an episode e that was not among them.
LEMMA TallyOne ==
    ASSUME NEW rounds, IsFiniteSet(rounds), NEW e, e \notin rounds, NEW discards, NEW c, NEW d,
           Tallied(rounds, discards, c, d)
    PROVE  LET replaced == e \in discards /\ d < DiscardLimit
           IN  Tallied(rounds \cup {e}, discards, IF replaced THEN c ELSE c + 1,
                       IF replaced THEN d + 1 ELSE d)
<1> DEFINE both == rounds \cap discards
<1>1. IsFiniteSet(both)
  BY FS_Subset
<1>2. Cardinality(both) \in Nat /\ Cardinality(rounds) \in Nat
  BY <1>1, FS_CardinalityType
<1>3. Cardinality(rounds \cup {e}) = Cardinality(rounds) + 1
  BY FS_AddElement
<1>4. Cardinality((rounds \cup {e}) \cap discards) =
        IF e \in discards THEN Cardinality(both) + 1 ELSE Cardinality(both)
  <2>1. (rounds \cup {e}) \cap discards = IF e \in discards THEN both \cup {e} ELSE both
    OBVIOUS
  <2>2. e \notin both
    OBVIOUS
  <2>3. Cardinality(both \cup {e}) = Cardinality(both) + 1
    BY <1>1, <2>2, FS_AddElement
  <2> HIDE DEF both
  <2> QED
    BY <2>1, <2>3
<1>5. Tallied(rounds, discards, c, d) =
        /\ d = (IF Cardinality(both) < DiscardLimit THEN Cardinality(both) ELSE DiscardLimit)
        /\ c = Cardinality(rounds) - d
  BY DEF Tallied
<1> HIDE DEF both
<1> QED
  BY <1>2, <1>3, <1>4, <1>5, BoundsAssumption DEF Tallied

\* Nothing that is counted has changed.
CountsSame ==
    /\ UNCHANGED <<completed, discarded>>
    /\ journal'.rounds = journal.rounds /\ journal'.discards = journal.discards
    /\ journal.begun \subseteq journal'.begun
    /\ \A e \in journal.rounds : journal.results[e] = 1 => journal'.results[e] = 1

\* The loop goes on with the episode it has, or starts one.
EpisodeGoesOn ==
    pc' \in VerdictedPcs =>
        \/ pc' = "started" /\ ctx'.verdict = "none" /\ ctx'.ep \notin journal.begun
        \/ /\ pc \in VerdictedPcs /\ ctx'.ep = ctx.ep /\ ctx'.verdict = ctx.verdict
           /\ pc' \in RunningPcs => pc \in RunningPcs

\* A step that counts nothing and neither asks for a seal nor learns of one.
CountsLeft ==
    /\ CountsSame /\ EpisodeGoesOn
    /\ pc' = "sealed" => got' # "yes"
    /\ pc = "sealed" => got # "yes" \/ lock.by = "loop"
    /\ pc' \notin {"down", "raised"} => pc \notin {"down", "raised"}

LEMMA CountsLeftKeeps == ASSUME IInv, CountsKept, CountsLeft PROVE CountsKept'
<1>1. Uncounted = {} /\ Uncounted' = {}
  BY DEF CountsLeft, Uncounted
<1>2. /\ journal'.rounds = journal.rounds /\ journal'.discards = journal.discards
      /\ journal.begun \subseteq journal'.begun
      /\ \A e \in journal.rounds : journal.results[e] = 1 => journal'.results[e] = 1
      /\ completed' = completed /\ discarded' = discarded
  BY DEF CountsLeft, CountsSame
<1>3. pc' \in VerdictedPcs => (ctx'.verdict = "discard" <=> ctx'.ep \in journal.discards)
  BY DEF CountsLeft, EpisodeGoesOn, CountsKept
<1>4. pc' \in RunningPcs => ctx'.verdict = "none"
  BY DEF CountsLeft, EpisodeGoesOn, CountsKept, VerdictedPcs
<1>5. pc' \notin {"down", "raised"} =>
        Tallied(journal'.rounds \ Uncounted', journal'.discards, completed', discarded')
  BY <1>1, <1>2 DEF CountsLeft, CountsKept
<1>6. pc' = "sealed" => got' # "yes"
  BY DEF CountsLeft
<1> QED
  BY <1>2, <1>3, <1>4, <1>5, <1>6 DEF CountsKept, SealTold


LEMMA OnlySealed == ASSUME Loop, pc = "sealed" PROVE Sealed
<1>1. ~(Top \/ Decide \/ Counted \/ Verified \/ ResetSealed \/ Started)
  BY TopCases, DecideCases, CountedCases, VerifiedCases, ResetSealedCases, StartedCases DEF LoopAt
<1>2. ~(Rest \/ Preflight \/ Assessed \/ NotStarted \/ DriveChecks \/ RecordsVerdict \/ Step)
  BY DEF Rest, Preflight, Assessed, NotStarted, DriveChecks, RecordsVerdict, Step, LoopAt
<1>3. ~(Stopping \/ Drops \/ Finalizing \/ Finalized \/ Homed \/ Verifying \/ Concluded)
  BY DEF Stopping, Drops, Finalizing, Finalized, Homed, Verifying, Concluded, LoopAt
<1>4. ~(Faulting \/ Faulted \/ Contain)
  BY DEF Faulting, Faulted, Contain, LoopAt
<1> QED
  BY <1>1, <1>2, <1>3, <1>4, Zenon DEF Loop

\* What the loop does without counting: asks, moves on, gives up.
CountsIdle ==
    /\ UNCHANGED <<completed, discarded>>
    /\ journal'.rounds = journal.rounds /\ journal'.discards = journal.discards
    /\ EpisodeGoesOn
    /\ pc' = "sealed" => got' # "yes"

LEMMA AsksIdle ==
    ASSUME IInv, NEW t, NEW next, Asks(t, next), UNCHANGED <<completed, discarded>>,
           next \in VerdictedPcs =>
             \/ next = "started" /\ ctx'.verdict = "none" /\ ctx'.ep \notin journal.begun
             \/ /\ pc \in VerdictedPcs /\ ctx'.ep = ctx.ep /\ ctx'.verdict = ctx.verdict
                /\ next \notin RunningPcs
    PROVE  CountsIdle
<1>1. /\ got' = "none" /\ pc' \in {next, "contain"}
      /\ journal' = Prepared(t) \/ journal' = journal
  BY DEF Asks, Begin
<1>2. journal'.rounds = journal.rounds /\ journal'.discards = journal.discards
  BY <1>1, PreparedSame
<1>3. EpisodeGoesOn
  BY <1>1 DEF EpisodeGoesOn, VerdictedPcs, RunningPcs
<1> QED
  BY <1>1, <1>2, <1>3 DEF CountsIdle

LEMMA MovesIdle ==
    ASSUME IInv, NEW t, NEW next, Moves(t, next),
           next \in VerdictedPcs => pc \in VerdictedPcs /\ next \notin RunningPcs
    PROVE  CountsIdle
<1>1. Asks(t, next) /\ UNCHANGED <<completed, discarded, ctx>>
  BY DEF Moves, counts
<1> QED
  BY <1>1, AsksIdle

LEMMA FaultsIdle == ASSUME NEW reason, Faults(reason) PROVE CountsIdle
BY DEF Faults, CountsIdle, EpisodeGoesOn, VerdictedPcs, RunningPcs, counts

LEMMA GoesIdle ==
    ASSUME NEW p, Goes(p), p \in {"rest", "top", "preflight", "decide", "assessed"}
    PROVE  CountsIdle
BY DEF Goes, CountsIdle, EpisodeGoesOn, VerdictedPcs, RunningPcs, counts

LEMMA ToHumanIdle == ASSUME IInv, NEW reason, NEW cmd, ToHuman(reason, cmd) PROVE CountsIdle
BY MovesIdle DEF ToHuman, VerdictedPcs, RunningPcs

\* The episode stays what it is.
LEMMA EpisodeIdle ==
    ASSUME UNCHANGED <<journal, completed, discarded>>, ctx'.ep = ctx.ep,
           ctx'.verdict = ctx.verdict, pc \in VerdictedPcs, pc' # "sealed",
           pc' \in RunningPcs => pc \in RunningPcs
    PROVE  CountsIdle
BY DEF CountsIdle, EpisodeGoesOn

\* An episode is over, or none was under way.
LEMMA OutsideIdle ==
    ASSUME UNCHANGED <<journal, completed, discarded>>, pc' \notin VerdictedPcs
    PROVE  CountsIdle
BY DEF CountsIdle, EpisodeGoesOn, VerdictedPcs

\* Before an episode moves.
LEMMA StartIdle ==
    ASSUME IInv, Top \/ Rest \/ Preflight \/ Decide \/ Assessed \/ Started \/ NotStarted
    PROVE  CountsIdle
<1>1. CASE Top
  <2>1. State \in HOLD_STATES \cup SceneStates \cup {"PREFLIGHT"}
    BY <1>1, TopCases, LoopFacts DEF At
  <2> QED
    BY <1>1, <2>1, TopCases, GoesIdle
<1>2. CASE Rest
  BY <1>2, GoesIdle DEF Rest
<1>3. CASE Preflight
  BY <1>3, MovesIdle, FaultsIdle, ToHumanIdle DEF Preflight, VerdictedPcs, RunningPcs
<1>4. CASE Decide
  BY <1>4, DecideCases, ToHumanIdle, MovesIdle, GoesIdle DEF VerdictedPcs, RunningPcs
<1>5. CASE Assessed
  <2>1. ASSUME NEW role \in Roles, NEW reason, Starts(role, reason) PROVE CountsIdle
    <3> DEFINE e == [role |-> role, number |-> numbers[role] + 1]
               t == Tx(IF role = "forward" THEN "FORWARD_ACTIVE" ELSE "RESET_ACTIVE",
                       reason, "policy_steps", NoStop, e)
    <3>1. /\ Asks(t, "started") /\ UNCHANGED <<completed, discarded>>
          /\ ctx' = [NoCtx EXCEPT !.ep = e, !.left = MaxSteps] /\ numbers[role] < MaxNumber[role]
      BY <2>1 DEF Starts
    <3>2. pc # "down"
      BY <1>5 DEF Assessed, LoopAt
    <3>3. e \notin journal.begun
      BY <3>1, <3>2, NewEpisode
    <3>4. ctx'.verdict = "none" /\ ctx'.ep = e
      BY <3>1 DEF NoCtx
    <3> HIDE DEF t, e
    <3> QED
      BY <3>1, <3>3, <3>4, AsksIdle
  <2> QED
    BY <1>5, <2>1, ToHumanIdle DEF Assessed, Roles
<1>6. CASE Started
  <2>1. /\ pc = "started" /\ UNCHANGED <<journal, completed, discarded>>
        /\ (pc' = "drive" /\ ctx' = ctx) \/ pc' \in {"faulting", "notStarted"}
    BY <1>6, StartedCases DEF LoopAt, counts
  <2> QED
    BY <2>1, EpisodeIdle, OutsideIdle DEF VerdictedPcs, RunningPcs
<1>7. CASE NotStarted
  BY <1>7, ToHumanIdle DEF NotStarted
<1> QED
  BY <1>1, <1>2, <1>3, <1>4, <1>5, <1>6, <1>7

LEMMA DriveIdle ==
    ASSUME IInv, DriveChecks \/ Step
    PROVE  CountsIdle
<1>1. pc \in {"drive", "step"} /\ ctx \in Contexts
  BY DEF DriveChecks, Step, LoopAt, IInv, RunTypes
<1>2. ASSUME NEW reason, NEW cmd, Ends(reason, cmd) PROVE CountsIdle
  <2>1. /\ UNCHANGED <<journal, completed, discarded>> /\ pc' \in {"stopping", "verifying"}
        /\ ctx'.ep = ctx.ep /\ ctx'.verdict = ctx.verdict
    BY <1>1, <1>2 DEF Ends, counts, Contexts
  <2> QED
    BY <1>1, <2>1, EpisodeIdle DEF VerdictedPcs, RunningPcs
<1>3. CASE LoopAt("drive") /\ (TakesVerdict \/ FailsEarly \/ LosesChunk \/ Goes("step"))
  <2>1. /\ UNCHANGED <<journal, completed, discarded>>
        /\ pc' \in {"drive", "recording", "stopping", "verifying", "step"}
        /\ ctx'.ep = ctx.ep /\ ctx'.verdict = ctx.verdict
    BY <1>1, <1>3 DEF TakesVerdict, FailsEarly, LosesChunk, Goes, LoopAt, counts, Contexts
  <2> QED
    BY <1>1, <2>1, EpisodeIdle DEF VerdictedPcs, RunningPcs
<1>4. CASE DriveChecks
  <2>1. /\ LoopAt("drive")
        /\ \/ \E reason, cmd : Ends(reason, cmd)
           \/ \E reason : Faults(reason)
           \/ TakesVerdict
           \/ FailsEarly \/ LosesChunk \/ Goes("step")
    BY <1>4, Zenon DEF DriveChecks
  <2> QED
    BY <1>2, <1>3, <2>1, FaultsIdle
<1>5. CASE Step
  <2>1. ASSUME pc' \in {"drive", "faulting"}, ctx' = [ctx EXCEPT !.left = @ - 1, !.ran = TRUE],
               UNCHANGED <<journal, completed, discarded>>
        PROVE  CountsIdle
    <3>1. ctx'.ep = ctx.ep /\ ctx'.verdict = ctx.verdict
      BY <1>1, <2>1 DEF Contexts
    <3> QED
      BY <1>1, <2>1, <3>1, EpisodeIdle DEF VerdictedPcs, RunningPcs
  <2>2. \/ /\ pc' \in {"drive", "faulting"} /\ ctx' = [ctx EXCEPT !.left = @ - 1, !.ran = TRUE]
           /\ UNCHANGED <<journal, completed, discarded>>
        \/ \E reason : Faults(reason)
        \/ Ends("policy_error", NoStop)
    BY <1>5 DEF Step, counts
  <2> QED
    BY <1>2, <2>1, <2>2, FaultsIdle
<1> QED
  BY <1>4, <1>5


LEMMA FinishIdle ==
    ASSUME IInv, Stopping \/ Drops \/ Finalizing \/ Finalized \/ (Sealed /\ got # "yes")
                 \/ Counted \/ Homed
    PROVE  CountsIdle
<1>1. CASE Stopping \/ Finalizing \/ Finalized
  <2>1. pc \in VerdictedPcs
    BY <1>1 DEF Stopping, Finalizing, Finalized, LoopAt, VerdictedPcs
  <2> QED
    BY <1>1, <2>1, MovesIdle, FaultsIdle DEF Stopping, Finalizing, Finalized, RunningPcs
<1>2. CASE Drops
  <2>1. /\ UNCHANGED <<journal, completed, discarded, ctx>> /\ pc = "stopped" /\ pc' = "finalizing"
    BY <1>2 DEF Drops, LoopAt, counts
  <2> QED
    BY <2>1, EpisodeIdle DEF VerdictedPcs, RunningPcs
<1>3. CASE Sealed /\ got # "yes"
  BY <1>3, FaultsIdle DEF Sealed
<1>4. CASE Counted
  <2>1. ASSUME NEW reason, NEW cmd, WaitsInPlace(reason, cmd) PROVE CountsIdle
    <3> DEFINE t == Tx("WAIT_HUMAN", reason, "none", cmd, NoEp)
    <3>1. Asks(t, "top") /\ UNCHANGED <<completed, discarded>>
      BY <2>1 DEF WaitsInPlace, counts
    <3> HIDE DEF t
    <3> QED
      BY <3>1, AsksIdle DEF VerdictedPcs, RunningPcs
  <2> QED
    BY <1>4, <2>1, CountedCases, FaultsIdle, MovesIdle DEF VerdictedPcs, RunningPcs
<1>5. CASE Homed
  <2>1. \/ Faults("home_failed")
        \/ UNCHANGED <<journal, completed, discarded>> /\ pc' = "top"
    BY <1>5 DEF Homed, counts
  <2> QED
    BY <2>1, FaultsIdle, OutsideIdle DEF VerdictedPcs, RunningPcs
<1> QED
  BY <1>1, <1>2, <1>3, <1>4, <1>5

LEMMA ResetIdle ==
    ASSUME IInv, Verifying \/ Verified \/ Concluded \/ ResetSealed
    PROVE  CountsIdle
<1>1. CASE Verifying \/ Concluded
  BY <1>1, MovesIdle DEF Verifying, Concluded, VerdictedPcs, RunningPcs
<1>2. CASE Verified
  <2>1. ASSUME NEW r, NEW c, NEW o, Concludes(r, c, o) PROVE CountsIdle
    BY <2>1, OutsideIdle DEF Concludes, counts, VerdictedPcs, RunningPcs
  <2> QED
    BY <1>2, <2>1, VerifiedCases, FaultsIdle
<1>3. CASE ResetSealed
  BY <1>3, ResetSealedCases, FaultsIdle, MovesIdle DEF VerdictedPcs, RunningPcs
<1> QED
  BY <1>1, <1>2, <1>3

LEMMA FaultIdle ==
    ASSUME IInv, Faulting \/ Faulted \/ Contain
    PROVE  CountsIdle
<1>1. CASE Faulting
  <2> DEFINE contained == got = "contained"
             u == Tx("FAULT_LOCKED", IF contained THEN "watchdog_timeout" ELSE got,
                     IF State \in POLICY_MAY_INFER /\ ~contained THEN "hold" ELSE "none",
                     NoStop, IF FaultRes THEN ctx.ep ELSE NoEp)
             t == IF FaultRes THEN WithResult(u) ELSE u
             next == IF contained THEN "contained" ELSE "faulted"
  <2>1. Asks(t, next) /\ UNCHANGED <<completed, discarded>>
    BY <1>1 DEF Faulting, counts
  <2>2. next \notin VerdictedPcs
    BY DEF VerdictedPcs, RunningPcs
  <2> HIDE DEF t, next
  <2> QED
    BY <2>1, <2>2, AsksIdle
<1>2. CASE Faulted
  <2>1. UNCHANGED <<journal, completed, discarded>> /\ pc' \in {"top", "raised"}
    BY <1>2 DEF Faulted, counts
  <2> QED
    BY <2>1, OutsideIdle DEF VerdictedPcs, RunningPcs
<1>3. CASE Contain
  <2>1. /\ journal' = Aborted /\ pc' \in {"raised", "faulting"} /\ UNCHANGED <<completed, discarded>>
        /\ journal \in Journals
    BY <1>3 DEF Contain, counts, IInv, RunTypes
  <2>2. journal'.rounds = journal.rounds /\ journal'.discards = journal.discards
    BY <2>1 DEF Aborted, Journals
  <2> QED
    BY <2>1, <2>2 DEF CountsIdle, EpisodeGoesOn, VerdictedPcs, RunningPcs
<1> QED
  BY <1>1, <1>2, <1>3

\* The verdict is on disk before the episode knows it; its round is not
\* sealed yet.
LEMMA RecordsCounts == ASSUME IInv, CountsKept, RecordsVerdict PROVE CountsKept'
<1>1. /\ pc = "recording" /\ pc' = "stopping" /\ got' = "none"
      /\ journal' = (IF got = "discard" THEN [journal EXCEPT !.discards = @ \cup {ctx.ep}]
                     ELSE journal)
      /\ ctx' = [ctx EXCEPT !.verdict = got, !.auth = OtherId, !.reason = "operator_verdict",
                            !.left = 0]
      /\ UNCHANGED <<completed, discarded>>
  BY DEF RecordsVerdict, LoopAt, counts
<1>2. /\ journal \in Journals /\ ctx \in Contexts
      /\ journal.state = "FORWARD_ACTIVE" /\ ctx.ep = journal.episode
  BY <1>1, LoopFacts DEF RecordsVerdict, At, Here, EpisodePcs, ForwardPcs, EPISODE_STATES
<1>3. /\ journal'.rounds = journal.rounds /\ journal'.results = journal.results
      /\ journal'.begun = journal.begun
      /\ journal'.discards = (IF got = "discard" THEN journal.discards \cup {ctx.ep}
                              ELSE journal.discards)
      /\ ctx'.ep = ctx.ep /\ ctx'.verdict = got
  BY <1>1, <1>2 DEF Journals, Contexts
<1>4. ctx.ep \in journal.begun /\ ctx.ep \notin journal.rounds
  <2>1. Results(journal)
    BY DEF IInv, OnDisk
  <2>2. ctx.ep \in journal.begun /\ journal.results[ctx.ep] = 0
    BY <1>2, <2>1 DEF Results, EPISODE_STATES
  <2> QED
    BY <2>2 DEF CountsKept
<1>5. ctx.verdict = "none" /\ (ctx.verdict = "discard" <=> ctx.ep \in journal.discards)
  BY <1>1 DEF CountsKept, RunningPcs, VerdictedPcs
<1>6. Uncounted = {} /\ Uncounted' = {}
  BY <1>1 DEF Uncounted
<1>7. journal.rounds \cap journal'.discards = journal.rounds \cap journal.discards
  BY <1>3, <1>4
<1>8. Tallied(journal'.rounds \ Uncounted', journal'.discards, completed', discarded')
  <2>1. Tallied(journal.rounds, journal.discards, completed, discarded)
    <3>1. journal.rounds \ {} = journal.rounds
      OBVIOUS
    <3> QED
      BY <1>1, <1>6, <3>1 DEF CountsKept
  <2>2. Tallied(journal.rounds, journal'.discards, completed, discarded)
    BY <1>7, <2>1 DEF Tallied
  <2>3. journal'.rounds \ Uncounted' = journal.rounds
    BY <1>3, <1>6
  <2> QED
    BY <1>1, <2>2, <2>3
<1> QED
  BY <1>1, <1>3, <1>4, <1>5, <1>8 DEF CountsKept, RunningPcs, SealTold

\* The one place where a round is counted.
LEMMA SealedCounts == ASSUME IInv, CountsKept, Sealed, got = "yes" PROVE CountsKept'
<1> DEFINE R == journal.rounds \ {ctx.ep}
<1>1. /\ pc = "sealed" /\ lock.by # "loop"
      /\ completed' = (IF ctx.ran /\ ~Replaced THEN completed + 1 ELSE completed)
      /\ discarded' = (IF ctx.ran /\ Replaced THEN discarded + 1 ELSE discarded)
      /\ pc' = "counted" /\ journal' = journal
  BY DEF Sealed, LoopAt
<1>2. /\ Uncounted = {ctx.ep} /\ Uncounted' = {}
  BY <1>1 DEF Uncounted
<1>3. Tallied(R, journal.discards, completed, discarded) /\ (ctx.ep \in journal.rounds <=> ctx.ran)
      /\ IsFiniteSet(R)
  BY <1>1, <1>2, FS_Subset DEF CountsKept
<1>4. Replaced <=> ctx.ep \in journal.discards /\ discarded < DiscardLimit
  BY <1>1 DEF CountsKept, VerdictedPcs, Replaced
<1>5. Tallied(journal.rounds, journal.discards, completed', discarded')
  <2>1. CASE ctx.ran
    <3>1. journal.rounds = R \cup {ctx.ep} /\ ctx.ep \notin R
      BY <1>3, <2>1
    <3> DEFINE replaced == ctx.ep \in journal.discards /\ discarded < DiscardLimit
    <3> HIDE DEF R
    <3>2. Tallied(R \cup {ctx.ep}, journal.discards, IF replaced THEN completed ELSE completed + 1,
                  IF replaced THEN discarded + 1 ELSE discarded)
      BY <1>3, <3>1, TallyOne
    <3>3. /\ completed' = (IF replaced THEN completed ELSE completed + 1)
          /\ discarded' = (IF replaced THEN discarded + 1 ELSE discarded)
      BY <1>1, <1>4, <2>1
    <3> QED
      BY <3>1, <3>2, <3>3
  <2>2. CASE ~ctx.ran
    <3>1. journal.rounds = R
      BY <1>3, <2>2
    <3> HIDE DEF R
    <3> QED
      BY <1>1, <1>3, <2>2, <3>1
  <2> QED
    BY <2>1, <2>2
<1>6. journal'.rounds \ Uncounted' = journal.rounds
  BY <1>1, <1>2
<1> QED
  BY <1>1, <1>5, <1>6 DEF CountsKept, VerdictedPcs, RunningPcs

LEMMA LoopKeepsCounts == ASSUME IInv, CountsKept, Loop PROVE CountsKept'
<1>1. CASE RecordsVerdict \/ (Sealed /\ got = "yes")
  BY <1>1, RecordsCounts, SealedCounts
<1>2. CASE ~RecordsVerdict /\ ~(Sealed /\ got = "yes")
  <2>1. CountsIdle
    BY <1>2, StartIdle, DriveIdle, FinishIdle, ResetIdle, FaultIdle, Zenon DEF Loop
  <2>2. pc = "sealed" => got # "yes"
    BY <1>2, OnlySealed
  <2>3. journal'.results = journal.results /\ journal'.begun = journal.begun
    BY LoopLeaves DEF Leaves, SameRecord
  <2>4. pc \notin {"down", "raised"}
    BY LoopRuns DEF OffPcs
  <2> QED
    BY <2>1, <2>2, <2>3, <2>4, CountsLeftKeeps DEF CountsLeft, CountsIdle, CountsSame
<1> QED
  BY <1>1, <1>2


\* Another hand on the lock, and nothing that is counted.
LEMMA CountsApart ==
    ASSUME CountsKept, CountsSame, UNCHANGED <<pc, got, ctx>>,
           pc = "sealed" /\ got = "yes" => (lock'.by = "loop" <=> lock.by = "loop"),
           pc = "sealed" /\ SealTold' => SealTold
    PROVE  CountsKept'
<1>1. Uncounted' = Uncounted
  BY DEF Uncounted
<1>2. /\ journal'.rounds = journal.rounds /\ journal'.discards = journal.discards
      /\ journal.begun \subseteq journal'.begun
      /\ \A e \in journal.rounds : journal.results[e] = 1 => journal'.results[e] = 1
      /\ completed' = completed /\ discarded' = discarded
  BY DEF CountsSame
<1>3. pc' \notin {"down", "raised"} =>
        Tallied(journal'.rounds \ Uncounted', journal'.discards, completed', discarded')
  BY <1>1, <1>2 DEF CountsKept
<1> QED
  BY <1>2, <1>3 DEF CountsKept

LEMMA SameCounts ==
    ASSUME UNCHANGED <<journal, completed, discarded>>
    PROVE  CountsSame
BY DEF CountsSame

\* A result that is there stays what it is, whatever is committed.
LEMMA ResultStays ==
    ASSUME IInv, NEW b \in BOOLEAN, Open \in Txs, OpenFits(journal, Open),
           Open.kind = "recorder_seal" => Open.ep \in Eps,
           NEW e \in Eps, journal.results[e] = 1
    PROVE  Committed(b).results[e] = 1
<1> DEFINE j == Committed(b)
           t == Open
<1>1. Results(j)
  BY CommittedIs
<1>2. j.results = (IF t.res THEN [journal.results EXCEPT ![t.ep] = journal.results[t.ep] + 1]
                   ELSE journal.results)
  BY CommittedSeals
<1>3. journal.results \in [Eps -> Nat]
  BY DEF IInv, RunTypes, Journals
<1> HIDE DEF j, t
<1>4. j.results[e] \in {1, 2}
  <2>1. CASE t.res /\ t.ep = e
    <3>1. j.results = [journal.results EXCEPT ![e] = journal.results[e] + 1]
      BY <1>2, <2>1
    <3> QED
      BY <1>3, <3>1
  <2>2. CASE ~t.res \/ t.ep # e
    BY <1>2, <1>3, <2>2
  <2> QED
    BY <2>1, <2>2
<1>5. j.results[e] \in {0, 1}
  BY <1>1 DEF Results
<1> QED
  BY <1>4, <1>5 DEF j

\* The recorder is told to complete a rollout in which steps were sent, to
\* give up one in which none was.
LEMMA ActsCounts == ASSUME IInv, CountsKept, Acts PROVE CountsKept'
<1> DEFINE t == Open
<1>1. PICK x \in ActOutcomes \ {"raises"} :
        /\ got' = x
        /\ rollout' = [rollout EXCEPT ![t.ep] =
              CASE x = "yes" /\ t.kind = "policy_steps" -> "open"
                [] x = "yes" /\ t.kind = "recorder_seal" -> "complete"
                [] x = "yes" /\ t.kind = "recorder_abort" -> "incomplete"
                [] OTHER -> rollout[t.ep]]
        /\ ctx' = IF x = "yes" /\ t.kind \in Seal
                  THEN [ctx EXCEPT !.sealed = rollout'[t.ep]] ELSE ctx
  BY DEF Acts
<1>2. /\ lock.by = "loop" /\ lock.at \in TxStages /\ lock' = [lock EXCEPT !.at = "acted"]
      /\ UNCHANGED <<journal, pc, completed, discarded>>
  BY DEF Acts, counts, TxStages
<1>3. /\ pc \in TxPcs /\ Leg(pc, journal.state, ctx, t)
      /\ lock \in Locks /\ ctx \in Contexts /\ rollout \in Rollouts
      /\ t.kind \in Seal => t.ep \in Eps
  BY <1>2, TxFacts DEF IInv, RunTypes
<1>4. lock'.by = "loop"
  BY <1>2, <1>3, LockMoves
<1> HIDE DEF t
<1>5. /\ ctx'.ep = ctx.ep /\ ctx'.verdict = ctx.verdict /\ ctx'.ran = ctx.ran
      /\ x = "yes" /\ t.kind \in Seal => ctx'.sealed = rollout'[t.ep]
  BY <1>1, <1>3 DEF Contexts
<1>6. pc = "sealed" /\ x = "yes" => (ctx'.sealed = "complete" <=> ctx'.ran)
  <2> SUFFICES ASSUME pc = "sealed", x = "yes" PROVE ctx'.sealed = "complete" <=> ctx.ran
    BY <1>5
  <2>1. t.kind = IF ctx.ran THEN "recorder_seal" ELSE "recorder_abort"
    BY <1>3 DEF Leg
  <2>2. t.ep \in Eps /\ ctx'.sealed = rollout'[t.ep]
    BY <1>3, <1>5, <2>1 DEF Seal
  <2>3. rollout' = [rollout EXCEPT ![t.ep] = IF ctx.ran THEN "complete" ELSE "incomplete"]
    <3>1. CASE ctx.ran
      <4>1. t.kind = "recorder_seal"
        BY <2>1, <3>1
      <4> QED
        BY <1>1, <3>1, <4>1
    <3>2. CASE ~ctx.ran
      <4>1. t.kind = "recorder_abort"
        BY <2>1, <3>2
      <4> QED
        BY <1>1, <3>2, <4>1
    <3> QED
      BY <3>1, <3>2
  <2> QED
    BY <1>3, <2>2, <2>3 DEF Rollouts
<1>7. Uncounted = {} /\ Uncounted' = {}
  BY <1>2, <1>4 DEF Uncounted
<1>8. Tallied(journal'.rounds \ Uncounted', journal'.discards, completed', discarded')
  BY <1>2, <1>3, <1>7 DEF CountsKept, TxPcs
<1> QED
  BY <1>1, <1>2, <1>4, <1>5, <1>6, <1>8 DEF CountsKept, SealTold


\* The commit of a round's result: the loop counts it in its next step.
LEMMA CommitsCounts == ASSUME IInv, CountsKept, Commits PROVE CountsKept'
<1> DEFINE t == Open
           b == ctx.sealed = "complete"
<1>1. /\ lock.at = "acknowledged" /\ ~halted
      /\ t.kind = "none" \/ journal.ack = "yes"
      /\ pc' = pc /\ got' = (IF lock.by = "loop" THEN "yes" ELSE got)
      /\ ctx' = (IF t.res THEN [ctx EXCEPT !.written = TRUE] ELSE ctx)
  BY CommitsAre
<1>2. UNCHANGED <<completed, discarded>>
  BY DEF Commits, counts
<1>3. b \in BOOLEAN /\ journal' = Committed(b)
  BY Zenon DEF Commits
<1> HIDE DEF b
<1>4. /\ t \in Txs /\ OpenFits(journal, t) /\ ctx \in Contexts /\ lock \in Locks
      /\ journal \in Journals /\ Results(journal)
  BY CommitMoves DEF IInv, RunTypes, OnDisk
<1>5. /\ lock.by # "loop" => ~t.res /\ t.kind = "none" /\ lock'.by # "loop"
      /\ lock.by = "loop" => /\ Leg(pc, journal.state, ctx, t) /\ pc \in TxPcs
                             /\ t.kind \in Seal => t.ep \in Eps
      /\ lock.by = "loop" => Holder(pc, lock, journal, got, ctx) /\ Here(pc, journal, ctx)
  <2>1. lock.by # "loop" => lock'.by # "loop"
    BY CommitMoves, CommandsAssumption
  <2> QED
    BY <1>1, <2>1, CommitMoves, TxFacts, HeldFacts DEF TxStages
<1>6. t.kind = "recorder_seal" => t.ep \in Eps
  BY <1>5 DEF Seal
<1>7. /\ journal'.begun = (IF t.to \in MOTION_STATES THEN journal.begun \cup {t.ep} ELSE journal.begun)
      /\ journal'.results = (IF t.res THEN [journal.results EXCEPT ![t.ep] = journal.results[t.ep] + 1]
                             ELSE journal.results)
      /\ journal'.rounds = (IF t.res /\ b /\ Round THEN journal.rounds \cup {t.ep} ELSE journal.rounds)
      /\ journal'.discards = journal.discards
  BY <1>3, <1>4, CommittedSeals
<1>8. \A e \in journal.rounds : journal.results[e] = 1 => journal'.results[e] = 1
  BY <1>3, <1>4, <1>6, ResultStays DEF Journals
<1>9. /\ ctx'.ep = ctx.ep /\ ctx'.verdict = ctx.verdict /\ ctx'.ran = ctx.ran
      /\ ctx'.sealed = ctx.sealed
  BY <1>1, <1>4 DEF Contexts
<1>10. CASE lock.by # "loop"
  <2>1. CountsSame /\ UNCHANGED <<pc, got, ctx>> /\ ~SealTold'
    BY <1>1, <1>2, <1>5, <1>7, <1>8, <1>10 DEF CountsSame, SealTold
  <2> QED
    BY <1>5, <1>10, <2>1, CountsApart
<1>11. CASE lock.by = "loop" /\ pc # "sealed"
  <2>1. ~Round
    <3>1. pc = "homed" => ctx.ep.role \in Roles
      BY <1>11, HeldFacts DEF Context, EpisodePcs, Eps
    <3>2. t.to # "ROBOT_HOME"
      BY <1>5, <1>11, <3>1 DEF Leg, TxPcs, Roles, MotionOf
    <3> QED
      BY <3>2 DEF Round
  <2>2. CountsSame
    BY <1>2, <1>7, <1>8, <2>1 DEF CountsSame
  <2>3. EpisodeGoesOn
    BY <1>1, <1>9 DEF EpisodeGoesOn
  <2>4. pc \notin {"down", "raised"}
    BY <1>5, <1>11 DEF TxPcs
  <2> QED
    BY <1>1, <1>11, <2>2, <2>3, <2>4, CountsLeftKeeps DEF CountsLeft
<1>12. CASE lock.by = "loop" /\ pc = "sealed"
  <2>1. /\ journal.state = "FORWARD_FINALIZE" /\ t.to = "ROBOT_HOME" /\ t.res /\ t.ep = ctx.ep
        /\ t.kind \in Seal /\ t.ep \in Eps
    BY <1>5, <1>12 DEF Leg, Seal
  <2>2. got = "yes" /\ got' = "yes" /\ t.kind # "none"
    BY <1>1, <1>5, <1>12, <2>1 DEF Holder, Seal, TxStages, Open
  <2>3. Round /\ ~(Consumes)
    BY <2>1 DEF Round, Consumes
  <2>4. lock' = Free
    BY <1>12, <2>3, CommitsAre
  <2>5. b <=> ctx.ran
    BY <1>1, <1>12, <2>2 DEF CountsKept, SealTold, b
  <2>6. journal.results[ctx.ep] = 0 /\ ctx.ep \notin journal.rounds
    <3>1. ctx.ep = journal.episode
      BY <1>5, <1>12, <2>1 DEF Here, EpisodePcs, ForwardPcs, EPISODE_STATES
    <3>2. journal.results[ctx.ep] = 0
      BY <1>4, <2>1, <3>1 DEF Results, EPISODE_STATES
    <3> QED
      BY <3>2 DEF CountsKept
  <2>7. Uncounted = {} /\ Uncounted' = {ctx.ep}
    BY <1>1, <1>9, <1>12, <2>2, <2>4 DEF Uncounted, Free
  <2>8. journal'.rounds = IF b THEN journal.rounds \cup {ctx.ep} ELSE journal.rounds
    BY <1>7, <2>1, <2>3
  <2>9. journal'.rounds \ Uncounted' = journal.rounds
    BY <2>6, <2>7, <2>8
  <2>10. Tallied(journal'.rounds \ Uncounted', journal'.discards, completed', discarded')
    <3>1. journal.rounds \ Uncounted = journal.rounds
      BY <2>7
    <3> QED
      BY <1>2, <1>7, <1>12, <2>9, <3>1 DEF CountsKept
  <2>11. \A e \in journal'.rounds : journal'.results[e] = 1
    <3>1. journal'.results[ctx.ep] = 1
      <4>1. journal'.results = [journal.results EXCEPT ![ctx.ep] = journal.results[ctx.ep] + 1]
        BY <1>7, <2>1
      <4> QED
        BY <1>4, <2>1, <2>6, <4>1 DEF Journals
    <3> QED
      BY <1>8, <2>8, <3>1 DEF CountsKept
  <2>12. IsFiniteSet(journal'.rounds)
    BY <2>8, FS_AddElement DEF CountsKept
  <2>13. journal'.discards \subseteq journal'.begun
    BY <1>7 DEF CountsKept
  <2>14. /\ ~SealTold'
         /\ pc' = "sealed" /\ (ctx'.ep \in journal'.rounds <=> ctx'.ran)
    BY <1>1, <1>9, <1>12, <2>4, <2>5, <2>6, <2>8 DEF SealTold, Free
  <2>15. ctx'.verdict = "discard" <=> ctx'.ep \in journal'.discards
    BY <1>7, <1>9, <1>12 DEF CountsKept, VerdictedPcs
  <2> QED
    BY <2>10, <2>11, <2>12, <2>13, <2>14, <2>15 DEF CountsKept, RunningPcs
<1> QED
  BY <1>10, <1>11, <1>12

LEMMA TransactionKeepsCounts == ASSUME IInv, CountsKept, Transaction PROVE CountsKept'
<1>1. CASE HomeStarts
  <2>1. /\ UNCHANGED <<journal, pc, ctx, got, completed, discarded>>
        /\ lock' = [lock EXCEPT !.at = "homing"] /\ lock \in Locks
    BY <1>1 DEF HomeStarts, counts, IInv, RunTypes
  <2>2. lock'.at = "homing" /\ lock'.by = lock.by
    BY <2>1, LockMoves
  <2> QED
    BY <2>1, <2>2, SameCounts, CountsApart DEF SealTold
<1>2. CASE Acknowledges
  <2> DEFINE ack == IF got \in {"yes", "unknown"} THEN got ELSE "no"
  <2>1. /\ journal' = [journal EXCEPT !.ack = ack] /\ lock' = [lock EXCEPT !.at = "acknowledged"]
        /\ UNCHANGED <<pc, ctx, got, completed, discarded>> /\ lock.at = "acted" /\ lock \in Locks
        /\ journal \in Journals
    BY <1>2 DEF Acknowledges, counts, IInv, RunTypes
  <2> HIDE DEF ack
  <2>2. CountsSame
    BY <2>1 DEF CountsSame, Journals
  <2>3. lock'.by = lock.by
    BY <2>1, LockMoves
  <2> QED
    BY <2>1, <2>2, <2>3, CountsApart DEF SealTold
<1>3. CASE Aborts
  <2>1. /\ journal' = Aborted /\ lock' = Free /\ UNCHANGED <<pc, ctx, got, completed, discarded>>
        /\ lock.at = "acknowledged" /\ Open.kind # "none" /\ journal.ack # "yes"
        /\ journal \in Journals
    BY <1>3 DEF Aborts, counts, IInv, RunTypes
  <2>2. CountsSame
    BY <2>1 DEF CountsSame, Aborted, Journals
  <2>3. lock.by = "loop" => got # "yes"
    BY <2>1, HeldFacts DEF Holder, Open
  <2> QED
    BY <2>1, <2>2, <2>3, CountsApart DEF SealTold, Free
<1>4. CASE ConsumesStops \/ ResumeClears
  <2>1. /\ UNCHANGED <<journal, pc, ctx, got, completed, discarded>> /\ lock' = Free
        /\ lock.at \in {"consume", "clear"}
    BY <1>4 DEF ConsumesStops, ResumeClears, counts
  <2>2. pc = "sealed" => lock.by # "loop"
    <3>1. SUFFICES ASSUME lock.by = "loop" PROVE pc # "sealed"
      OBVIOUS
    <3>2. Holder(pc, lock, journal, got, ctx)
      BY <3>1, HeldFacts
    <3> QED
      BY <2>1, <3>1, <3>2 DEF Holder, TxStages
  <2> QED
    BY <2>1, <2>2, SameCounts, CountsApart DEF SealTold, Free
<1> QED
  BY <1>1, <1>2, <1>3, <1>4, ActsCounts, CommitsCounts, Zenon DEF Transaction


LEMMA OperatorKeepsCounts == ASSUME IInv, CountsKept, Operator PROVE CountsKept'
<1>1. ASSUME NEW by \in StopIds \cup {"resume"}, NEW t, Begin(by, t),
             UNCHANGED <<pc, ctx, got, completed, discarded>>
      PROVE  CountsKept'
  <2>1. /\ lock = Free
        /\ \/ UNCHANGED <<journal, lock>>
           \/ journal' = Prepared(t) /\ lock'.by = by
    BY <1>1 DEF Begin
  <2>2. CountsSame
    <3>1. CASE journal' = journal
      BY <1>1, <3>1, SameCounts
    <3>2. CASE journal' = Prepared(t)
      BY <1>1, <3>2, PreparedSame DEF CountsSame
    <3> QED
      BY <2>1, <3>1, <3>2
  <2>3. lock.by # "loop" /\ lock'.by # "loop"
    BY <2>1, CommandsAssumption DEF Free
  <2> QED
    BY <1>1, <2>2, <2>3, CountsApart DEF SealTold
<1>2. ASSUME UNCHANGED <<journal, pc, lock, got, ctx, completed, discarded>> PROVE CountsKept'
  BY <1>2, SameCounts, CountsApart DEF SealTold
<1>3. ASSUME NEW c \in StopIds, StopChecks(c) \/ StopRegisters(c) \/ StopReturns(c)
      PROVE  CountsKept'
  BY <1>2, <1>3 DEF StopChecks, StopRegisters, StopReturns, counts
<1>4. ASSUME NEW c \in StopIds, StopCompletes(c) PROVE CountsKept'
  <2> DEFINE t == Tx("COMPLETED", "operator_stop", "none", c, NoEp)
  <2>1. Begin(c, t) /\ UNCHANGED <<pc, ctx, got, completed, discarded>>
    BY <1>4 DEF StopCompletes, counts
  <2> HIDE DEF t
  <2> QED
    BY <1>1, <2>1
<1>5. CASE Resume
  <2> DEFINE t == Tx("PREFLIGHT", "human_resumed", "none", OtherId, NoEp)
  <2>1. Begin("resume", t) /\ UNCHANGED <<pc, ctx, got, completed, discarded>>
    BY <1>5 DEF Resume, counts
  <2> HIDE DEF t
  <2> QED
    BY <1>1, <2>1
<1>6. CASE EpisodeVerdict
  BY <1>2, <1>6 DEF EpisodeVerdict, counts
<1> QED
  BY <1>3, <1>4, <1>5, <1>6 DEF Operator

LEMMA ProcessKeepsCounts == ASSUME IInv, CountsKept, Process PROVE CountsKept'
<1>1. CASE Raises
  <2>1. UNCHANGED <<journal, completed, discarded>> /\ pc' = "contain"
    BY <1>1 DEF Raises, counts
  <2>2. pc \notin {"down", "raised"} /\ (pc = "sealed" => lock.by = "loop")
    <3>1. CASE lock.by = "loop" /\ lock.at \in {"prepared", "homing"}
      BY <3>1, TxFacts DEF TxStages, TxPcs
    <3>2. CASE lock = Free /\ AsksAdapter
      BY <3>2 DEF AsksAdapter
    <3> QED
      BY <1>1, <3>1, <3>2 DEF Raises, InAdapter
  <2> QED
    BY <2>1, <2>2, SameCounts, CountsLeftKeeps
       DEF CountsLeft, EpisodeGoesOn, VerdictedPcs, RunningPcs
<1>2. CASE Halts \/ Crash
  <2>1. UNCHANGED journal /\ pc' \in {"down", "raised"}
    BY <1>2 DEF Halts, Crash
  <2> QED
    BY <2>1 DEF CountsKept, VerdictedPcs, RunningPcs
<1>3. CASE Restart
  <2>1. /\ journal' = journal /\ completed' = ReadCompleted(journal)
        /\ discarded' = ReadDiscarded(journal)
    BY <1>3 DEF Restart
  <2>2. pc' \in {"rollouts", "abort", "prepare"}
    BY <1>3 DEF Restart
  <2>3. Tallied(journal.rounds, journal.discards, ReadCompleted(journal), ReadDiscarded(journal))
    BY DEF Tallied, ReadCompleted, ReadDiscarded
  <2>4. journal'.rounds \ Uncounted' = journal.rounds
    BY <2>1, <2>2 DEF Uncounted
  <2> QED
    BY <2>1, <2>2, <2>3, <2>4 DEF CountsKept, VerdictedPcs, RunningPcs
<1>4. ASSUME CountsSame, pc \in OffPcs \ {"down"}, pc' \in (OffPcs \ {"down"}) \cup {"rest"}
      PROVE  CountsKept'
  BY <1>4, CountsLeftKeeps DEF CountsLeft, EpisodeGoesOn, VerdictedPcs, RunningPcs, OffPcs
<1>5. CASE RecoverAborts \/ RecoverPrepares
  <2>1. /\ pc \in {"abort", "prepare"} /\ pc' \in {"prepare", "commit"}
        /\ UNCHANGED <<completed, discarded>>
        /\ journal' = Aborted \/ \E t : journal' = Prepared(t)
    BY <1>5 DEF RecoverAborts, RecoverPrepares, Recover, counts
  <2>2. CountsSame
    <3>1. CASE journal' = Aborted
      BY <2>1, <3>1 DEF CountsSame, Aborted, IInv, RunTypes, Journals
    <3>2. ASSUME NEW t, journal' = Prepared(t) PROVE CountsSame
      BY <2>1, <3>2, PreparedSame DEF CountsSame
    <3> QED
      BY <2>1, <3>1, <3>2
  <2> QED
    BY <1>4, <2>1, <2>2 DEF OffPcs
<1>6. CASE RecoverCommits
  <2> DEFINE b == journal.episode \in journal.sealed
             t == Open
  <2>1. b \in BOOLEAN
    OBVIOUS
  <2>2. /\ journal' = Committed(b) /\ pc = "commit" /\ pc' = "rollouts"
        /\ UNCHANGED <<completed, discarded>>
    BY <1>6, Zenon DEF RecoverCommits, Recover, counts
  <2> HIDE DEF b
  <2>3. t \in Txs /\ t.to = "FAULT_LOCKED" /\ t.kind = "none" /\ journal \in Journals
    BY <2>2 DEF IInv, RunTypes, Control, Off, Open
  <2>4. OpenFits(journal, t)
    BY <2>3, NoTxIsNone DEF IInv, OnDisk, Open
  <2>5. /\ journal'.rounds = journal.rounds /\ journal'.discards = journal.discards
        /\ journal.begun \subseteq journal'.begun
    BY <2>1, <2>2, <2>3, CommittedSeals DEF Round
  <2>6. \A e \in journal.rounds : journal.results[e] = 1 => journal'.results[e] = 1
    BY <2>1, <2>2, <2>3, <2>4, ResultStays DEF Journals
  <2>7. CountsSame
    BY <2>2, <2>5, <2>6 DEF CountsSame
  <2> QED
    BY <1>4, <2>2, <2>7 DEF OffPcs
<1>7. CASE RecoverRollouts
  <2>1. UNCHANGED <<journal, completed, discarded>> /\ pc = "rollouts" /\ pc' = "rest"
    BY <1>7 DEF RecoverRollouts, counts
  <2> QED
    BY <1>4, <2>1, SameCounts DEF OffPcs
<1> QED
  BY <1>1, <1>2, <1>3, <1>5, <1>6, <1>7 DEF Process

LEMMA KeepsCounts == ASSUME IInv, CountsKept, [Next]_vars PROVE CountsKept'
<1>1. CASE UNCHANGED vars
  <2>1. UNCHANGED <<journal, pc, lock, got, ctx, completed, discarded>>
    BY <1>1 DEF vars
  <2> QED
    BY <2>1, SameCounts, CountsApart DEF SealTold
<1> QED
  BY <1>1, LoopKeepsCounts, TransactionKeepsCounts, OperatorKeepsCounts, ProcessKeepsCounts
     DEF Next

\* The rounds a running process counts are those a restart would read back,
\* whichever of them an operator discarded and however far the limit on
\* replacing them has gone (_counts, _replaces, _read_back).
THEOREM CountsSurvive == Spec => []CountsSurviveRestart
<1>1. Init => CountsKept
  <2> SUFFICES ASSUME Init PROVE CountsKept
    OBVIOUS
  <2>1. /\ journal.rounds = {} /\ journal.discards = {} /\ journal.begun = {} /\ pc = "top"
        /\ completed = 0 /\ discarded = 0
    BY DEF Init, Blank
  <2>2. Tallied({}, {}, 0, 0)
    <3>1. {} \cap {} = {} /\ Cardinality({}) = 0
      BY FS_EmptySet
    <3> QED
      BY <3>1, BoundsAssumption DEF Tallied
  <2>3. journal.rounds \ Uncounted = {}
    BY <2>1
  <2> QED
    BY <2>1, <2>2, <2>3, FS_EmptySet DEF CountsKept, VerdictedPcs, RunningPcs
<1>2. IInv /\ CountsKept /\ [Next]_vars => CountsKept'
  BY KeepsCounts
<1>3. CountsKept => CountsSurviveRestart
  <2> SUFFICES ASSUME CountsKept, pc \in {"top", "rest", "decide", "assessed"}
               PROVE  completed = ReadCompleted(journal) /\ discarded = ReadDiscarded(journal)
    BY DEF CountsSurviveRestart
  <2>1. journal.rounds \ Uncounted = journal.rounds
    BY DEF Uncounted
  <2>2. Tallied(journal.rounds, journal.discards, completed, discarded)
    BY <2>1 DEF CountsKept
  <2> QED
    BY <2>2 DEF Tallied, ReadCompleted, ReadDiscarded
<1> QED
  BY <1>1, <1>2, <1>3, Invariant, PTL DEF Spec

=============================================================================
