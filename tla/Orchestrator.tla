---------------------------- MODULE Orchestrator ----------------------------
(***************************************************************************)
(* One AERI run: the orchestrator's loop, the operator's threads and the   *)
(* journal they share (src/levi/automatic/orchestrator.py), in the         *)
(* legacy_async mode with one reset policy (SingleResetPolicy).            *)
(*                                                                         *)
(*   the loop      run, _loop, _preflight, _decide, _start, _drive,        *)
(*                 _finish_forward, _finish_reset, _fault, _contain        *)
(*   an operator   stop (any thread, any time), resume, episode_verdict    *)
(*   a restart     create, restore, Journal.recover                        *)
(*                                                                         *)
(* A transaction (_tx) is taken apart where others can get in between:     *)
(* prepared, acted, acknowledged, committed.  _lock is held from the first *)
(* to the last of them; stops and verdicts are registered under _stop_lock *)
(* alone, so they come at any moment.                                      *)
(*                                                                         *)
(* Simplifications.  The journal is what RunJournal shows it to be: a line *)
(* is on disk or not; control epochs and step ids are its subject.         *)
(* Adapters (robot, policy, recorder, judge, scene) are their outcomes,    *)
(* chosen freely; a guard that latched or a red light is one of them.      *)
(* Time-outs are outcomes, a token never expires.  The subtask loop, the   *)
(* intervention cycle and the startup home are left out.                   *)
(*                                                                         *)
(* A definition marked "Mutant" is the bug the definition below it would   *)
(* have to contain for some property to break; nothing uses it.            *)
(***************************************************************************)
EXTENDS RunRules, Integers

CONSTANTS
    StopIds,         \* command ids of stops
    NoStop,
    OtherId,         \* the command id of a verdict or a resume
    Planned,         \* config.episodes: forward episodes the run is to complete
    MaxSteps,        \* steps of an episode
    MaxAttempts,     \* resets since the last forward episode
    OnUnknown,       \* "reset" or "wait_human"
    HomeAfterStop,   \* config.home_after_operator_stop
    VerifyFinal,     \* config.reset_horizon_completion = "verify_final"
    DiscardLimit,    \* discarded rounds a run replaces
    MaxForward,      \* bound: forward episodes
    MaxReset,        \* bound: reset episodes
    MaxCrashes,      \* bound: how often the run is taken over again
    MaxResumes,      \* bound: how often a person takes the run on
    MaxStops         \* bound: registrations of stops

ASSUME CommandsAssumption ==
    /\ StopIds \cap {"nobody", "loop", "resume"} = {}
    /\ NoStop \notin StopIds /\ OtherId \notin StopIds \cup {NoStop}
ASSUME BoundsAssumption ==
    /\ MaxSteps \in Nat /\ DiscardLimit \in Nat
    /\ MaxForward \in Nat /\ MaxReset \in Nat

Roles == {"forward", "reset"}
MaxNumber == [forward |-> MaxForward, reset |-> MaxReset]
Eps == {e \in [role : Roles, number : 1..(MaxForward + MaxReset)] : e.number <= MaxNumber[e.role]}
NoEp == [role |-> "none", number |-> 0]
Keys == [ep : Eps, kind : NON_IDEMPOTENT_KINDS]

NoTx == [to |-> "none", kind |-> "none"]
NoToken == [kind |-> "none"]
NoCtx == [ep |-> NoEp, left |-> 0, ran |-> FALSE, sealed |-> "none", written |-> FALSE,
          auth |-> NoStop, verdict |-> "none", reason |-> "none", outcome |-> "none",
          early |-> FALSE]
NoVerdict == [ep |-> NoEp, label |-> "none"]

VARIABLES
    journal,     \* durable: what a replay of the run's journal yields
    rollout,     \* durable: [Eps -> ...] the recorder's folder of an episode
    pc,          \* where the loop's thread is; "down": no process
    lock,        \* _lock and how far its holder's transaction is
    got,         \* what the loop's last transaction returned
    ctx,         \* the episode under way (Episode)
    numbers,     \* [Roles -> Nat]
    attempts,    \* _reset_attempts
    completed, discarded,      \* completed_forward, discarded_forward
    token,       \* MotionFence._current
    halted,
    stops,       \* [StopIds -> Nat]: registration generation, 0: not registered
    gen,         \* _stop_gen
    consumed,    \* _consumed_stops
    verdict,     \* _verdict: the operator's verdict not yet taken
    spc,         \* [StopIds -> where the thread that sends the stop is]
    rgen,        \* the generation the resume under way read
    \* Ghosts and bounds.
    refused,     \* a rule refused what the code asked for
    owed,        \* stops accepted since the run last rested with a person
    after,       \* policy steps sent while a stop was owed
    crashes, resumes

opvars == <<stops, gen, consumed, verdict, spc, rgen>>
counts == <<numbers, attempts, completed, discarded>>
ghosts == <<refused, owed, after, crashes, resumes>>
vars == <<journal, rollout, pc, lock, got, ctx, numbers, attempts, completed, discarded,
          token, halted, stops, gen, consumed, verdict, spc, rgen, refused, owed, after,
          crashes, resumes>>

HOLD_STATES == {"WAIT_HUMAN", "FAULT_LOCKED", "COMPLETED"}
Free == [by |-> "nobody", at |-> "free"]
State == IF halted THEN "FAULT_LOCKED" ELSE journal.state

Blank == [state |-> "PREFLIGHT", episode |-> NoEp, open |-> NoTx, ack |-> "none",
          attempted |-> {}, begun |-> {}, sealed |-> {}, discards |-> {}, commands |-> {},
          results |-> [e \in Eps |-> 0], complete |-> {}, rounds |-> {}]

Init ==
    /\ journal = Blank
    /\ rollout = [e \in Eps |-> "none"]
    /\ pc = "top"
    /\ lock = Free
    /\ got = "none"
    /\ ctx = NoCtx
    /\ numbers = [r \in Roles |-> 0]
    /\ attempts = 0 /\ completed = 0 /\ discarded = 0
    /\ token = NoToken
    /\ halted = FALSE
    /\ stops = [c \in StopIds |-> 0] /\ gen = 0 /\ consumed = {}
    /\ verdict = NoVerdict
    /\ spc = [c \in StopIds |-> "idle"]
    /\ rgen = 0
    /\ refused = FALSE /\ owed = {} /\ after = 0 /\ crashes = 0 /\ resumes = 0
-----------------------------------------------------------------------------
(* _tx: a transaction, step by step.                                       *)

\* to, reason, kind, who, cmd (an operator's stop id), ep (the context's
\* episode or NoEp), res (the commit carries a result).
Tx(to, reason, kind, cmd, ep) ==
    [to |-> to, reason |-> reason, kind |-> kind,
     who |-> CASE cmd # NoStop -> "operator"
               [] to = "FAULT_LOCKED" /\ reason = "safety_stop" -> "safety_guard"
               [] reason = "recovery_ambiguous" -> "recovery"
               [] OTHER -> "orchestrator",
     cmd |-> cmd, ep |-> ep, res |-> FALSE]

WithResult(t) == [t EXCEPT !.res = TRUE]

KeyOf(t) == [ep |-> t.ep, kind |-> t.kind]

Allowed(t) ==
    /\ journal.open = NoTx
    /\ CheckTransition(State, t.to, t.reason, t.who, t.kind, t.ep.role, t.res)
    /\ t.kind \in NON_IDEMPOTENT_KINDS => KeyOf(t) \notin journal.attempted

Prepared(t) ==
    [journal EXCEPT
        !.open = t, !.ack = "none",
        !.commands = IF t.cmd \in StopIds THEN @ \cup {t.cmd} ELSE @,
        !.attempted = IF t.kind \in NON_IDEMPOTENT_KINDS THEN @ \cup {KeyOf(t)} ELSE @]

\* Mutant: the fence is not revoked first.
Revoked_Later == token

\* The fence once it is revoked.
Revoked == NoToken

\* Take the lock, revoke the fence, check the table, prepare.
Begin(by, t) ==
    /\ lock = Free /\ ~halted
    /\ token' = Revoked
    /\ IF Allowed(t)
       THEN /\ journal' = Prepared(t)
            /\ lock' = [by |-> by, at |-> IF t.kind = "none" THEN "acknowledged" ELSE "prepared"]
            /\ UNCHANGED refused
       ELSE /\ refused' = TRUE
            /\ UNCHANGED <<journal, lock>>

Open == journal.open

\* What an action may come back with; "raises" is an exception.
\* act of _start: an operator's stop first, then policy and recorder.
ActOutcomes ==
    CASE Open.kind = "policy_steps" ->
           IF \E c \in StopIds : stops[c] > 0 THEN {"operator"}
           ELSE {"yes", "policy", "policy_fault", "recorder", "raises"}
      [] Open.kind = "hold" -> {"yes", "raises"}
      [] Open.kind = "policy_quiesce" -> {"yes", "unknown", "raises"}
      [] Open.kind \in Seal -> {"yes", "no"}
      [] Open.kind = "home" -> {"yes", "no", "unknown", "raises"}

\* The home's own token is out while the arm moves.
HomeStarts ==
    /\ lock = [by |-> "loop", at |-> "prepared"] /\ Open.kind = "home"
    /\ token' = [kind |-> "home", ep |-> Open.ep]
    /\ lock' = [lock EXCEPT !.at = "homing"]
    /\ UNCHANGED <<journal, rollout, pc, got, ctx, counts, halted, opvars, ghosts>>

Acts ==
    /\ lock.by = "loop" /\ ~halted
    /\ lock.at = IF Open.kind = "home" THEN "homing" ELSE "prepared"
    /\ \E x \in ActOutcomes \ {"raises"} :
          /\ got' = x
          /\ rollout' = [rollout EXCEPT ![Open.ep] =
                CASE x = "yes" /\ Open.kind = "policy_steps" -> "open"
                  [] x = "yes" /\ Open.kind = "recorder_seal" -> "complete"
                  [] x = "yes" /\ Open.kind = "recorder_abort" -> "incomplete"
                  [] OTHER -> @]
          /\ ctx' = IF x = "yes" /\ Open.kind \in Seal
                    THEN [ctx EXCEPT !.sealed = rollout'[Open.ep]] ELSE ctx
    /\ token' = IF Open.kind = "home" THEN NoToken ELSE token
    /\ lock' = [lock EXCEPT !.at = "acted"]
    /\ UNCHANGED <<journal, pc, counts, halted, opvars, ghosts>>

Acknowledges ==
    /\ lock.at = "acted" /\ ~halted
    /\ journal' = [journal EXCEPT !.ack = IF got \in {"yes", "unknown"} THEN got ELSE "no"]
    /\ lock' = [lock EXCEPT !.at = "acknowledged"]
    /\ UNCHANGED <<rollout, pc, got, ctx, counts, token, halted, opvars, ghosts>>

BeginsEpisode == Open.to \in MOTION_STATES

\* A round counts when its result went on the move to ROBOT_HOME (_counts).
Round == <<journal.state, Open.to>> = <<"FORWARD_FINALIZE", "ROBOT_HOME">>

\* A commit may carry the episode's result, which says whether its rollout is
\* complete; an episode is sealed when its recorder_seal was committed.
Committed(complete) ==
    [journal EXCEPT
        !.state = Open.to, !.open = NoTx, !.ack = "none",
        !.episode = IF Open.ep = NoEp THEN @ ELSE Open.ep,
        !.begun = IF BeginsEpisode THEN @ \cup {Open.ep} ELSE @,
        !.sealed = IF Open.kind = "recorder_seal" THEN @ \cup {Open.ep} ELSE @,
        !.results = IF Open.res THEN [journal.results EXCEPT ![Open.ep] = @ + 1] ELSE @,
        !.complete = IF Open.res /\ complete THEN @ \cup {Open.ep} ELSE @,
        !.rounds = IF Open.res /\ complete /\ Round THEN @ \cup {Open.ep} ELSE @]

Aborted == [journal EXCEPT !.open = NoTx, !.ack = "none"]

\* Where a stop takes effect: the run reached a person on this transaction.
Consumes == Open.to = "WAIT_HUMAN" \/ (Open.to = "COMPLETED" /\ Open.reason = "operator_stop")

Commits ==
    /\ lock.at = "acknowledged" /\ ~halted
    /\ Open.kind = "none" \/ journal.ack = "yes"
    /\ journal' = Committed(ctx.sealed = "complete")
    /\ ctx' = IF Open.res THEN [ctx EXCEPT !.written = TRUE] ELSE ctx
    /\ got' = IF lock.by = "loop" THEN "yes" ELSE got
    /\ lock' = CASE Consumes -> [lock EXCEPT !.at = "consume"]
                 [] lock.by = "resume" -> [lock EXCEPT !.at = "clear"]
                 [] OTHER -> Free
    /\ owed' = IF Open.to \in HOLD_STATES THEN {} ELSE owed
    /\ after' = IF Open.to \in HOLD_STATES THEN 0 ELSE after
    /\ UNCHANGED <<rollout, pc, counts, token, halted, opvars, refused, crashes, resumes>>

Aborts ==
    /\ lock.at = "acknowledged" /\ ~halted
    /\ Open.kind # "none" /\ journal.ack # "yes"
    /\ journal' = Aborted
    /\ lock' = Free
    /\ UNCHANGED <<rollout, pc, got, ctx, counts, token, halted, opvars, ghosts>>

\* _consume_stops; the command on whose authority it happened is one of them.
ConsumesStops ==
    /\ lock.at = "consume" /\ ~halted
    /\ consumed' = consumed \cup {c \in StopIds : stops[c] > 0}
    /\ stops' = [c \in StopIds |-> 0]
    /\ lock' = Free
    /\ UNCHANGED <<journal, rollout, pc, got, ctx, counts, token, halted, gen, verdict, spc,
                   rgen, ghosts>>
-----------------------------------------------------------------------------
(* The loop: what happens between its transactions.                        *)

\* The loop's thread is at p, holding no lock.
LoopAt(p) == pc = p /\ lock.by # "loop" /\ ~halted

FirstStop ==
    IF \A c \in StopIds : stops[c] = 0 THEN NoStop
    ELSE CHOOSE c \in StopIds :
            stops[c] > 0 /\ \A d \in StopIds : stops[d] > 0 => stops[c] <= stops[d]
Stopped == FirstStop # NoStop

Goes(p) ==
    /\ pc' = p /\ got' = "none"
    /\ UNCHANGED <<journal, rollout, lock, ctx, counts, token, halted, opvars, ghosts>>

\* The loop is about to lock the run: _fault(reason).
Faults(reason) ==
    /\ pc' = "faulting" /\ got' = reason
    /\ UNCHANGED <<journal, rollout, lock, ctx, counts, token, halted, opvars, ghosts>>

\* The loop begins a transaction and goes on at next when it is over.
Asks(t, next) ==
    /\ Begin("loop", t)
    /\ pc' = IF Allowed(t) THEN next ELSE "contain"
    /\ got' = "none"
    /\ UNCHANGED <<halted, owed, after, crashes, resumes>>

Moves(t, next) == Asks(t, next) /\ UNCHANGED <<rollout, ctx, counts, opvars>>

ToHuman(reason, cmd) == Moves(Tx("WAIT_HUMAN", reason, "none", cmd, NoEp), "top")

\* _loop, and the runner that calls it again once the run goes on.
Top ==
    /\ LoopAt("top")
    /\ CASE State \in HOLD_STATES -> Goes("rest")
         [] State = "PREFLIGHT" -> Goes("preflight")
         [] State \in SceneStates -> Goes("decide")
         [] OTHER -> Faults("watchdog_timeout")

\* Mutant: a run that goes on with a stop registered is left waiting.
Wakes_Unstopped == State \notin HOLD_STATES /\ \A c \in StopIds : stops[c] = 0

Wakes == State \notin HOLD_STATES

Rest == LoopAt("rest") /\ Wakes /\ Goes("top")

Preflight ==
    /\ LoopAt("preflight")
    /\ \/ Moves(Tx("VERIFY_INITIAL", "preflight_passed", "none", NoStop, NoEp), "top")
       \/ Faults("safety_stop")
       \/ ToHuman("preflight_failed", NoStop)

\* The run has all its rounds.
Done == completed >= Planned

\* _decide up to the scene assessment, which takes its time.  An episode in
\* which a provider broke its contract brings the run to a person first.
Decide ==
    /\ LoopAt("decide")
    /\ CASE Stopped -> ToHuman("operator_stop", FirstStop)
         [] OTHER ->
              \/ /\ \E role \in Roles : numbers[role] > 0
                 /\ ToHuman("contract_violation_limit", NoStop)
              \/ IF Done
                 THEN Moves(Tx("COMPLETED", "run_completed", "none", NoStop, NoEp), "top")
                 ELSE Goes("assessed")

\* SingleResetPolicy.plan on what the assessment said.
MayReset(decision) ==
    attempts < MaxAttempts /\ (decision = "reset_required" \/ OnUnknown = "reset")
SceneReason(decision) ==
    IF decision = "reset_required" THEN "scene_reset_required" ELSE "scene_unknown"

\* _start: a new episode, up to its transaction.
Starts(role, reason) ==
    LET e == [role |-> role, number |-> numbers[role] + 1] IN
    /\ numbers[role] < MaxNumber[role]
    /\ numbers' = [numbers EXCEPT ![role] = @ + 1]
    /\ ctx' = [NoCtx EXCEPT !.ep = e, !.left = MaxSteps]
    /\ Asks(Tx(IF role = "forward" THEN "FORWARD_ACTIVE" ELSE "RESET_ACTIVE",
               reason, "policy_steps", NoStop, e), "started")
    /\ attempts' = IF role = "forward" THEN 0 ELSE attempts + 1
    /\ UNCHANGED <<rollout, completed, discarded, opvars>>

\* _decide after the assessment; a broken contract or a scene that could not
\* be kept goes to a person as well.
Assessed ==
    /\ LoopAt("assessed")
    /\ \/ Stopped /\ ToHuman("operator_stop", FirstStop)
       \/ ~Stopped /\ ToHuman("contract_violation_limit", NoStop)
       \/ ~Stopped /\ Starts("forward", "scene_ready")
       \/ /\ ~Stopped
          /\ \E decision \in {"reset_required", "unknown"} :
                IF MayReset(decision) THEN Starts("reset", SceneReason(decision))
                ELSE ToHuman(SceneReason(decision), NoStop)

\* _start after its transaction: the motion is authorised, or the episode
\* never began.
Started ==
    /\ LoopAt("started")
    /\ IF got = "yes"
       THEN /\ token' = [kind |-> "policy_steps", ep |-> ctx.ep]
            /\ pc' = "drive" /\ got' = "none"
            /\ UNCHANGED ctx
       ELSE /\ ctx' = NoCtx
            /\ CASE got = "recorder" -> pc' = "faulting" /\ got' = "recorder_failed"
                 [] got = "policy_fault" -> pc' = "faulting" /\ got' = "policy_error"
                 [] OTHER -> pc' = "notStarted" /\ UNCHANGED got
            /\ UNCHANGED token
    /\ UNCHANGED <<journal, rollout, lock, counts, halted, opvars, ghosts>>

NotStarted ==
    /\ LoopAt("notStarted")
    /\ IF got = "operator" THEN ToHuman("operator_stop", FirstStop)
       ELSE ToHuman("policy_error", NoStop)
-----------------------------------------------------------------------------
(* _drive: one iteration checks, then steps.                               *)

Forward == ctx.ep.role = "forward"

\* Mutant: the stop is looked at only before the first step.
StopSeen_FirstOnly == Stopped /\ ~ctx.ran

\* The stop as an iteration sees it.
StopSeen == Stopped

\* The steps end for this reason, on this operator's command if any.
Ends(reason, cmd) ==
    /\ ctx' = [ctx EXCEPT !.reason = reason, !.auth = cmd, !.left = 0]
    /\ pc' = IF Forward THEN "stopping" ELSE "verifying"
    /\ UNCHANGED <<journal, rollout, lock, got, counts, token, halted, opvars, ghosts>>

\* _take_verdict; one of another episode is dropped.
TakesVerdict ==
    /\ verdict' = NoVerdict
    /\ IF verdict.ep = ctx.ep THEN pc' = "recording" /\ got' = verdict.label
       ELSE UNCHANGED <<pc, got>>
    /\ UNCHANGED <<journal, rollout, lock, ctx, counts, token, halted, stops, gen, consumed,
                   spc, rgen, ghosts>>

\* _record_verdict: the note is durable before the episode knows its verdict.
RecordsVerdict ==
    /\ LoopAt("recording")
    /\ journal' = IF got = "discard" THEN [journal EXCEPT !.discards = @ \cup {ctx.ep}]
                  ELSE journal
    /\ ctx' = [ctx EXCEPT !.verdict = got, !.auth = OtherId, !.reason = "operator_verdict",
                          !.left = 0]
    /\ pc' = "stopping" /\ got' = "none"
    /\ UNCHANGED <<rollout, lock, counts, token, halted, opvars, ghosts>>

\* A chunk that was dropped costs an iteration.
LosesChunk ==
    /\ ctx' = [ctx EXCEPT !.left = @ - 1]
    /\ UNCHANGED <<journal, rollout, pc, lock, got, counts, token, halted, opvars, ghosts>>

\* The first inference failed before anything moved.
FailsEarly ==
    /\ ~ctx.ran
    /\ ctx' = [ctx EXCEPT !.reason = "policy_error", !.left = 0, !.early = TRUE]
    /\ pc' = IF Forward THEN "stopping" ELSE "verifying"
    /\ UNCHANGED <<journal, rollout, lock, got, counts, token, halted, opvars, ghosts>>

\* The stop first, then the guard, then the verdict, then everything else.
DriveChecks ==
    /\ LoopAt("drive")
    /\ \/ /\ ctx.left = 0
          /\ Ends(IF Forward THEN "horizon_exhausted" ELSE "reset_horizon_exhausted", NoStop)
       \/ ctx.left > 0 /\ StopSeen /\ Ends("operator_stop", FirstStop)
       \/ /\ ctx.left > 0 /\ ~StopSeen
          /\ \/ Faults("safety_stop")
             \/ Forward /\ verdict # NoVerdict /\ TakesVerdict
             \/ /\ Forward => verdict = NoVerdict
                /\ \/ \E reason \in {"camera_stale", "goal_verified", "policy_error"} :
                         Ends(reason, NoStop)
                   \/ FailsEarly
                   \/ LosesChunk
                   \/ Faults("recorder_failed")
                   \/ Goes("step")

\* robot.step under the episode's token, then recorder.commit.
Step ==
    /\ LoopAt("step")
    /\ \/ /\ token.kind = "policy_steps" /\ token.ep = ctx.ep
          /\ \E saved \in BOOLEAN :
                IF saved THEN pc' = "drive" /\ UNCHANGED got
                ELSE pc' = "faulting" /\ got' = "recorder_failed"
          /\ ctx' = [ctx EXCEPT !.left = @ - 1, !.ran = TRUE]
          /\ after' = IF owed # {} THEN after + 1 ELSE after
          /\ UNCHANGED <<journal, rollout, lock, counts, token, halted, opvars, refused, owed,
                         crashes, resumes>>
       \/ Faults("watchdog_timeout")
       \/ Faults("safety_stop")
       \/ Ends("policy_error", NoStop)
-----------------------------------------------------------------------------
(* _finish_forward.                                                        *)

EpTx(to, reason, kind, cmd) == Tx(to, reason, kind, cmd, ctx.ep)

Stopping ==
    /\ LoopAt("stopping")
    /\ Moves(EpTx("FORWARD_STOPPING", ctx.reason, "hold", ctx.auth), "stopped")

\* Mutant: the verdict nobody took stays.
VerdictDropped_Not == verdict

\* _drop_verdict.
VerdictDropped == NoVerdict

\* Nobody takes a verdict any more; then the quiesce.
Drops ==
    /\ LoopAt("stopped")
    /\ verdict' = VerdictDropped
    /\ pc' = "finalizing" /\ got' = "none"
    /\ UNCHANGED <<journal, rollout, lock, ctx, counts, token, halted, stops, gen,
                   consumed, spc, rgen, ghosts>>

Finalizing ==
    /\ LoopAt("finalizing")
    /\ Moves(EpTx("FORWARD_FINALIZE", ctx.reason, "policy_quiesce", ctx.auth), "finalized")

SealKind == IF ctx.ran THEN "recorder_seal" ELSE "recorder_abort"

\* An episode whose first inference failed locks the run before it is sealed.
Finalized ==
    /\ LoopAt("finalized")
    /\ IF got # "yes" \/ (~ctx.ran /\ ctx.early /\ ~Stopped)
       THEN Faults("policy_error")
       ELSE Moves(WithResult(EpTx("ROBOT_HOME", ctx.reason, SealKind, ctx.auth)), "sealed")

\* _replaces: a discarded round is replaced while the limit lasts; beyond it
\* it counts.
Replaced == ctx.verdict = "discard" /\ discarded < DiscardLimit

Sealed ==
    /\ LoopAt("sealed")
    /\ IF got # "yes"
       THEN Faults("recorder_failed")
       ELSE /\ completed' = IF ctx.ran /\ ~Replaced THEN completed + 1 ELSE completed
            /\ discarded' = IF ctx.ran /\ Replaced THEN discarded + 1 ELSE discarded
            /\ pc' = "counted" /\ got' = "none"
            /\ UNCHANGED <<journal, rollout, lock, ctx, numbers, attempts, token, halted,
                           opvars, ghosts>>

StopOf == IF ctx.reason = "operator_stop" THEN ctx.auth ELSE FirstStop

\* _stays_put: the arm is left where the stop found it.
StaysPut == StopOf # NoStop /\ (~ctx.ran \/ ~HomeAfterStop)

\* To a person without a home, the episode's context gone first.
WaitsInPlace(reason, cmd) ==
    /\ ctx' = NoCtx
    /\ Asks(Tx("WAIT_HUMAN", reason, "none", cmd, NoEp), "top")
    /\ UNCHANGED <<rollout, counts, opvars>>

Counted ==
    /\ LoopAt("counted")
    /\ CASE StaysPut -> WaitsInPlace("operator_stop", StopOf)
         [] ~StaysPut /\ ctx.reason = "camera_stale" -> WaitsInPlace("camera_stale", NoStop)
         [] OTHER -> \/ Faults("safety_stop")
                     \/ Moves(EpTx("SCENE_ASSESS", "robot_home_reached", "home", ctx.auth), "homed")

\* Mutant: only a home that did not run at all is a failure.
HomeFailed_OnlyNo == got \notin {"yes", "unknown"}

\* The last transaction of an episode, forward or reset, did not go through.
HomeFailed == got # "yes"

Homed ==
    /\ LoopAt("homed")
    /\ IF HomeFailed THEN Faults("home_failed")
       ELSE /\ ctx' = NoCtx /\ pc' = "top" /\ got' = "none"
            /\ UNCHANGED <<journal, rollout, lock, counts, token, halted, opvars, ghosts>>
-----------------------------------------------------------------------------
(* _finish_reset.                                                          *)

Verifying ==
    /\ LoopAt("verifying")
    /\ Moves(EpTx("RESET_VERIFY", ctx.reason, "policy_quiesce", ctx.auth), "verified")

Concludes(reason, cmd, outcome) ==
    /\ ctx' = [ctx EXCEPT !.reason = reason, !.auth = cmd, !.outcome = outcome]
    /\ pc' = "concluded" /\ got' = "none"
    /\ UNCHANGED <<journal, rollout, lock, counts, token, halted, opvars, ghosts>>

\* The final judgement (verify_final, horizon only) and the scene decide the
\* outcome; the stops are read again after each of them.
Verified ==
    LET bounded == VerifyFinal /\ ctx.reason = "reset_horizon_exhausted" IN
    /\ LoopAt("verified")
    /\ CASE got # "yes" -> Faults("policy_error")
         [] got = "yes" /\ bounded ->
              \/ Faults("safety_stop")
              \/ Stopped /\ Concludes("operator_stop", FirstStop, "operator_stop")
              \/ ~Stopped /\ Concludes(ctx.reason, ctx.auth, ctx.reason)
              \/ ~Stopped /\ ctx.ran /\ Concludes(ctx.reason, ctx.auth, "reset_verified")
         [] OTHER ->
              IF ctx.reason = "goal_verified"
              THEN \E o \in {"reset_verified", "scene_reset_required", "scene_unknown"} :
                      Concludes(ctx.reason, ctx.auth, o)
              ELSE Concludes(ctx.reason, ctx.auth, ctx.reason)

Concluded ==
    /\ LoopAt("concluded")
    /\ Moves(EpTx("RESET_FINALIZE", ctx.outcome, SealKind, ctx.auth), "resetSealed")

\* SingleResetPolicy.after_reset.
AfterReset ==
    IF \/ ctx.outcome = "reset_verified"
       \/ /\ ctx.outcome \in {"scene_reset_required", "scene_unknown"}
          /\ attempts < MaxAttempts /\ ~Stopped
    THEN "VERIFY_INITIAL" ELSE "WAIT_HUMAN"

\* The result goes on the transaction that leaves RESET_FINALIZE.
ResetSealed ==
    /\ LoopAt("resetSealed")
    /\ CASE got # "yes" -> Faults("recorder_failed")
         [] got = "yes" /\ StaysPut ->
              Moves(WithResult(EpTx("WAIT_HUMAN", "operator_stop", "none", StopOf)), "homed")
         [] got = "yes" /\ ~StaysPut /\ ctx.outcome = "camera_stale" ->
              Moves(WithResult(EpTx("WAIT_HUMAN", "camera_stale", "none", NoStop)), "homed")
         [] OTHER ->
              \/ Faults("safety_stop")
              \/ Moves(WithResult(EpTx(AfterReset, ctx.outcome, "home",
                                       IF AfterReset = "WAIT_HUMAN" THEN ctx.auth ELSE NoStop)),
                    "homed")
-----------------------------------------------------------------------------
(* _fault and _contain.                                                    *)

\* The fault carries the episode's result: it has none yet.
FaultRes == ctx.ep # NoEp /\ ~ctx.written /\ State \in EPISODE_STATES

\* The verdict is cleared, an open rollout abandoned (which may fail), the
\* robot held where a policy may still be inferring; an episode that has no
\* result yet gets one.
Faulting ==
    LET contained == got = "contained"
        open == ctx.ep # NoEp /\ ctx.sealed = "none" /\ rollout[ctx.ep] = "open"
        t == Tx("FAULT_LOCKED", IF contained THEN "watchdog_timeout" ELSE got,
                IF State \in POLICY_MAY_INFER /\ ~contained THEN "hold" ELSE "none",
                NoStop, IF FaultRes THEN ctx.ep ELSE NoEp)
    IN
    /\ LoopAt("faulting")
    /\ verdict' = VerdictDropped
    /\ \E aborted \in {open, FALSE} :
          /\ rollout' = IF aborted THEN [rollout EXCEPT ![ctx.ep] = "incomplete"] ELSE rollout
          /\ ctx' = IF aborted THEN [ctx EXCEPT !.sealed = "incomplete"] ELSE ctx
    /\ Asks(IF FaultRes THEN WithResult(t) ELSE t,
            IF contained THEN "contained" ELSE "faulted")
    /\ UNCHANGED <<counts, stops, gen, consumed, spc, rgen>>

\* Verdicts that came before the lock was committed go too.
Faulted ==
    /\ LoopAt("faulted") \/ LoopAt("contained")
    /\ ctx' = NoCtx
    /\ verdict' = VerdictDropped
    /\ pc' = IF pc = "faulted" THEN "top" ELSE "raised"
    /\ got' = "none"
    /\ UNCHANGED <<journal, rollout, lock, counts, token, halted, stops, gen, consumed,
                   spc, rgen, ghosts>>

\* Between two transactions an adapter is asked: the robot and the policy at
\* the preflight and in the steps, the scene before and after a reset, the
\* judge for the last word, the guards before a home.
AsksAdapter ==
    \/ pc \in {"preflight", "assessed", "drive", "step"}
    \/ pc = "finalized" /\ got = "yes" /\ ctx.ran
    \/ pc = "verified" /\ got = "yes"
    \/ pc = "counted" /\ ~StaysPut /\ ctx.reason # "camera_stale"
    \/ pc = "resetSealed" /\ got = "yes" /\ ~StaysPut /\ ctx.outcome # "camera_stale"

\* An adapter raises, inside a transaction or between two.
InAdapter ==
    \/ lock.by = "loop" /\ lock.at \in {"prepared", "homing"} /\ "raises" \in ActOutcomes
    \/ lock = Free /\ AsksAdapter

Raises ==
    /\ InAdapter /\ ~halted
    /\ token' = NoToken
    /\ lock' = Free
    /\ pc' = "contain"
    /\ UNCHANGED <<journal, rollout, got, ctx, counts, halted, opvars, ghosts>>

\* The transaction it broke off is closed as unknown before the run locks.
Contain ==
    /\ LoopAt("contain") /\ lock = Free
    /\ journal' = Aborted
    /\ got' = "contained"
    /\ pc' = IF State \in {"FAULT_LOCKED", "COMPLETED"} THEN "raised" ELSE "faulting"
    /\ UNCHANGED <<rollout, lock, ctx, counts, token, halted, opvars, ghosts>>

\* A line cannot be written: halted in memory, nothing authorised.  The line
\* may be on disk all the same; Crash between two lines is that case.
Halts ==
    /\ lock # Free /\ ~halted
    /\ halted' = TRUE
    /\ token' = NoToken
    /\ lock' = Free
    /\ pc' = "raised"
    /\ UNCHANGED <<journal, rollout, got, ctx, counts, opvars, ghosts>>
-----------------------------------------------------------------------------
(* The operator: stop, resume and episode_verdict, each from its own       *)
(* thread, at any moment.                                                  *)

Serving == pc \notin {"down", "raised", "abort", "prepare", "commit", "rollouts"}

\* stop: a command already pending, taken or used returns at once; so does
\* one to a run that is locked or over.
StopChecks(c) ==
    /\ Serving /\ spc[c] = "idle" /\ gen < MaxStops
    /\ stops[c] = 0 /\ c \notin consumed /\ c \notin journal.commands
    /\ State \notin {"FAULT_LOCKED", "COMPLETED"}
    /\ spc' = [spc EXCEPT ![c] = "checked"]
    /\ UNCHANGED <<journal, rollout, pc, lock, got, ctx, counts, token, halted, stops, gen,
                   consumed, verdict, rgen, ghosts>>

\* Under _stop_lock only: the loop sees it from now on.
StopRegisters(c) ==
    /\ Serving /\ spc[c] = "checked"
    /\ gen' = gen + 1
    /\ stops' = [stops EXCEPT ![c] = gen + 1]
    /\ owed' = owed \cup {c}
    /\ spc' = [spc EXCEPT ![c] = "registered"]
    /\ UNCHANGED <<journal, rollout, pc, lock, got, ctx, counts, token, halted, consumed,
                   verdict, rgen, refused, after, crashes, resumes>>

\* With the state lock, a run that waits for a person ends here.
EndsHere(c) == State = "WAIT_HUMAN" /\ ~halted /\ stops[c] > 0

StopCompletes(c) ==
    /\ Serving /\ spc[c] = "registered"
    /\ EndsHere(c)
    /\ Begin(c, Tx("COMPLETED", "operator_stop", "none", c, NoEp))
    /\ spc' = [spc EXCEPT ![c] = "idle"]
    /\ UNCHANGED <<rollout, pc, got, ctx, counts, halted, stops, gen, consumed, verdict, rgen,
                   owed, after, crashes, resumes>>

\* The run does not wait, or the lock was not free within STOP_LOCK_WAIT_S.
StopReturns(c) ==
    /\ Serving /\ spc[c] = "registered"
    /\ lock # Free \/ ~EndsHere(c)
    /\ spc' = [spc EXCEPT ![c] = "idle"]
    /\ UNCHANGED <<journal, rollout, pc, lock, got, ctx, counts, token, halted, stops, gen,
                   consumed, verdict, rgen, ghosts>>

\* resume: the stops registered so far are older than it.
Resume ==
    /\ Serving /\ resumes < MaxResumes
    /\ State \in HUMAN_STATES
    /\ Begin("resume", Tx("PREFLIGHT", "human_resumed", "none", OtherId, NoEp))
    /\ rgen' = gen
    /\ owed' = {} /\ after' = 0
    /\ resumes' = resumes + 1
    /\ UNCHANGED <<rollout, pc, got, ctx, counts, halted, stops, gen, consumed, verdict, spc,
                   crashes>>

\* Mutant: every stop is, the ones that came during the resume too.
Overridden_Every(c) == stops[c] <= gen

\* The stops registered before the resume began are overridden, once it is
\* durable.
Overridden(c) == stops[c] <= rgen

ResumeClears ==
    /\ lock = [by |-> "resume", at |-> "clear"]
    /\ stops' = [c \in StopIds |-> IF Overridden(c) THEN 0 ELSE stops[c]]
    /\ consumed' = {} /\ rgen' = 0
    /\ attempts' = 0
    /\ lock' = Free
    /\ UNCHANGED <<journal, rollout, pc, got, ctx, numbers, completed, discarded, token, halted,
                   gen, verdict, spc, ghosts>>

\* episode_verdict registers under _stop_lock; one per episode.
EpisodeVerdict ==
    /\ Serving
    /\ ~Stopped
    /\ State = "FORWARD_ACTIVE" /\ ctx.ep.role = "forward"
    /\ verdict = NoVerdict /\ ctx.verdict = "none"
    /\ \E l \in {"keep", "discard"} : verdict' = [ep |-> ctx.ep, label |-> l]
    /\ UNCHANGED <<journal, rollout, pc, lock, got, ctx, counts, token, halted, stops, gen,
                   consumed, spc, rgen, ghosts>>
-----------------------------------------------------------------------------
(* The process ends, and another takes the run over (restore).             *)

\* What a new process reads back from the journal (_read_back): the rounds
\* sealed complete count; discarded ones are replaced while the limit lasts.

\* Mutant: without the limit.
ReadDiscarded_All(j) == Cardinality(j.rounds \cap j.discards)

ReadDiscarded(j) ==
    LET n == Cardinality(j.rounds \cap j.discards)
    IN  IF n < DiscardLimit THEN n ELSE DiscardLimit
ReadCompleted(j) == Cardinality(j.rounds) - ReadDiscarded(j)

\* Mutant: an episode that was prepared and never began is forgotten.
ReadNumber_Begun(j, role) == Cardinality({e \in j.begun : e.role = role})

\* The last number a transaction was prepared for.
ReadNumber(j, role) ==
    LET ns == {k.ep.number : k \in {a \in j.attempted : a.ep.role = role}}
    IN  IF ns = {} THEN 0 ELSE CHOOSE n \in ns : \A m \in ns : m <= n

\* A crash, or the exit after an exception: what was in memory is gone.
Crash ==
    /\ pc # "down"
    /\ pc' = "down" /\ lock' = Free /\ got' = "none" /\ ctx' = NoCtx
    /\ token' = NoToken /\ halted' = FALSE
    /\ numbers' = [r \in Roles |-> 0] /\ attempts' = 0 /\ completed' = 0 /\ discarded' = 0
    /\ stops' = [c \in StopIds |-> 0] /\ gen' = 0 /\ consumed' = {}
    /\ verdict' = NoVerdict /\ spc' = [c \in StopIds |-> "idle"] /\ rgen' = 0
    /\ owed' = {} /\ after' = 0
    /\ UNCHANGED <<journal, rollout, refused, crashes, resumes>>

\* Journal.open, and Journal.recover's first line; a finished run is left.
Restart ==
    /\ pc = "down" /\ crashes < MaxCrashes
    /\ crashes' = crashes + 1
    /\ numbers' = [r \in Roles |-> ReadNumber(journal, r)]
    /\ completed' = ReadCompleted(journal) /\ discarded' = ReadDiscarded(journal)
    /\ pc' = CASE journal.state = "COMPLETED" /\ journal.open = NoTx -> "rollouts"
               [] journal.open # NoTx -> "abort"
               [] OTHER -> "prepare"
    /\ UNCHANGED <<journal, rollout, lock, got, ctx, attempts, token, halted, opvars, refused,
                   owed, after, resumes>>

\* Mutant: the episode stays without one.
CrashRes_Never == FALSE

\* _crash_result: the episode the crash cut short, if it has no result.
CrashRes ==
    /\ journal.state \in EPISODE_STATES
    /\ journal.results[journal.episode] = 0

Recover(p, j, next) ==
    /\ pc = p
    /\ journal' = j
    /\ pc' = next
    /\ UNCHANGED <<rollout, lock, got, ctx, counts, token, halted, opvars, ghosts>>

RecoverAborts == Recover("abort", Aborted, "prepare")

RecoverPrepares ==
    LET t == Tx("FAULT_LOCKED", "recovery_ambiguous", "none", NoStop,
                IF CrashRes THEN journal.episode ELSE NoEp)
    IN  Recover("prepare", Prepared(IF CrashRes THEN WithResult(t) ELSE t), "commit")

RecoverCommits == Recover("commit", Committed(journal.episode \in journal.sealed), "rollouts")

\* Mutant: a folder that was sealed is left alone.
Abandoned_OnlyOpen(e) == rollout[e] = "open"

\* What the journal did not seal is not complete.
Abandoned(e) == rollout[e] \in {"open", "complete"} /\ e \notin journal.sealed

\* _recover_rollouts.
RecoverRollouts ==
    /\ pc = "rollouts"
    /\ rollout' = [e \in Eps |-> IF Abandoned(e) THEN "incomplete" ELSE rollout[e]]
    /\ pc' = "rest"
    /\ UNCHANGED <<journal, lock, got, ctx, counts, token, halted, opvars, ghosts>>
-----------------------------------------------------------------------------
Loop ==
    \/ Top \/ Rest \/ Preflight \/ Decide \/ Assessed \/ Started \/ NotStarted
    \/ DriveChecks \/ RecordsVerdict \/ Step
    \/ Stopping \/ Drops \/ Finalizing \/ Finalized \/ Sealed \/ Counted \/ Homed
    \/ Verifying \/ Verified \/ Concluded \/ ResetSealed
    \/ Faulting \/ Faulted \/ Contain

Transaction ==
    \/ HomeStarts \/ Acts \/ Acknowledges \/ Commits \/ Aborts \/ ConsumesStops \/ ResumeClears

Operator ==
    \/ \E c \in StopIds :
          StopChecks(c) \/ StopRegisters(c) \/ StopCompletes(c) \/ StopReturns(c)
    \/ Resume
    \/ EpisodeVerdict

Process ==
    \/ Raises \/ Halts \/ Crash \/ Restart
    \/ RecoverAborts \/ RecoverPrepares \/ RecoverCommits \/ RecoverRollouts

Next == Loop \/ Transaction \/ Operator \/ Process

Spec == Init /\ [][Next]_vars

\* Every adapter call returns and every thread is scheduled; nobody has to
\* send a command, resume a run or restart a process.
FairSpec == Spec /\ WF_vars(Loop) /\ WF_vars(Transaction)
-----------------------------------------------------------------------------
(* Safety.                                                                 *)

Pcs == {"top", "rest", "preflight", "decide", "assessed", "started", "notStarted", "drive",
        "recording", "step", "stopping", "stopped", "finalizing", "finalized", "sealed", "counted", "homed",
        "verifying", "verified", "concluded", "resetSealed", "faulting", "faulted", "contain",
        "contained", "raised", "down", "abort", "prepare", "commit", "rollouts"}

TypeOK ==
    /\ journal.state \in AERI_STATES
    /\ journal.begun \cup journal.sealed \cup journal.discards \subseteq Eps
    /\ journal.attempted \subseteq Keys
    /\ rollout \in [Eps -> {"none", "open", "complete", "incomplete"}]
    /\ pc \in Pcs
    /\ lock.by \in {"nobody", "loop", "resume"} \cup StopIds
    /\ lock.at \in {"free", "prepared", "homing", "acted", "acknowledged", "consume", "clear"}
    /\ ctx.ep \in Eps \cup {NoEp} /\ ctx.left \in 0..MaxSteps
    /\ \A r \in Roles : numbers[r] \in 0..MaxNumber[r]
    /\ stops \in [StopIds -> 0..gen]
    /\ verdict.ep \in Eps \cup {NoEp}

\* Whatever stops, verdicts, faults and adapters come in between, the loop
\* never asks for a move its own table refuses, never repeats a physical
\* action's key and never prepares over an open transaction: any of them
\* would be an exception, and lock the run.
TableNeverRefuses == ~refused

\* _loop finds the run only in a state it can go on from ("finding one here
\* means a chain broke off").
NoChainBreaks ==
    LoopAt("top") => State \in HOLD_STATES \cup SceneStates \cup {"PREFLIGHT"}

\* A motion token that is out is backed by what is on disk: the episode's
\* committed motion state, or the home being carried out, of this epoch.
FenceBackedByJournal ==
    /\ token.kind = "policy_steps" =>
          /\ journal.open = NoTx
          /\ journal.state \in MOTION_STATES
          /\ journal.episode = token.ep
    /\ token.kind = "home" =>
          /\ journal.open # NoTx /\ journal.ack = "none"
          /\ journal.open.kind = "home" /\ journal.open.ep = token.ep

\* A stop that was registered stays registered until the run rests with a
\* person: a resume overrides only the stops that came before it.
StopNotLost == \A c \in owed : State \in HOLD_STATES \/ stops[c] > 0

\* At most the one step that was already under way follows a stop, and no
\* new episode moves.
StopWithinOneStep == after <= 1

\* Every episode that began has exactly one result as soon as the run is no
\* longer inside it, crashes and faults included; no other has one.
InEpisode(e) == journal.state \in EPISODE_STATES /\ journal.episode = e
OneResultPerEpisode ==
    \A e \in Eps :
        /\ journal.results[e] <= 1
        /\ journal.results[e] = 1 => e \in journal.begun
        /\ e \in journal.begun => InEpisode(e) \/ journal.results[e] = 1

\* A verdict that waits is of the episode under way, however late it was
\* registered: it is never left behind to end, or to block, the next one.
VerdictOfItsEpisode == verdict # NoVerdict => verdict.ep = ctx.ep

\* The rounds a running process counts are those a restart would read back.
CountsSurviveRestart ==
    pc \in {"top", "rest", "decide", "assessed"} =>
        completed = ReadCompleted(journal) /\ discarded = ReadDiscarded(journal)

\* A result says "complete" only of a rollout that is; at rest the recorder's
\* complete rollouts are exactly the ones whose seal was committed.
RolloutsAgree ==
    /\ \A e \in journal.complete : rollout[e] = "complete"
    /\ pc = "rest" => \A e \in Eps : rollout[e] = "complete" <=> e \in journal.sealed

\* The run as EvaluationRun sees it.
RunMode ==
    IF journal.state = "COMPLETED" THEN "over"
    ELSE IF journal.state \in HUMAN_STATES THEN "resting" ELSE "going"
RunLife ==
    [e \in Eps |-> IF e \notin journal.begun THEN "new"
                   ELSE IF journal.results[e] > 0 THEN "closed" ELSE "running"]
RunMoving == IF token = NoToken THEN NoEp ELSE token.ep

Run == INSTANCE EvaluationRun WITH
    Episodes <- Eps,
    None <- NoEp,
    mode <- RunMode,
    life <- RunLife,
    current <- journal.episode,
    moving <- RunMoving

\* The orchestrator, its crashes and restarts included, keeps that promise.
ImplementsRun == Run!Spec
-----------------------------------------------------------------------------
(* Liveness.                                                               *)

\* A stop that was registered brings the run to a person (or to a fault),
\* unless the process dies or a resume overrides it first.
StopHonoured ==
    \A c \in StopIds :
        c \in owed ~> c \notin owed \/ State \in HOLD_STATES \/ pc \in {"down", "raised"}
=============================================================================
