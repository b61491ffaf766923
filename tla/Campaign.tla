------------------------------- MODULE Campaign -------------------------------
(***************************************************************************)
(* The conductor of an automatic evaluation campaign:                      *)
(* src/levi/automatic/campaign/conductor.py, with the file drop box        *)
(* through which a person answers (adapters.py), the host of the policy    *)
(* services (switch.py) and the loop that drives it (controller.py).       *)
(*                                                                         *)
(* One call of advance decides on what it reads and leaves in todo what it *)
(* will do: journal lines, each one append, and at most one side effect    *)
(* ("act").  The conductor can die between any two of them, and in the     *)
(* middle of a side effect: before it or after it.                         *)
(*                                                                         *)
(* Simplifications.  The flock on the robot leaves one conductor.  What an *)
(* answer says is chosen when it is taken, and a child's unplanned         *)
(* interventions when it is sealed: nobody reads them before; a pause      *)
(* waits in its folder for the next advance, so it is as good as asked     *)
(* then.  One answer waits at a time.  A child's fault and its crash are   *)
(* one failure.  No session writer (the controller passes none), no        *)
(* unblinding notes.  Persons and children act between two steps, where    *)
(* they are looked at; the policy port changes at any time.                *)
(***************************************************************************)
EXTENDS CampaignRules, Sequences, FiniteSets

CONSTANTS
    Arms,
    ArmOf,           \* [Segments -> Arms]: the frozen schedule
    MaxInterventions,\* stop_rules.unplanned_interventions_per_arm
    Nobody,          \* nothing listens on the policy port
    Foreign,         \* a policy server started by hand does
    Nothing          \* no question, no answer

ASSUME ArmsAssumption ==
    /\ ArmOf \in [Segments -> Arms] /\ MaxInterventions \in Nat
    /\ Nobody \notin Arms /\ Foreign \notin Arms /\ Nobody # Foreign
    /\ Nothing \notin [fresh : BOOLEAN, moved : BOOLEAN]

VARIABLES
    j,           \* the journal, replayed: on disk and in the conductor alike
    up,          \* the conductor lives
    todo,        \* what the step it is taking still has to do
    question,    \* ctl/question.json
    answer,      \* ctl/answers: the question a person answered
    child,       \* [Segments -> ChildStates]: the child runs' own journals
    port,        \* who listens on the policy port
    \* Ghosts, for the properties only.
    answered,    \* a person's decision was taken since this conductor attached
    disturbed    \* the port changed by itself since the act to come was decided

world == <<child, port>>
inbox == <<question, answer>>
ghosts == <<answered, disturbed>>
vars == <<j, up, todo, inbox, world, ghosts>>

REST_STATES == {"ENV_CONFIRM", "ANALYZING"} \cup HUMAN_STATES
ChildStates == {"absent", "running", "failed", "completed", "short"}
Act == [rec |-> "act"]

\* A question is fresh while the conductor that asked it still holds its
\* nonce; moved (for the properties): the campaign has moved on since.
Questions == [fresh : BOOLEAN, moved : BOOLEAN]

TypeOK ==
    /\ j \in Replays
    /\ up \in BOOLEAN
    /\ todo \in Seq(Lines \cup {Act})
    /\ question \in Questions \cup {Nothing}
    /\ answer \in Questions \cup {Nothing}
    /\ child \in [Segments -> ChildStates]
    /\ port \in Arms \cup {Nobody, Foreign}
    /\ answered \in BOOLEAN /\ disturbed \in BOOLEAN

Init ==
    /\ j = Blank
    /\ up = TRUE
    /\ todo = <<>>
    /\ question = Nothing
    /\ answer = Nothing
    /\ child = [s \in Segments |-> "absent"]
    /\ port \in {Nobody, Foreign}
    /\ answered = TRUE /\ disturbed = FALSE
-----------------------------------------------------------------------------
(* Journal lines and what is made of them. *)

Prepare(to, reason, kind, who, s, attempt) ==
    [rec |-> "prepared",
     tx |-> [to |-> to, reason |-> reason, kind |-> kind, who |-> who,
             segment |-> s, attempt |-> attempt]]
Ack(executed) == [rec |-> "acknowledged", executed |-> executed]
CommitWith(n) == [rec |-> "committed", unplanned |-> n]
Commit == CommitWith(0)
Abort == [rec |-> "aborted"]
Note == [rec |-> "note", pause |-> FALSE]
PauseNote == [rec |-> "note", pause |-> TRUE]

\* A transaction without a side effect, and one with.
Move(to, reason, who, s) == <<Prepare(to, reason, "none", who, s, 1), Commit>>
ToHuman(to, reason) == Move(to, reason, "conductor", j.segment)
WithAct(to, reason, kind, who, attempt) ==
    <<Prepare(to, reason, kind, who, j.segment, attempt), Act>>

\* The conductor is about to call advance.
Advancing == up /\ todo = <<>>

Does(steps) ==
    /\ todo' = steps
    /\ disturbed' = FALSE
    /\ UNCHANGED <<j, up, world>>
Quiet == UNCHANGED <<inbox, answered>>

Moved(q) == IF q = Nothing THEN Nothing ELSE [q EXCEPT !.moved = TRUE]

\* append: one whole line.
AppendLine ==
    /\ up /\ todo # <<>> /\ Head(todo) # Act
    /\ Accepts(j, Head(todo))
    /\ j' = Apply(j, Head(todo))
    /\ todo' = Tail(todo)
    /\ IF j'.state = j.state /\ j'.waitReason = j.waitReason THEN UNCHANGED inbox
       ELSE question' = Moved(question) /\ answer' = Moved(answer)
    /\ UNCHANGED <<up, world, ghosts>>

\* _poll_pause: a request leaves its folder, then goes on record.
TakePause ==
    /\ Advancing
    /\ j.state \notin TERMINAL \cup {"ANALYZING", "PAUSED", "DRAFT"}
    /\ ~j.pause
    /\ Does(<<PauseNote>>) /\ Quiet
-----------------------------------------------------------------------------
(* One step of a segment. *)

InDraft ==
    /\ Advancing /\ j.state = "DRAFT"
    /\ Does(Move("PLANNED", "plan_frozen", "conductor", 0)) /\ Quiet

InPlanned ==
    /\ Advancing /\ j.state = "PLANNED"
    /\ Does(IF j.pause THEN Move("PAUSED", "pause_at_boundary", "conductor", 0)
            ELSE Move("SEGMENT_PREPARE", "segment_started", "conductor", 1))
    /\ Quiet

\* The robot is free (while it is not, advance waits and nothing changes).
InSegmentPrepare ==
    /\ Advancing /\ j.state = "SEGMENT_PREPARE"
    /\ Does(Move("POLICY_STOP", "robot_free", "conductor", j.segment)) /\ Quiet

SameArmServes == j.serving # 0 /\ ArmOf[j.serving] = ArmOf[j.segment]

InPolicyStop ==
    /\ Advancing /\ j.state = "POLICY_STOP"
    /\ Does(IF SameArmServes
            THEN Move("POLICY_START", "same_arm_kept", "conductor", j.segment)
            ELSE WithAct("POLICY_START", "policy_stopped", "policy_stop", "conductor", 1))
    /\ Quiet

InPolicyStart ==
    /\ Advancing /\ j.state = "POLICY_START"
    /\ Does(IF j.kept
            THEN Move("POLICY_READY", "same_arm_kept", "conductor", j.segment)
            ELSE WithAct("POLICY_READY", "policy_started", "policy_start", "conductor", 1))
    /\ Quiet

\* Mutant: any listener on the port will do.
Readiness_AnyListener(arm) == {IF port = Nobody THEN "not_ready" ELSE "ready"}

\* passive_ready: a unit that was started listens only a while later, and
\* one whose processes or command cannot be read is not known for ours.
Readiness(arm) ==
    CASE port = arm    -> {"ready", "not_ready", "mismatch"}
      [] port = Nobody -> {"not_ready"}
      [] OTHER         -> {"mismatch"}

\* Not ready: advance waits, and gives up after ready_timeout_s.
InPolicyReady ==
    /\ Advancing /\ j.state = "POLICY_READY"
    /\ \E status \in Readiness(ArmOf[j.segment]) :
          Does(CASE status = "ready"    -> Move("ENV_CONFIRM", "policy_ready", "conductor", j.segment)
                 [] status = "mismatch" -> ToHuman("FAULT_LOCKED", "listener_mismatch")
                 [] OTHER               -> ToHuman("WAIT_HUMAN", "policy_not_ready"))
    /\ Quiet
-----------------------------------------------------------------------------
(* Asking a person. *)

Asking == j.state = "ENV_CONFIRM" \/ j.state \in HUMAN_STATES
Asked == question # Nothing /\ question.fresh

\* _ask: a new nonce, the file overwritten.
Ask ==
    /\ Advancing /\ Asking /\ ~Asked
    /\ question' = [fresh |-> TRUE, moved |-> FALSE]
    /\ UNCHANGED <<j, up, todo, answer, world, ghosts>>

\* Mutant: the nonce is not compared.
Answers_AnyNonce(a) == TRUE

Answers(a) == a.fresh

\* take and _answer: an answer to another question is dropped and noted.
DropAnswer ==
    /\ Advancing /\ Asking /\ Asked
    /\ answer # Nothing /\ ~Answers(answer)
    /\ answer' = Nothing
    /\ Does(<<Note>>)
    /\ UNCHANGED <<question, answered>>

Stale(q) == IF q = Nothing THEN Nothing ELSE [q EXCEPT !.fresh = FALSE]

\* The answer to the question, which is withdrawn; the person decides steps.
\* Somebody else may have answered it too: that answer stays in the folder.
TakeAnswer(steps) ==
    /\ Advancing /\ Asked
    /\ answer # Nothing /\ Answers(answer)
    /\ answer' \in {Nothing, Stale(answer)} /\ question' = Nothing
    /\ Does(steps)
    /\ answered' = TRUE

\* Mutant: the run is not looked for before it is launched.
NotThere_Unasked(s) == TRUE

NotThere(s) == child[s] = "absent"

\* Mutant: every launch is the first.
NextAttempt_First(s) == 1

NextAttempt(s) == j.launches[s].n + 1

\* What follows a complete confirmation of the scene.
AfterConfirm(status, verified) ==
    CASE status = "mismatch"  -> ToHuman("FAULT_LOCKED", "listener_mismatch")
      [] status = "not_ready" -> ToHuman("WAIT_HUMAN", "policy_not_ready")
      [] status = "ready" /\ ~verified -> <<Note>> \o ToHuman("FAULT_LOCKED", "plan_changed")
      [] status = "ready" /\ verified /\ ~NotThere(j.segment) -> ToHuman("FAULT_LOCKED", "foreign_run")
      [] OTHER -> WithAct("ARM_RUNNING", "run_launched", "launch_run", "operator",
                          NextAttempt(j.segment))

InEnvConfirm ==
    /\ j.state = "ENV_CONFIRM"
    /\ NextAttempt(j.segment) <= MaxAttempts
    /\ \/ TakeAnswer(Move("ABORTED", "operator_abort", "operator", 0))
       \/ TakeAnswer(<<Note>>)    \* a check is missing, or another decision
       \/ \E status \in Readiness(ArmOf[j.segment]), verified \in BOOLEAN :
             TakeAnswer(AfterConfirm(status, verified))

\* A launch that did not happen, or may not have and the person asks for
\* another one and the run is not there.
LaunchAgain(s, relaunch) ==
    LET last == j.launches[s] IN
    /\ ~last.committed
    /\ \/ last.executed = "no"
       \/ last.executed # "yes" /\ relaunch /\ NotThere(s)

\* Mutant: the last segment is not known for the last.
ResumeTarget_NoEnd(relaunch) ==
    LET s == NextSegment(j) IN
    IF s \in Segments /\ Launched(j, s) /\ ~LaunchAgain(s, relaunch)
    THEN "ARM_RUNNING" ELSE "SEGMENT_PREPARE"

\* resume_target: never into a launch.
ResumeTarget(relaunch) ==
    LET s == NextSegment(j) IN
    CASE s > SegmentCount -> "ANALYZING"
      [] s <= SegmentCount /\ Launched(j, s) /\ ~LaunchAgain(s, relaunch) -> "ARM_RUNNING"
      [] OTHER -> "SEGMENT_PREPARE"

Resume(relaunch, accept) ==
    LET to == ResumeTarget(relaunch)
        reason == IF j.waitReason = "segment_short" /\ to = "ARM_RUNNING" /\ accept
                  THEN "operator_accept_short" ELSE "operator_resume"
    IN Move(to, reason, "operator", IF to = "ANALYZING" THEN 0 ELSE NextSegment(j))

OverLimit(arm) ==
    LET Total[s \in SegmentOrNone] ==
          IF s = 0 THEN 0
          ELSE Total[s - 1] + IF s \in j.sealed /\ ArmOf[s] = arm THEN j.unplanned[s] ELSE 0
    IN Total[SegmentCount] > MaxInterventions

\* Without override_stop_rule an answer to a stop rule is noted.
WaitingForPerson ==
    /\ j.state \in HUMAN_STATES
    /\ \/ TakeAnswer(Move("ABORTED", "operator_abort", "operator", 0))
       \/ TakeAnswer(<<Note>>)    \* another decision, or no override
       \/ \E relaunch, accept \in BOOLEAN : TakeAnswer(Resume(relaunch, accept))
-----------------------------------------------------------------------------
(* Watching the child run, sealing it, the report. *)

\* Mutant: a short segment is as good as a full one.
MaySeal_Short(s) == child[s] \in {"completed", "short"}

MaySeal(s) == child[s] = "completed" \/ (child[s] = "short" /\ s \in j.short)

InArmRunning ==
    /\ Advancing /\ j.state = "ARM_RUNNING"
    /\ child[j.segment] # "running"
    /\ CASE child[j.segment] = "absent" -> Does(ToHuman("WAIT_HUMAN", "child_missing"))
         [] child[j.segment] = "failed" ->
              Does(ToHuman("WAIT_HUMAN", IF j.faults + 1 >= MaxFaults THEN "stop_rule_faults"
                                         ELSE "child_failed"))
         [] child[j.segment] = "short" /\ ~MaySeal(j.segment) ->
              Does(ToHuman("WAIT_HUMAN", "segment_short"))
         [] OTHER ->
              \E n \in 0..MaxUnplanned :
                 Does(<<Prepare("SEGMENT_SEALED", "run_completed", "none", "conductor", j.segment, 1),
                        CommitWith(n)>>)
    /\ Quiet

\* Its last segment takes an arm past the limit.
PassesLimit ==
    LET Total[s \in SegmentOrNone] ==
          IF s = 0 THEN 0
          ELSE Total[s - 1] + IF /\ s \in j.sealed \ {j.segment}
                                 /\ ArmOf[s] = ArmOf[j.segment] THEN j.unplanned[s] ELSE 0
    IN Total[SegmentCount] <= MaxInterventions /\ OverLimit(ArmOf[j.segment])

InSegmentSealed ==
    /\ Advancing /\ j.state = "SEGMENT_SEALED"
    /\ Does(CASE PassesLimit -> ToHuman("WAIT_HUMAN", "stop_rule_interventions")
              [] ~PassesLimit /\ j.pause -> Move("PAUSED", "pause_at_boundary", "conductor", 0)
              [] ~PassesLimit /\ ~j.pause /\ j.segment >= SegmentCount ->
                    Move("ANALYZING", "campaign_complete", "conductor", 0)
              [] OTHER -> Move("SEGMENT_PREPARE", "segment_started", "conductor", j.segment + 1))
    /\ Quiet

InAnalyzing ==
    /\ Advancing /\ j.state = "ANALYZING"
    /\ Does(<<Prepare("REPORTED", "report_written", "report", "conductor", 0, 1), Act>>)
    /\ Quiet
-----------------------------------------------------------------------------
(* The side effects: what each may do to the world, and what follows.      *)

Acting == up /\ todo # <<>> /\ Head(todo) = Act
Kind == j.open.kind
Acted == disturbed' = FALSE /\ UNCHANGED <<j, up, answered>>

\* _finish_host.
AfterHost(executed, mismatch, failed) ==
    CASE mismatch                       -> <<Ack(executed), Abort>> \o ToHuman("FAULT_LOCKED", "listener_mismatch")
      [] ~mismatch /\ executed = "yes"  -> <<Ack("yes"), Commit>>
      [] OTHER                          -> <<Ack(executed), Abort>> \o ToHuman("WAIT_HUMAN", failed)

\* What stop and start can answer: a listener that is not ours, or not
\* known to be, is a mismatch; "unknown" is all that is known if they raised.
HostAnswers(ours) ==
    {a \in [executed : Executed, mismatch : BOOLEAN] :
        /\ a.mismatch => a.executed = "yes" /\ port # Nobody
        /\ port \notin ours \cup {Nobody} => a.mismatch \/ a.executed = "unknown"}

\* stop: every unit of the campaign, then nobody may listen.
StopPolicy ==
    /\ Acting /\ Kind = "policy_stop"
    /\ \E a \in HostAnswers(Arms) :
          /\ port' \in IF port = Foreign \/ a.mismatch THEN {port}
                       ELSE {Nobody} \cup IF a.executed = "unknown" THEN {port} ELSE {}
          /\ todo' = AfterHost(a.executed, a.mismatch, "policy_stop_failed")
    /\ Acted
    /\ UNCHANGED <<inbox, child>>

\* start: a port that is held is not taken over.  "no" is also a systemd-run
\* that was waited for too long: the unit may be there.
StartPolicy ==
    /\ Acting /\ Kind = "policy_start"
    /\ LET arm == ArmOf[j.segment] IN
       \E a \in HostAnswers({arm}) :
          /\ port' \in IF port # Nobody THEN {port}
                       ELSE {arm} \cup IF a.executed = "yes" THEN {} ELSE {Nobody}
          /\ todo' = AfterHost(a.executed, a.mismatch, "policy_start_failed")
    /\ Acted
    /\ UNCHANGED <<inbox, child>>

\* launch: refused ("no") or raised ("unknown"), the run may be there all the
\* same: a refusal can come after its entry, its folder and its unit.
LaunchRun ==
    /\ Acting /\ Kind = "launch_run"
    /\ \E executed \in Executed :
          /\ \/ child' = [child EXCEPT ![j.segment] = "running"]
             \/ executed # "yes" /\ UNCHANGED child
          /\ todo' = IF executed = "yes" THEN <<Ack("yes"), Commit>>
                     ELSE <<Ack(executed), Abort>> \o ToHuman("WAIT_HUMAN", "launch_failed")
    /\ Acted
    /\ UNCHANGED <<inbox, port>>

WriteReport ==
    /\ Acting /\ Kind = "report"
    /\ todo' \in {<<Ack("yes"), Commit>>, <<Ack("no"), Abort, Note>>}
    /\ Acted
    /\ UNCHANGED <<inbox, world>>
-----------------------------------------------------------------------------
(* The conductor stops, dies and is attached again. *)

\* SIGTERM between two advances: close withdraws the question.
Close ==
    /\ up /\ todo = <<>>
    /\ up' = FALSE
    /\ question' = IF Asked THEN Nothing ELSE question
    /\ answer' = Stale(answer)
    /\ UNCHANGED <<j, todo, world, ghosts>>

Crash ==
    /\ up
    /\ up' = FALSE
    /\ todo' = <<>>
    /\ question' = Stale(question) /\ answer' = Stale(answer)
    /\ disturbed' = FALSE
    /\ UNCHANGED <<j, world, answered>>

\* Mutant: a restart in the middle of a policy switch goes on with it.
Rests_Switching(state) == state \in REST_STATES \cup {"POLICY_STOP", "POLICY_START"}

Rests(state) == state \in REST_STATES

\* recover: the dangling transaction is aborted, then the campaign waits.
Recovery ==
    LET dangling == j.open # NoTx
        state == IF j.state = "DRAFT" THEN "PLANNED" ELSE j.state
        locked == dangling /\ (j.open.kind \in SIDE_EFFECTS \/ state = "FAULT_LOCKED")
    IN (IF dangling THEN <<Abort, Note>> ELSE <<>>)
       \o (IF j.state = "DRAFT" THEN Move("PLANNED", "plan_frozen", "conductor", 0) ELSE <<>>)
       \o (CASE locked                     -> Move("FAULT_LOCKED", "recovery_ambiguous", "recovery", j.segment)
             [] ~dangling /\ Rests(state)  -> <<Note>>
             [] OTHER                      -> Move("WAIT_HUMAN", "conductor_restarted", "recovery", j.segment))

\* attach: by a person; an ended campaign is not attached.
Attach ==
    /\ ~up /\ j.state \notin TERMINAL
    /\ up' = TRUE
    /\ todo' = Recovery
    /\ answered' = FALSE
    /\ UNCHANGED <<j, inbox, world, disturbed>>
-----------------------------------------------------------------------------
(* The person and the world. *)

\* The API answers the question it reads in the file, old or not (it reads
\* the campaign's state and the question one after the other).
PersonAnswers ==
    /\ up /\ todo = <<>> /\ question # Nothing /\ answer = Nothing
    /\ answer' = question
    /\ UNCHANGED <<j, up, todo, question, world, ghosts>>

\* A child run goes on by itself; a person can take a failed one on.
ChildMoves(s) ==
    /\ todo = <<>>
    /\ \/ child[s] = "running" /\ child' \in {[child EXCEPT ![s] = c] : c \in {"failed", "completed", "short"}}
       \/ child[s] = "failed" /\ child' = [child EXCEPT ![s] = "running"]
    /\ UNCHANGED <<j, up, todo, inbox, port, ghosts>>

\* At any time a policy dies, or somebody stops, starts or restarts one by hand:
\* also between the conductor's look at the port and the launch.
PortChanges ==
    /\ port' \in (Arms \cup {Nobody, Foreign}) \ {port}
    /\ disturbed' = (todo # <<>> /\ todo[Len(todo)] = Act)
    /\ UNCHANGED <<j, up, todo, inbox, child, answered>>

Conducts ==
    \/ AppendLine \/ TakePause
    \/ InDraft \/ InPlanned \/ InSegmentPrepare \/ InPolicyStop \/ InPolicyStart \/ InPolicyReady
    \/ Ask \/ DropAnswer \/ InEnvConfirm \/ WaitingForPerson
    \/ InArmRunning \/ InSegmentSealed \/ InAnalyzing
    \/ StopPolicy \/ StartPolicy \/ LaunchRun \/ WriteReport

Next ==
    \/ Conducts
    \/ Close \/ Crash \/ Attach
    \/ PersonAnswers
    \/ \E s \in Segments : ChildMoves(s)
    \/ PortChanges

Spec == Init /\ [][Next]_vars
-----------------------------------------------------------------------------
(* Properties. *)

\* The journal never refuses a line the conductor writes: a refused line
\* ends the controller, and attaching it again would end it again
\* (Replay.check under CampaignJournal.append).
NeverRefused ==
    up /\ todo # <<>> /\ Head(todo) # Act => Accepts(j, Head(todo))

\* "Nothing moves until a person answers": from an attach to the first
\* decision of a person no policy is stopped or started and no run launched
\* (conductor.py, Safety rules).
NothingMovesUnanswered ==
    Acting /\ Kind # "report" => answered

\* A child run is launched only when it is not there: whatever a crash left
\* of an earlier launch, no segment is started twice.
StartedOnce ==
    Acting /\ Kind = "launch_run" => child[j.segment] = "absent"

\* When the conductor decides on a launch the policy of the segment's own arm
\* serves, not another arm's and not one somebody started by hand: neither a
\* policy that was kept, nor a switch that failed halfway, nor what became of
\* the port while the person was asked can bring a child run onto another one.
\* Only what happens to the port between that decision (conductor.py 675) and
\* the launch (702) is not seen.
RightPolicy ==
    Acting /\ Kind = "launch_run" /\ ~disturbed => port = ArmOf[j.segment]

\* A person's answer counts only for the wait it was given to: no answer is
\* taken once the campaign has moved on from what the person was asked,
\* whether another person answered first or the conductor was restarted.
AnswersTheQuestion ==
    [][answer # Nothing /\ answer' # answer /\ up' /\ question # Nothing /\ question' = Nothing
         => ~answer.moved]_vars

\* The campaign as CampaignPlan tells it: the child runs, the sealed
\* segments and the end.
Stage(s) ==
    CASE s \in j.sealed                                   -> "sealed"
      [] s \notin j.sealed /\ child[s] = "absent"         -> "planned"
      [] s \notin j.sealed /\ child[s] = "completed"      -> "full"
      [] s \notin j.sealed /\ child[s] = "short" /\ s \in j.short -> "accepted"
      [] OTHER                                            -> child[s]
End ==
    CASE j.state = "REPORTED" -> "reported" [] j.state = "ABORTED" -> "aborted" [] OTHER -> "open"

Plan == INSTANCE CampaignPlan WITH stage <- [s \in Segments |-> Stage(s)], end <- End

\* Campaign implements CampaignPlan.
ImplementsPlan == Plan!Spec
=============================================================================
