---------------------------- MODULE CampaignRules ----------------------------
(***************************************************************************)
(* The rules every line of a campaign's journal keeps: the Replay class of *)
(* src/levi/automatic/campaign/journal.py, applied line by line by the     *)
(* writer (append) and by the reader (scan).  Pure operators.              *)
(*                                                                         *)
(* Simplifications.  The campaign header is on disk.  A line keeps what a  *)
(* rule looks at: a transaction's id, clocks, epoch and hash decide no     *)
(* move; from_state is the state at the append.  "operator" stands for an  *)
(* operator's authority with a command_id.  Of a segment's launches the    *)
(* replay asks how many there were and how the last one ended.  What no    *)
(* rule reads any more is forgotten: the reason of a wait when it is left, *)
(* of the last commit but for "same_arm_kept", and how a sealed segment    *)
(* was launched.                                                           *)
(***************************************************************************)
EXTENDS Integers

CONSTANTS
    SegmentCount,    \* segments of the frozen plan
    MaxFaults,       \* stop_rules.consecutive_faults
    MaxAttempts,     \* bound: launches of one segment
    MaxUnplanned     \* bound: unplanned interventions of one child run

ASSUME SegmentCountAssumption == SegmentCount \in Nat \ {0}
ASSUME MaxFaultsAssumption == MaxFaults \in Nat \ {0}
ASSUME CampaignBoundsAssumption == MaxAttempts \in Nat \ {0} /\ MaxUnplanned \in Nat

Segments == 1..SegmentCount
SegmentOrNone == 0..SegmentCount     \* 0: no segment

SEGMENT_STATES ==
    {"SEGMENT_PREPARE", "POLICY_STOP", "POLICY_START", "POLICY_READY",
     "ENV_CONFIRM", "ARM_RUNNING", "SEGMENT_SEALED"}
TERMINAL == {"REPORTED", "ABORTED"}
HUMAN_STATES == {"WAIT_HUMAN", "FAULT_LOCKED", "PAUSED"}
CAMPAIGN_STATES ==
    SEGMENT_STATES \cup TERMINAL \cup HUMAN_STATES \cup {"DRAFT", "PLANNED", "ANALYZING"}
RESUME_TARGETS == {"SEGMENT_PREPARE", "ARM_RUNNING", "ANALYZING"}
SIDE_EFFECTS == {"policy_stop", "policy_start", "launch_run", "report"}
FAULT_REASONS == {"child_failed", "stop_rule_faults"}
STOP_RULE_REASONS == {"stop_rule_faults", "stop_rule_interventions"}
REASONS ==
    FAULT_REASONS \cup STOP_RULE_REASONS \cup
    {"plan_frozen", "segment_started", "robot_free", "same_arm_kept", "policy_stopped",
     "policy_started", "policy_ready", "run_launched", "run_completed", "campaign_complete",
     "pause_at_boundary", "report_written", "listener_mismatch", "policy_stop_failed",
     "policy_start_failed", "policy_not_ready", "launch_failed", "plan_changed", "foreign_run",
     "segment_short", "child_missing", "recovery_ambiguous", "conductor_restarted",
     "operator_abort", "operator_resume", "operator_accept_short", "none"}

NoTx == [to |-> "no transaction"]
Executed == {"yes", "no", "unknown"}
Transactions ==
    [to : CAMPAIGN_STATES, reason : REASONS, kind : SIDE_EFFECTS \cup {"none"},
     who : {"conductor", "operator", "recovery"}, segment : SegmentOrNone, attempt : Nat]
Lines ==
    [rec : {"prepared"}, tx : Transactions]
      \cup [rec : {"acknowledged"}, executed : Executed]
      \cup [rec : {"committed"}, unplanned : Nat]
      \cup [rec : {"note"}, pause : BOOLEAN]
      \cup [rec : {"aborted"}]

\* The launches of a segment: how many, and the last one.
Launches == [n : Nat, executed : Executed \cup {"none"}, committed : BOOLEAN, closed : BOOLEAN]

\* The campaign as its journal tells it.
Replays ==
    [state : CAMPAIGN_STATES, segment : SegmentOrNone, open : Transactions \cup {NoTx},
     ack : Executed \cup {"none"}, attempted : SUBSET (Segments \X Nat),
     sealed : SUBSET Segments, unplanned : [Segments -> Nat], launches : [Segments -> Launches],
     faults : 0..MaxFaults, short : SUBSET Segments, waitReason : REASONS,
     kept : BOOLEAN, serving : SegmentOrNone, pause : BOOLEAN]

NotLaunched == [n |-> 0, executed |-> "none", committed |-> FALSE, closed |-> FALSE]

Blank ==
    [state |-> "DRAFT", segment |-> 0, open |-> NoTx, ack |-> "none", attempted |-> {},
     sealed |-> {}, unplanned |-> [s \in Segments |-> 0],
     launches |-> [s \in Segments |-> NotLaunched],
     faults |-> 0, short |-> {}, waitReason |-> "none", kept |-> FALSE,
     serving |-> 0, pause |-> FALSE]

Launched(j, s) == j.launches[s].n > 0

\* One past the last sealed segment.
NextSegment(j) ==
    CHOOSE s \in 1..(SegmentCount + 1) : s - 1 \in j.sealed \cup {0} /\ \A r \in j.sealed : r < s
-----------------------------------------------------------------------------
(* Replay.check, one operator per rule. *)

FORWARD ==
    [DRAFT |-> {"PLANNED"}, PLANNED |-> {"SEGMENT_PREPARE", "PAUSED"},
     SEGMENT_PREPARE |-> {"POLICY_STOP"}, POLICY_STOP |-> {"POLICY_START"},
     POLICY_START |-> {"POLICY_READY"}, POLICY_READY |-> {"ENV_CONFIRM"},
     ENV_CONFIRM |-> {"ARM_RUNNING"}, ARM_RUNNING |-> {"SEGMENT_SEALED"},
     SEGMENT_SEALED |-> {"SEGMENT_PREPARE", "ANALYZING", "PAUSED"},
     ANALYZING |-> {"REPORTED"}, PAUSED |-> RESUME_TARGETS, WAIT_HUMAN |-> RESUME_TARGETS,
     FAULT_LOCKED |-> RESUME_TARGETS]

Allowed(from, to) ==
    /\ from \notin TERMINAL
    /\ to \in {"WAIT_HUMAN", "FAULT_LOCKED", "ABORTED"} \cup FORWARD[from]

ActionsOf(from, to) ==
    CASE <<from, to>> = <<"POLICY_STOP", "POLICY_START">>  -> {"policy_stop", "none"}
      [] <<from, to>> = <<"POLICY_START", "POLICY_READY">> -> {"policy_start", "none"}
      [] <<from, to>> = <<"ENV_CONFIRM", "ARM_RUNNING">>   -> {"launch_run"}
      [] <<from, to>> = <<"ANALYZING", "REPORTED">>        -> {"report"}
      [] OTHER                                             -> {"none"}

\* A recovery only waits, an operator alone ends a campaign or leaves a wait.
MayDecide(j, t) ==
    /\ t.who = "recovery" => t.to \in {"WAIT_HUMAN", "FAULT_LOCKED"} /\ t.kind = "none"
    /\ \/ t.who = "operator"
       \/ t.to # "ABORTED" /\ (j.state \in HUMAN_STATES => t.to \in HUMAN_STATES)
    /\ ~(j.state = "FAULT_LOCKED" /\ t.to = "WAIT_HUMAN")
    /\ t.kind = "launch_run" => t.who = "operator"

SegmentFits(j, t) ==
    CASE t.to = "SEGMENT_PREPARE" -> t.segment = NextSegment(j) /\ t.segment <= SegmentCount
      [] t.to \in SEGMENT_STATES \ {"SEGMENT_PREPARE"} ->
            /\ t.segment = j.segment /\ t.segment \notin j.sealed
            /\ t.to = "ARM_RUNNING" /\ j.state \in HUMAN_STATES => Launched(j, t.segment)
      [] OTHER -> TRUE

\* A key is tried once; another attempt follows one that was closed, not
\* committed and not reported as executed.
NotRepeated(j, t) ==
    LET last == j.launches[t.segment] IN
    /\ <<t.segment, t.attempt>> \notin j.attempted
    /\ t.attempt = last.n + 1
    /\ last.n > 0 => last.closed /\ ~last.committed /\ last.executed # "yes"

MayPrepare(j, t) ==
    /\ j.open = NoTx
    /\ Allowed(j.state, t.to)
    /\ t.kind \in ActionsOf(j.state, t.to)
    /\ MayDecide(j, t)
    /\ t.to = "ANALYZING" => j.sealed = Segments
    /\ SegmentFits(j, t)
    /\ t.kind = "launch_run" => NotRepeated(j, t)

MayCommit(j) == j.open # NoTx /\ (j.open.kind # "none" => j.ack = "yes")

Accepts(j, l) ==
    CASE l.rec = "prepared"     -> MayPrepare(j, l.tx)
      [] l.rec = "acknowledged" -> j.open # NoTx /\ j.ack = "none"
      [] l.rec = "committed"    -> MayCommit(j)
      [] l.rec = "aborted"      -> j.open # NoTx
      [] l.rec = "note"         -> TRUE
-----------------------------------------------------------------------------
(* Replay.apply. *)

Launching(j) == j.open # NoTx /\ j.open.kind = "launch_run"

OneMore(last) ==
    [n |-> last.n + 1, executed |-> "none", committed |-> FALSE, closed |-> FALSE]

AfterPrepare(j, t) ==
    [j EXCEPT
        !.open = t, !.ack = "none",
        !.attempted = IF t.to = "ARM_RUNNING" THEN @ \cup {<<t.segment, t.attempt>>} ELSE @,
        !.launches = IF t.kind = "launch_run"
                     THEN [@ EXCEPT ![t.segment] = OneMore(j.launches[t.segment])]
                     ELSE @]

AfterAck(j, executed) ==
    [j EXCEPT !.ack = executed,
              !.launches = IF Launching(j)
                           THEN [@ EXCEPT ![j.open.segment].executed = executed] ELSE @]

Serving(j, t) ==
    CASE t.to = "ENV_CONFIRM" -> t.segment
      [] t.to \in HUMAN_STATES \cup TERMINAL -> 0
      [] t.to = "POLICY_START" /\ t.reason = "policy_stopped" -> 0
      [] OTHER -> j.serving

\* Child faults since the last sealed segment, counted up to the limit.
Faults(j, t) ==
    CASE t.to = "SEGMENT_SEALED" -> 0
      [] t.to \in HUMAN_STATES /\ t.reason \in FAULT_REASONS /\ j.faults < MaxFaults -> j.faults + 1
      [] OTHER -> j.faults

AfterMove(j) ==
    LET t == j.open IN
    [j EXCEPT
        !.state = t.to, !.kept = t.reason = "same_arm_kept", !.open = NoTx, !.ack = "none",
        !.segment = IF t.to \in SEGMENT_STATES THEN t.segment ELSE @,
        !.launches = IF Launching(j)
                     THEN [@ EXCEPT ![t.segment].committed = TRUE, ![t.segment].closed = TRUE]
                     ELSE @,
        !.faults = Faults(j, t),
        !.short = IF t.reason = "operator_accept_short" THEN @ \cup {t.segment} ELSE @,
        !.serving = Serving(j, t),
        !.waitReason = IF t.to \in HUMAN_STATES THEN t.reason ELSE "none",
        !.pause = @ /\ t.to \notin {"PAUSED"} \cup TERMINAL]

AfterCommit(j, unplanned) ==
    LET s == j.open.segment IN
    IF j.open.to # "SEGMENT_SEALED" THEN AfterMove(j)
    ELSE [AfterMove(j) EXCEPT !.sealed = @ \cup {s}, !.unplanned[s] = unplanned,
                          !.launches[s] = NotLaunched,
                          !.attempted = {key \in @ : key[1] # s}]

AfterAbort(j) ==
    [j EXCEPT !.open = NoTx, !.ack = "none",
              !.launches = IF Launching(j) THEN [@ EXCEPT ![j.open.segment].closed = TRUE] ELSE @]

Apply(j, l) ==
    CASE l.rec = "prepared"     -> AfterPrepare(j, l.tx)
      [] l.rec = "acknowledged" -> AfterAck(j, l.executed)
      [] l.rec = "committed"    -> AfterCommit(j, l.unplanned)
      [] l.rec = "aborted"      -> AfterAbort(j)
      [] l.rec = "note"         -> [j EXCEPT !.pause = @ \/ l.pause]
=============================================================================
