---------------------------- MODULE CampaignPlan ----------------------------
(***************************************************************************)
(* What a campaign promises, seen from outside: its segments run one after *)
(* another in the order of the frozen plan, each child run is started once *)
(* and only after every earlier segment is sealed; a segment is sealed     *)
(* only when its run holds all its episodes or a person accepted it short; *)
(* the report is written when every segment is sealed; nothing follows the *)
(* end.  Campaign implements it, crashes of the conductor included.        *)
(***************************************************************************)
EXTENDS Integers

CONSTANTS SegmentCount

VARIABLES
    stage,       \* [1..SegmentCount -> Stages]
    end          \* "open", "reported" or "aborted"

vars == <<stage, end>>

Stages == {"planned", "running", "failed", "full", "short", "accepted", "sealed"}

Init ==
    /\ stage = [s \in 1..SegmentCount |-> "planned"]
    /\ end = "open"

Goes(s, from, to) ==
    /\ stage[s] \in from
    /\ stage' = [stage EXCEPT ![s] = to]
    /\ UNCHANGED end

Start(s) ==
    /\ end = "open"
    /\ \A r \in 1..(s - 1) : stage[r] = "sealed"
    /\ Goes(s, {"planned"}, "running")

\* The child run is a program of its own: it goes on whatever the campaign does.
Fail(s) == Goes(s, {"running"}, "failed")
GoOn(s) == Goes(s, {"failed"}, "running")
Finish(s) == \E how \in {"full", "short"} : Goes(s, {"running"}, how)

Accept(s) == end = "open" /\ Goes(s, {"short"}, "accepted")
Seal(s) == end = "open" /\ Goes(s, {"full", "accepted"}, "sealed")

Report ==
    /\ end = "open" /\ \A s \in 1..SegmentCount : stage[s] = "sealed"
    /\ end' = "reported"
    /\ UNCHANGED stage

Abort ==
    /\ end = "open"
    /\ end' = "aborted"
    /\ UNCHANGED stage

\* One segment goes on to another stage, or the campaign ends.
Next ==
    \/ \E s \in 1..SegmentCount : stage'[s] # stage[s] /\
          (Start(s) \/ Fail(s) \/ GoOn(s) \/ Finish(s) \/ Accept(s) \/ Seal(s))
    \/ Report \/ Abort

Spec == Init /\ [][Next]_vars
=============================================================================
