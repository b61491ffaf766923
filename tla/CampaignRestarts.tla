-------------------------- MODULE CampaignRestarts --------------------------
(***************************************************************************)
(* What a campaign still owes a person, told by the history of Campaign:   *)
(* the wait of a stop rule that came due.  It is not on record; the        *)
(* property asks whether a restart of the conductor forgets it.            *)
(***************************************************************************)
EXTENDS Campaign

VARIABLE
    ruleDue      \* a sealed segment took its arm past the limit, nobody overrode it

histVars == <<vars, ruleDue>>

HistInit == Init /\ ruleDue = FALSE

JustSealed == j.state # "SEGMENT_SEALED" /\ j'.state = "SEGMENT_SEALED"

\* A person took the campaign on from the wait of the rule.
RuleOverridden ==
    /\ j.waitReason = "stop_rule_interventions"
    /\ j'.state \in RESUME_TARGETS

HistNext ==
    /\ Next
    /\ ruleDue' = IF JustSealed THEN PassesLimit' ELSE ruleDue /\ ~RuleOverridden

HistSpec == HistInit /\ [][HistNext]_histVars

\* "A wait caused by a stop rule needs override_stop_rule", and an arm whose
\* unplanned interventions pass the limit makes the campaign wait: the next
\* segment is not prepared before a person overrode the rule.
StopRuleHeeded ==
    ruleDue => j.state \notin {"SEGMENT_PREPARE", "ANALYZING"}
=============================================================================
