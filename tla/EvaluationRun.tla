---------------------------- MODULE EvaluationRun ----------------------------
(***************************************************************************)
(* What an evaluation run promises, seen from outside: episodes are        *)
(* started one at a time and each is closed exactly once, with its result; *)
(* the robot may move only for the latest episode and only while the run   *)
(* goes on; and a run that rests goes on only when somebody resumes it.    *)
(* Orchestrator implements it, crashes and restarts included.              *)
(***************************************************************************)
CONSTANTS
    Episodes,
    None         \* no episode

VARIABLES
    mode,        \* "going", "resting" with a person, or "over"
    life,        \* [Episodes -> {"new", "running", "closed"}]
    current,     \* the episode started last
    moving       \* the episode the robot may move for, if any

vars == <<mode, life, current, moving>>

Init ==
    /\ mode = "going"
    /\ life = [e \in Episodes |-> "new"]
    /\ current = None
    /\ moving = None

NoneRuns == \A e \in Episodes : life[e] # "running"

Start(e) ==
    /\ mode = "going" /\ moving = None /\ NoneRuns
    /\ life[e] = "new"
    /\ life' = [life EXCEPT ![e] = "running"]
    /\ current' = e
    /\ UNCHANGED <<mode, moving>>

\* The motion of the episode, or the home that follows it.
Grant ==
    /\ mode = "going" /\ moving = None /\ current # None
    /\ moving' = current
    /\ UNCHANGED <<mode, life, current>>

Withdraw ==
    /\ moving # None
    /\ moving' = None
    /\ UNCHANGED <<mode, life, current>>

\* The episode's result; the run may come to rest with it.
Close ==
    /\ mode = "going" /\ moving = None /\ current # None
    /\ life[current] = "running"
    /\ life' = [life EXCEPT ![current] = "closed"]
    /\ mode' \in {"going", "resting"}
    /\ UNCHANGED <<current, moving>>

Rest ==
    /\ mode = "going" /\ moving = None /\ NoneRuns
    /\ mode' = "resting"
    /\ UNCHANGED <<life, current, moving>>

Resume ==
    /\ mode = "resting" /\ moving = None
    /\ mode' = "going"
    /\ UNCHANGED <<life, current, moving>>

End ==
    /\ mode \in {"going", "resting"} /\ moving = None /\ NoneRuns
    /\ mode' = "over"
    /\ UNCHANGED <<life, current, moving>>

Next ==
    \/ \E e \in Episodes : Start(e)
    \/ Grant \/ Withdraw \/ Close \/ Rest \/ Resume \/ End

Spec == Init /\ [][Next]_vars
=============================================================================
