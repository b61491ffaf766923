----------------------------- MODULE Intervention -----------------------------
(***************************************************************************)
(* A run in event_pause_judge mode: src/levi/automatic/intervention.py     *)
(* (InferenceCycle), the request slot of src/levi/live/runtime_ownership   *)
(* .py it borrows, and the orchestrator's path around them                 *)
(* (_drive_intervention and what it calls).  The arm holds still while the *)
(* judge looks: a pause revokes the motion token, judges, and only then    *)
(* another token is issued; an operator's stop or a proof that failed      *)
(* latches the cycle.                                                      *)
(*                                                                         *)
(* The threads are the loop, the operator's stops and a resume.  A step is *)
(* what no other thread can get into: a check, a call, one lock's scope.   *)
(*                                                                         *)
(* Simplifications.  A hook, an adapter or a lease that does not answer as *)
(* it should is one outcome, Breaks; a contract violation and a stale      *)
(* observation are too.  An exception and the latch it pulls are two       *)
(* steps, the fence it revokes comes with the latch; revoke_request itself *)
(* does not fail (revocation_error).  An episode is forward or reset where *)
(* they differ, at its seal.  Journal lines that are written are left to   *)
(* RunJournal; one process (a restart makes a new cycle); each stop is     *)
(* sent once.                                                              *)
(***************************************************************************)
EXTENDS Integers

CONSTANTS
    StopIds,         \* the operator's stop commands
    MaxSteps,        \* steps of an episode
    MaxRequests,     \* termination.max_requests: pauses of an episode
    MaxEpisodes,     \* config.episodes
    MaxResumes       \* bound: resumes of a person

ASSUME InterventionAssumption ==
    /\ MaxSteps \in Nat \ {0} /\ MaxRequests \in Nat /\ MaxEpisodes \in Nat
    /\ MaxResumes \in Nat

VARIABLES
    run,         \* the run's state
    lock,        \* who holds Orchestrator._lock between two steps
    token,       \* the motion fence: what the current token is for
    stops,       \* Orchestrator._stops: [StopIds -> generation, 0: not registered]
    gen,         \* Orchestrator._stop_gen
    cycle,       \* InferenceCycle: its flags and _request
    slot,        \* RuntimeOwnership: whose request holds the slot, revoked or not
    busy,        \* what the backend really works on
    loop,        \* where the loop's thread is
    episode,     \* the episode under way, and how many are done
    at,          \* [StopIds -> where the stop's thread is]
    seen,        \* [StopIds -> the request its interrupt found]
    resume,      \* where a resume is, what it read
    latch,       \* the robot's guard is latched or its light red
    broken       \* ghost: a proof failed, not only a stop came

vars == <<run, lock, token, stops, gen, cycle, slot, busy, loop, episode, at, seen, resume,
          latch, broken>>

HUMAN_STATES == {"WAIT_HUMAN", "FAULT_LOCKED"}
RunStates ==
    HUMAN_STATES \cup {"PREFLIGHT", "SCENE_ASSESS", "ACTIVE", "JUDGING", "FINALIZE",
                       "ROBOT_HOME", "COMPLETED"}
Roles == {"judge", "policy"}
Requests == {"none", "current", "old"}     \* the last one granted, or an earlier one
Invoking ==
    {"enters", "grants", "notes", "calls", "awaits", "returns", "proves", "finishes", "publishes"}
InTx == {"opens", "fences", "readmits", "homing", "moves", "consumes"}
Points ==
    Invoking \cup InTx \cup
    {"rest", "decides", "assessed", "begins", "issues", "drives", "chunked", "checks", "steps",
     "pauses", "prepares", "judged", "reopens", "seals", "records", "sealed", "homes",
     "waits", "raises", "locks"}

TypeOK ==
    /\ run \in RunStates
    /\ lock \in {"free", "loop", "resume"}
    /\ token \in {"none", "steps", "home"}
    /\ stops \in [StopIds -> Nat] /\ gen \in Nat
    /\ cycle \in [failed : BOOLEAN, stopped : BOOLEAN, unproven : BOOLEAN, request : Requests]
    /\ slot \in [role : Roles \cup {"none"}, revoked : BOOLEAN]
    /\ busy \in Roles \cup {"none"}
    /\ loop \in [pc : Points, role : Roles, after : {"assessed", "chunked", "judged"},
                 exc : {"none", "stopped", "unproven"}]
    /\ episode \in [steps : Nat, pauses : Nat, buffer : {"empty", "filled"}, done : Nat]
    /\ at \in [StopIds -> {"idle", "registers", "revokes", "interrupts", "withdraws",
                           "completes", "done"}]
    /\ seen \in [StopIds -> Requests]
    /\ resume \in [at : {"idle", "commits", "rearms"}, gen : Nat, needed : BOOLEAN, n : Nat]
    /\ latch \in BOOLEAN /\ broken \in BOOLEAN

Init ==
    /\ run = "PREFLIGHT" /\ lock = "free" /\ token = "none"
    /\ stops = [s \in StopIds |-> 0] /\ gen = 0
    /\ cycle = [failed |-> FALSE, stopped |-> FALSE, unproven |-> FALSE, request |-> "none"]
    /\ slot = [role |-> "none", revoked |-> FALSE]
    /\ busy = "none"
    /\ loop = [pc |-> "rest", role |-> "judge", after |-> "assessed", exc |-> "none"]
    /\ episode = [steps |-> 0, pauses |-> 0, buffer |-> "empty", done |-> 0]
    /\ at = [s \in StopIds |-> "idle"]
    /\ seen = [s \in StopIds |-> "none"]
    /\ resume = [at |-> "idle", gen |-> 0, needed |-> FALSE, n |-> 0]
    /\ latch = FALSE /\ broken = FALSE
-----------------------------------------------------------------------------
(* Helpers. *)

At(p) == loop.pc = p
Go(p) == loop' = [loop EXCEPT !.pc = p]
Stopped == \E s \in StopIds : stops[s] # 0

\* _intervention_interrupted.
Interrupts == Stopped \/ latch

\* An exception on its way to its handler; Breaks: because a proof failed.
Raises(exc) == loop' = [loop EXCEPT !.pc = "raises", !.exc = exc]
Breaks == Raises("unproven") /\ broken' = TRUE

operator == <<at, seen, resume>>
registry == <<stops, gen>>

\* Mutant: a transaction begins without revoking the fence.
Revoked_Not == token

Revoked == "none"

\* _tx up to its act: it waits for the lock, nothing moves on an old token.
BeginsTx(from, to) ==
    /\ At(from) /\ lock = "free"
    /\ lock' = "loop" /\ token' = Revoked
    /\ Go(to)
    /\ UNCHANGED <<run, registry, cycle, slot, busy, episode, operator, latch, broken>>

\* A transaction without an act.
MovesTo(from, state, to) ==
    /\ At(from) /\ lock = "free"
    /\ run' = state /\ token' = Revoked
    /\ Go(to)
    /\ UNCHANGED <<lock, registry, cycle, slot, busy, operator, latch, broken>>

\* What the loop decides by itself, with nothing but its own place changed.
Decides(from) ==
    /\ At(from)
    /\ UNCHANGED <<run, lock, token, registry, cycle, slot, busy, operator, latch>>

\* The end of a transaction's act: committed, or not.
EndsTx(from) ==
    /\ At(from)
    /\ lock' = "free"
    /\ UNCHANGED <<registry, cycle, slot, busy, operator>>
Commits(state, to) == run' = state /\ Go(to) /\ UNCHANGED broken
Aborts(to) == Go(to) /\ UNCHANGED <<run, broken>>

\* A role's request, and where its result goes.
Invokes(role, after) ==
    loop' = [loop EXCEPT !.pc = "enters", !.role = role, !.after = after]
-----------------------------------------------------------------------------
(* InferenceCycle: the latch. *)

\* interrupt.
Latches(c, byOperator, proofFailed) ==
    [c EXCEPT !.stopped = @ \/ (byOperator /\ ~c.failed), !.unproven = @ \/ proofFailed,
              !.failed = TRUE]

\* Mutant: an unfinished request is no obstacle.
Latched_Proof(c) == c.unproven

Latched(c) == c.unproven \/ c.request # "none"

\* rearm.
MayRearm(c) == c.failed /\ c.stopped /\ ~Latched(c)
-----------------------------------------------------------------------------
(* InferenceCycle.invoke: one request of a role. *)

StoppedNow == cycle.failed \/ Interrupts

Enters ==
    /\ Decides("enters")
    /\ \/ StoppedNow /\ Raises("stopped") /\ UNCHANGED broken
       \/ ~StoppedNow /\ Go("grants") /\ UNCHANGED broken
       \/ ~StoppedNow /\ loop.role = "judge" /\ Breaks
    /\ UNCHANGED episode

\* begin_request: a free slot and an idle backend, or it fails.
Grants ==
    /\ At("grants")
    /\ \/ /\ slot.role = "none" /\ busy = "none"
          /\ slot' = [role |-> loop.role, revoked |-> FALSE]
          /\ cycle' = [cycle EXCEPT !.request = IF @ = "current" THEN "old" ELSE @]
          /\ seen' = [s \in StopIds |-> IF seen[s] = "current" THEN "old" ELSE seen[s]]
          /\ Go("notes")
          /\ UNCHANGED broken
       \/ Breaks /\ UNCHANGED <<slot, cycle, seen>>
    /\ UNCHANGED <<run, lock, token, registry, busy, episode, at, resume, latch>>

NotesRequest ==
    /\ At("notes")
    /\ cycle' = [cycle EXCEPT !.request = "current"]
    /\ Go("calls")
    /\ UNCHANGED <<run, lock, token, registry, slot, busy, episode, operator, latch, broken>>

Calls ==
    /\ At("calls")
    /\ IF StoppedNow THEN Raises("stopped") /\ UNCHANGED busy
       ELSE busy' = loop.role /\ Go("awaits")
    /\ UNCHANGED <<run, lock, token, registry, cycle, slot, episode, operator, latch, broken>>

\* The answer, an end of the waiting, or a failure; the backend may go on.
Awaits ==
    /\ Decides("awaits")
    /\ \/ Go("returns") /\ UNCHANGED broken
       \/ Interrupts /\ Raises("stopped") /\ UNCHANGED broken
       \/ Breaks
    /\ UNCHANGED episode

\* The proof that the backend has stopped and is idle.
Returns ==
    /\ At("returns")
    /\ \/ StoppedNow /\ Raises("stopped") /\ UNCHANGED <<busy, broken>>
       \/ ~StoppedNow /\ busy' = "none" /\ Go("proves") /\ UNCHANGED broken
       \/ ~StoppedNow /\ Breaks /\ UNCHANGED busy
    /\ UNCHANGED <<run, lock, token, registry, cycle, slot, episode, operator, latch>>

Proves ==
    /\ Decides("proves")
    /\ IF StoppedNow THEN Raises("stopped") ELSE Go("finishes")
    /\ UNCHANGED <<episode, broken>>

\* finish_request: the slot is free; a revoked result is not published.
Finishes ==
    /\ At("finishes")
    /\ slot' = [slot EXCEPT !.role = "none"]
    /\ \/ ~slot.revoked /\ Go("publishes") /\ UNCHANGED broken
       \/ slot.revoked /\ Raises("unproven") /\ UNCHANGED broken
       \/ Breaks
    /\ UNCHANGED <<run, lock, token, registry, cycle, busy, episode, operator, latch>>

Publishes ==
    /\ At("publishes")
    /\ IF StoppedNow THEN Raises("stopped") /\ UNCHANGED cycle
       ELSE cycle' = [cycle EXCEPT !.request = "none"] /\ Go(loop.after)
    /\ UNCHANGED <<run, lock, token, registry, slot, busy, episode, operator, latch, broken>>

Invoke ==
    \/ Enters \/ Grants \/ NotesRequest \/ Calls \/ Awaits \/ Returns \/ Proves \/ Finishes
    \/ Publishes
-----------------------------------------------------------------------------
(* The loop: from a ready run to an episode. *)

\* _preflight, once the run is taken on.
Preflights ==
    /\ run = "PREFLIGHT"
    /\ \/ ~latch /\ MovesTo("rest", "SCENE_ASSESS", "decides") /\ UNCHANGED episode
       \/ Decides("rest") /\ Go(IF latch THEN "locks" ELSE "waits") /\ UNCHANGED <<episode, broken>>

\* _decide: a scene is judged before an episode starts.
DecidesScene ==
    \/ /\ Decides("decides")
       /\ IF Stopped THEN Go("waits")
          ELSE episode.done < MaxEpisodes /\ Invokes("judge", "assessed")
       /\ UNCHANGED <<episode, broken>>
    \/ /\ ~Stopped /\ episode.done >= MaxEpisodes
       /\ MovesTo("decides", "COMPLETED", "rest") /\ UNCHANGED episode

Assessed ==
    /\ Decides("assessed")
    /\ \/ Stopped /\ Go("waits") /\ UNCHANGED broken
       \/ ~Stopped /\ (\E to \in {"begins", "waits"} : Go(to)) /\ UNCHANGED broken
       \/ Breaks
    /\ UNCHANGED episode

\* _start: the act looks at the stops, opens admission, takes the policy.
Opens ==
    /\ EndsTx("opens")
    /\ \/ Stopped /\ Aborts("waits")
       \/ ~Stopped /\ \E to \in {"waits", "locks"} : Aborts(to)
       \/ ~Stopped /\ Commits("ACTIVE", "issues")
       \/ ~Stopped /\ Breaks /\ UNCHANGED run
    /\ episode' = [episode EXCEPT !.steps = 0, !.pauses = 0, !.buffer = "empty"]
    /\ UNCHANGED <<token, latch>>

\* Mutant: the registry is not looked at, the latch is enough.
MayIssue_Latch == ~cycle.failed

MayIssue == ~Stopped /\ ~cycle.failed

\* _issue_intervention_motion, under the registry's lock.
Issues ==
    /\ At("issues")
    /\ IF MayIssue THEN token' = "steps" /\ Go("drives")
       ELSE Raises("stopped") /\ UNCHANGED token
    /\ UNCHANGED <<run, lock, registry, cycle, slot, busy, episode, operator, latch, broken>>
-----------------------------------------------------------------------------
(* _drive_intervention. *)

Drives ==
    /\ Decides("drives")
    /\ \/ /\ episode.steps < MaxSteps /\ Interrupts
          /\ Raises("stopped") /\ UNCHANGED <<episode, broken>>
       \/ /\ episode.steps < MaxSteps /\ ~Interrupts
          /\ \/ /\ episode.pauses < MaxRequests       \* a candidate event
                /\ Go("pauses")
                /\ episode' = [episode EXCEPT !.buffer = "empty", !.pauses = @ + 1]
                /\ UNCHANGED broken
             \/ /\ IF episode.buffer = "filled" THEN Go("checks") ELSE Invokes("policy", "chunked")
                /\ UNCHANGED <<episode, broken>>
             \/ Breaks /\ UNCHANGED episode
       \/ /\ episode.steps = MaxSteps                 \* the final judgement
          /\ Go("pauses")
          /\ episode' = [episode EXCEPT !.buffer = "empty"]
          /\ UNCHANGED broken

Chunked ==
    /\ Decides("chunked")
    /\ \/ Go("checks") /\ episode' = [episode EXCEPT !.buffer = "filled"] /\ UNCHANGED broken
       \/ Breaks /\ UNCHANGED episode

ChecksOnce ==
    /\ Decides("checks")
    /\ IF Interrupts THEN Raises("stopped") ELSE Go("steps")
    /\ UNCHANGED <<episode, broken>>

\* robot.step: with the token it moves; a token that was revoked meanwhile
\* is a failure of the robot, which latches.
Steps ==
    /\ At("steps")
    /\ \/ /\ token = "steps"
          /\ \E left \in {"empty", "filled"} :
                episode' = [episode EXCEPT !.steps = @ + 1, !.buffer = left]
          /\ Go("drives") /\ UNCHANGED <<latch, broken>>
       \/ /\ token = "steps"
          /\ Breaks /\ latch' = TRUE /\ UNCHANGED episode
       \/ /\ token # "steps"
          /\ Raises("unproven") /\ latch' = TRUE /\ UNCHANGED <<episode, broken>>
    /\ UNCHANGED <<run, lock, token, registry, cycle, slot, busy, operator>>

\* _pause_intervention: the act closes admission and proves the hold.
Fences ==
    /\ EndsTx("fences")
    /\ \/ cycle.failed /\ Raises("stopped") /\ UNCHANGED <<run, broken>>
       \/ ~cycle.failed /\ Commits("JUDGING", "prepares")
       \/ ~cycle.failed /\ Breaks /\ UNCHANGED run
    /\ UNCHANGED <<token, episode, latch>>

Prepares ==
    /\ Decides("prepares")
    /\ \/ Invokes("judge", "judged") /\ UNCHANGED broken
       \/ Breaks
    /\ UNCHANGED episode

Judged ==
    /\ Decides("judged")
    /\ \/ Interrupts /\ Raises("stopped") /\ UNCHANGED broken
       \/ ~Interrupts /\ Breaks
       \/ ~Interrupts /\ Go("seals") /\ UNCHANGED broken
       \/ ~Interrupts /\ episode.steps < MaxSteps /\ Go("reopens") /\ UNCHANGED broken
    /\ UNCHANGED episode

\* _resume_intervention.
Readmits ==
    /\ EndsTx("readmits")
    /\ \/ Interrupts /\ Raises("stopped") /\ UNCHANGED <<run, broken>>
       \/ ~Interrupts /\ Commits("ACTIVE", "issues")
       \/ ~Interrupts /\ Breaks /\ UNCHANGED run
    /\ UNCHANGED <<token, episode, latch>>
-----------------------------------------------------------------------------
(* The end of an episode, and the home under the closed gate. *)

\* _seal_intervention: a reset waits for a person, a forward episode goes on.
Seals ==
    \/ /\ Decides("seals")
       /\ \/ Interrupts /\ Raises("stopped")
          \/ ~Interrupts /\ Go("waits")
          \/ ~Interrupts /\ Go("locks")     \* not quiesced, not sealed
       /\ UNCHANGED <<episode, broken>>
    \/ ~Interrupts /\ MovesTo("seals", "FINALIZE", "records") /\ UNCHANGED episode

Records ==
    \/ Decides("records") /\ Go("locks") /\ UNCHANGED <<episode, broken>>
    \/ MovesTo("records", "ROBOT_HOME", "sealed") /\ episode' = [episode EXCEPT !.done = @ + 1]

Sealed ==
    /\ Decides("sealed")
    /\ Go(IF Stopped THEN "waits" ELSE IF latch THEN "locks" ELSE "homes")
    /\ UNCHANGED <<episode, broken>>

\* A home that sent nothing: the run waits, or locks.
HomeRefused == Aborts(IF Stopped \/ (~cycle.failed /\ ~latch /\ cycle.request = "none")
                      THEN "waits" ELSE "locks")

\* _home_closed_gate, under the registry's lock.
Homing ==
    /\ At("homing")
    /\ IF MayIssue /\ cycle.request = "none"
       THEN token' = "home" /\ Go("moves") /\ UNCHANGED lock
       ELSE lock' = "free" /\ Go(IF Stopped THEN "waits" ELSE "locks") /\ UNCHANGED token
    /\ UNCHANGED <<run, registry, cycle, slot, busy, episode, operator, latch, broken>>

\* The robot homes, does not, or raises.
Homes ==
    /\ EndsTx("moves")
    /\ \/ token = "home" /\ Commits("SCENE_ASSESS", "decides")
       \/ token = "home" /\ Aborts("locks")
       \/ HomeRefused
       \/ Breaks /\ UNCHANGED run
    /\ token' = "none"
    /\ UNCHANGED <<episode, latch>>
-----------------------------------------------------------------------------
(* The run waits or locks. *)

Waits ==
    /\ At("waits") /\ lock = "free"
    /\ run' = "WAIT_HUMAN" /\ token' = Revoked /\ lock' = "loop"
    /\ Go("consumes")
    /\ UNCHANGED <<registry, cycle, slot, busy, episode, operator, latch, broken>>

\* _consume_stops.
Consumes ==
    /\ At("consumes")
    /\ lock' = "free" /\ Go("rest")
    /\ stops' = [s \in StopIds |-> 0]
    /\ UNCHANGED <<run, token, gen, cycle, slot, busy, episode, operator, latch, broken>>

\* Mutant: a stop that came with the failure excuses it.
ProofFailed_Unstopped == loop.exc = "unproven" /\ ~Stopped

ProofFailed == loop.exc = "unproven"

\* Every handler: the latch, the request, the fence.
Contains ==
    /\ At("raises")
    /\ cycle' = Latches(cycle, FALSE, ProofFailed)
    /\ slot' = [slot EXCEPT !.revoked = @ \/ (slot.role # "none" /\ cycle.request = "current")]
    /\ token' = "none"
    /\ loop' = [loop EXCEPT !.pc = "locks", !.exc = "none"]
    /\ UNCHANGED <<run, lock, registry, busy, episode, operator, latch, broken>>

Locks == MovesTo("locks", "FAULT_LOCKED", "rest") /\ UNCHANGED episode

Loop ==
    \/ Preflights \/ DecidesScene \/ Assessed \/ BeginsTx("begins", "opens") \/ Opens \/ Issues
    \/ Drives \/ Chunked \/ ChecksOnce \/ Steps
    \/ BeginsTx("pauses", "fences") \/ Fences \/ Prepares \/ Judged
    \/ BeginsTx("reopens", "readmits") \/ Readmits
    \/ Seals \/ Records \/ Sealed \/ BeginsTx("homes", "homing") \/ Homing \/ Homes
    \/ Waits \/ Consumes \/ Contains \/ Locks
-----------------------------------------------------------------------------
(* Orchestrator.stop and resume. *)

loopVars == <<loop, episode>>

StopMoves(s, from, to) == at[s] = from /\ at' = [at EXCEPT ![s] = to]

StopChecks(s) ==
    /\ StopMoves(s, "idle", "registers")
    /\ run \notin {"FAULT_LOCKED", "COMPLETED"}
    /\ UNCHANGED <<run, lock, token, registry, cycle, slot, busy, loopVars, seen, resume, latch, broken>>

\* Under the registry's lock, note_operator_stop before the loop can see it.
StopRegisters(s) ==
    /\ StopMoves(s, "registers", "revokes")
    /\ gen' = gen + 1 /\ stops' = [stops EXCEPT ![s] = gen + 1]
    /\ cycle' = [cycle EXCEPT !.stopped = @ \/ ~cycle.failed]
    /\ UNCHANGED <<run, lock, token, slot, busy, loopVars, seen, resume, latch, broken>>

StopRevokes(s) ==
    /\ StopMoves(s, "revokes", "interrupts")
    /\ token' = "none"
    /\ UNCHANGED <<run, lock, registry, cycle, slot, busy, loopVars, seen, resume, latch, broken>>

StopInterrupts(s) ==
    /\ StopMoves(s, "interrupts", "withdraws")
    /\ cycle' = Latches(cycle, TRUE, FALSE)
    /\ seen' = [seen EXCEPT ![s] = cycle.request]
    /\ UNCHANGED <<run, lock, token, registry, slot, busy, loopVars, resume, latch, broken>>

\* revoke_request, outside the cycle's lock: a request that is over is none.
StopWithdraws(s) ==
    /\ StopMoves(s, "withdraws", "completes")
    /\ slot' = [slot EXCEPT !.revoked = @ \/ (slot.role # "none" /\ seen[s] = "current")]
    /\ seen' = [seen EXCEPT ![s] = "none"]
    /\ UNCHANGED <<run, lock, token, registry, cycle, busy, loopVars, resume, latch, broken>>

\* With the state lock, or without it after STOP_LOCK_WAIT_S.
StopCompletes(s) ==
    /\ StopMoves(s, "completes", "done")
    /\ \/ /\ lock = "free" /\ run = "WAIT_HUMAN" /\ stops[s] # 0
          /\ run' = "COMPLETED" /\ token' = "none"
          /\ stops' = [r \in StopIds |-> 0]
       \/ /\ ~(lock = "free" /\ run = "WAIT_HUMAN" /\ stops[s] # 0)
          /\ UNCHANGED <<run, token, stops>>
    /\ UNCHANGED <<lock, gen, cycle, slot, busy, loopVars, seen, resume, latch, broken>>

\* Up to the transaction: it is refused while the latch could not be opened.
ResumeBegins ==
    /\ resume.at = "idle" /\ resume.n < MaxResumes
    /\ lock = "free" /\ run \in HUMAN_STATES
    /\ LET needed == cycle.failed /\ cycle.stopped IN
       /\ ~(needed /\ Latched(cycle))
       /\ resume' = [at |-> "commits", gen |-> gen, needed |-> needed, n |-> resume.n + 1]
    /\ lock' = "resume"
    /\ UNCHANGED <<run, token, registry, cycle, slot, busy, loopVars, at, seen, latch, broken>>

ResumeCommits ==
    /\ resume.at = "commits"
    /\ run' = "PREFLIGHT" /\ token' = Revoked
    /\ resume' = [resume EXCEPT !.at = "rearms"]
    /\ UNCHANGED <<lock, registry, cycle, slot, busy, loopVars, at, seen, latch, broken>>

\* Rearmed unless a stop came meanwhile; older stops are overridden.  A cycle
\* that was latched since ResumeBegins is contained (the loop rests: it never is).
ResumeRearms ==
    LET due == resume.needed /\ resume.gen = gen IN
    /\ resume.at = "rearms"
    /\ resume' = [at |-> "idle", gen |-> 0, needed |-> FALSE, n |-> resume.n]
    /\ lock' = "free"
    /\ IF due /\ ~MayRearm(cycle)
       THEN /\ cycle' = Latches(cycle, FALSE, TRUE)
            /\ run' = "FAULT_LOCKED"
            /\ UNCHANGED stops
       ELSE /\ cycle' = IF due THEN [cycle EXCEPT !.failed = FALSE, !.stopped = FALSE] ELSE cycle
            /\ stops' = [s \in StopIds |-> IF stops[s] > resume.gen THEN stops[s] ELSE 0]
            /\ UNCHANGED run
    /\ UNCHANGED <<token, gen, slot, busy, loopVars, at, seen, latch, broken>>
-----------------------------------------------------------------------------
(* The world. *)

\* A cancelled request drains by itself; nobody takes that for a proof.
Drains ==
    /\ busy # "none" /\ loop.pc \notin {"awaits", "returns"}
    /\ busy' = "none"
    /\ UNCHANGED <<run, lock, token, registry, cycle, slot, loopVars, operator, latch, broken>>

\* The guard latches; a person clears it while the run rests.
Guards ==
    /\ \/ ~latch /\ run \notin HUMAN_STATES \cup {"COMPLETED"} /\ latch' = TRUE
       \/ latch /\ run \in HUMAN_STATES /\ latch' = FALSE
    /\ UNCHANGED <<run, lock, token, registry, cycle, slot, busy, loopVars, operator, broken>>

Stops(s) ==
    \/ StopChecks(s) \/ StopRegisters(s) \/ StopRevokes(s) \/ StopInterrupts(s)
    \/ StopWithdraws(s) \/ StopCompletes(s)

Resumes == ResumeBegins \/ ResumeCommits \/ ResumeRearms

Next ==
    \/ Loop \/ Invoke
    \/ \E s \in StopIds : Stops(s)
    \/ Resumes
    \/ Drains \/ Guards

Spec == Init /\ [][Next]_vars
-----------------------------------------------------------------------------
(* What the mode promises. *)

\* The arm has no right to move from the moment the slot is the judge's until
\* it is given back, nor while the judge's backend still works on a request
\* that was cancelled: whatever stops, resumes and guards come in between.
HeldWhileJudged == token # "none" => slot.role # "judge" /\ busy # "judge"

\* Once a stop's thread has gone past the fence, nothing may move until that
\* stop is taken by a person's decision: the loop cannot put back a token it
\* was about to issue when the stop came.
StopsMotion ==
    \A s \in StopIds :
        stops[s] # 0 /\ at[s] \in {"interrupts", "withdraws", "completes", "done"}
            => token = "none"

\* A cycle that is open between two requests owns nothing of the one before:
\* no slot, no backend at work.  A resume never opens it on a request whose end
\* nobody has proved.
RearmedClean ==
    ~cycle.failed /\ loop.pc \notin Invoking \cup {"raises"}
        => slot.role = "none" /\ busy = "none" /\ cycle.request = "none"

\* After a proof failed no request is granted and no motion token is issued for
\* as long as this cycle lives, whatever stops and resumes come with it or
\* after it.
UnprovenForEver ==
    [][broken => token' \in {token, "none"} /\ slot'.role \in {slot.role, "none"}]_vars

\* What note_operator_stop is there for: a stop of the operator is not taken
\* for a proof that failed.
StopIsNoFailedProof == cycle.unproven => broken
=============================================================================
