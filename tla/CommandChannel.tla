--------------------------- MODULE CommandChannel ---------------------------
(***************************************************************************)
(* How an operator's commands reach a run whose runner may die and be      *)
(* replaced: src/levi/automatic/control.py and the loop that drives the    *)
(* run, src/levi/automatic/runner.py.                                      *)
(*                                                                         *)
(*   senders      link whole command files into the inbox, at any time     *)
(*   the pump     a thread: the signal's stop, then every pending command  *)
(*                in the order sent, each carried out and answered         *)
(*   the driver   runs the run, waits while it holds, closes the pump and  *)
(*                exits                                                    *)
(*   a new runner attach: recovery locks the run, memory is empty          *)
(*                                                                         *)
(* The run itself is what its journal shows the channel: going, or one of  *)
(* the states in which it holds.  Orchestrator has the rest; so a stop and *)
(* a resume are taken apart here only where the driver, a sender or a      *)
(* crash can get in.                                                       *)
(*                                                                         *)
(* Simplifications.  A command is its id and kind; one with another kind   *)
(* under a used id changes nothing (command_used), nor does the same again *)
(* (already_queued).  fresh stands for the comparison of expected_seq with *)
(* the journal's next line: any line makes every earlier look stale.       *)
(* Scene answers, files that are no commands and a journal that is damaged *)
(* or cannot be written (the answer "error", the run halted) are left out; *)
(* the confirmations of a resume are given.                                *)
(***************************************************************************)
EXTENDS Integers, Sequences, FiniteSets

CONSTANTS
    Ids,                \* command ids
    NoId,
    Sigterm,            \* the id of the stop a runner registers for its signal
    RESULT_MAX_TRIES,
    Deadline,           \* TRUE: the driver may stop waiting (in-process dry runs)
    MaxLives,           \* bound: runners of the run
    MaxFails            \* bound: results that cannot be written

ASSUME IdsAssumption == NoId \notin Ids /\ Sigterm \notin Ids /\ NoId # Sigterm
ASSUME BoundsAssumption ==
    RESULT_MAX_TRIES \in Nat \ {0} /\ Deadline \in BOOLEAN /\ MaxLives \in Nat /\ MaxFails \in Nat

VARIABLES
    \* Durable.
    inbox,       \* the command files in the order they were put there
    results,     \* [Ids -> the code in the result file, or "none"]
    state,       \* the run's state in the journal
    prepared,    \* the resume prepared and not yet committed, or NoId
    used,        \* [Ids -> the reason on the first line with that command id]
    fresh,       \* commands whose expected_seq is the journal's next line
    \* The runner's memory.
    driver,      \* where drive is; "down": no process
    seen,        \* the state drive has read
    sigterm,     \* the signal's flag
    settled,     \* _sigterm_result's code
    pump,        \* where the tick is; "idle": between ticks
    todo,        \* what the tick has listed and not yet taken
    cur,         \* the command in hand
    answer,      \* its result code
    handled,     \* _handled
    unwritten,   \* [Ids -> [code, tries]]: _unwritten
    stops,       \* the registered stops, in order
    closed,      \* _closed: no further polling
    closing,     \* _closing: nothing is carried out any more
    \* Ghosts and bounds.
    made,        \* [Ids -> Nat]: PREFLIGHT transitions committed for a resume
    took,        \* [Ids -> Nat]: how often this runner carried a command out
    lives, fails

durable == <<inbox, results, state, prepared, used, fresh>>
drvars == <<driver, seen, sigterm>>
pumpvars == <<settled, pump, todo, cur, answer, handled, unwritten, stops>>
endvars == <<closed, closing>>
ghosts == <<made, took, lives, fails>>
vars == <<durable, drvars, pumpvars, endvars, ghosts>>

HOLD == {"WAIT_HUMAN", "FAULT_LOCKED", "COMPLETED"}
HUMAN_STATES == {"WAIT_HUMAN", "FAULT_LOCKED"}
States == HOLD \cup {"going"}
EXITING == "E_RUNNER_EXITING"
Codes == {"resumed", "repeated", "command_used", "not_waiting", "stale_sequence",
          "not_running", "stop_requested", "completed", "exited_without_stop", EXITING}
Written == [code |-> "none", tries |-> 0]

Sent == {inbox[i].id : i \in 1..Len(inbox)}
KindOf(c) == (CHOOSE m \in {inbox[i] : i \in 1..Len(inbox)} : m.id = c).kind

\* A runner's memory when it starts.
Forgotten ==
    /\ sigterm' = FALSE /\ settled' = "none"
    /\ pump' = "idle" /\ todo' = <<>> /\ cur' = NoId /\ answer' = "none"
    /\ handled' = {} /\ unwritten' = [c \in Ids |-> Written] /\ stops' = <<>>
    /\ closed' = FALSE /\ closing' = FALSE
    /\ took' = [c \in Ids |-> 0]

Init ==
    /\ inbox = <<>> /\ results = [c \in Ids |-> "none"]
    /\ state = "going" /\ prepared = NoId /\ used = [c \in Ids |-> "none"] /\ fresh = {}
    /\ driver = "reading" /\ seen = "going" /\ sigterm = FALSE
    /\ settled = "none" /\ pump = "idle" /\ todo = <<>> /\ cur = NoId /\ answer = "none"
    /\ handled = {} /\ unwritten = [c \in Ids |-> Written] /\ stops = <<>>
    /\ closed = FALSE /\ closing = FALSE
    /\ made = [c \in Ids |-> 0] /\ took = [c \in Ids |-> 0] /\ lives = 1 /\ fails = 0
-----------------------------------------------------------------------------
(* Senders and the signal.                                                 *)

\* write_command.  The sender looked at the journal some time before.
Sends(c) ==
    /\ c \notin Sent
    /\ \E kind \in {"stop", "resume"} : inbox' = Append(inbox, [id |-> c, kind |-> kind])
    /\ \E looked \in {{}, {c}} : fresh' = fresh \cup looked
    /\ UNCHANGED <<results, state, prepared, used, drvars, pumpvars, endvars, ghosts>>

Signal ==
    /\ driver # "down" /\ ~sigterm
    /\ sigterm' = TRUE
    /\ UNCHANGED <<durable, driver, seen, pumpvars, endvars, ghosts>>
-----------------------------------------------------------------------------
(* The run, while drive is in Orchestrator.run.                            *)

\* Lines that leave the run under way.
GoesOn ==
    /\ driver = "running" /\ state = "going" /\ fresh # {}
    /\ fresh' = {}
    /\ UNCHANGED <<inbox, results, state, prepared, used, drvars, pumpvars, endvars, ghosts>>

\* The run reaches a person, on a stop or by itself; either way every stop
\* registered so far has taken effect.
ReachesPerson ==
    /\ driver = "running" /\ state = "going"
    /\ state' = "WAIT_HUMAN" /\ fresh' = {} /\ stops' = <<>>
    /\ \/ used' = used
       \/ /\ stops # <<>> /\ Head(stops) \in Ids
          /\ used' = [used EXCEPT ![Head(stops)] = "operator_stop"]
    /\ UNCHANGED <<inbox, results, prepared, drvars, settled, pump, todo, cur, answer, handled,
                   unwritten, endvars, ghosts>>

\* The run is over, or a fault locks it.
Ends ==
    /\ driver = "running" /\ state = "going"
    /\ state' \in {"FAULT_LOCKED", "COMPLETED"} /\ fresh' = {}
    /\ UNCHANGED <<inbox, results, prepared, used, drvars, pumpvars, endvars, ghosts>>
-----------------------------------------------------------------------------
(* drive and finish.                                                       *)

Drives(from, to) == driver = from /\ driver' = to

LoopReturns ==
    /\ state \in HOLD /\ Drives("running", "reading")
    /\ UNCHANGED <<durable, seen, sigterm, pumpvars, endvars, ghosts>>

\* After run, or after waiting for at most WAIT_S.
Reads ==
    /\ Drives("reading", "top")
    /\ seen' = state
    /\ UNCHANGED <<durable, sigterm, pumpvars, endvars, ghosts>>

\* Mutant: a stop that was refused is not an answer to the signal.
StopSettled_WhenOk == ~sigterm \/ settled \notin {"none", "not_running"}

StopSettled == ~sigterm \/ settled # "none"

\* One iteration of the loop in drive.
Turns ==
    /\ driver = "top"
    /\ driver' \in CASE seen \notin HOLD -> {"running"}
                     [] seen = "COMPLETED" -> {"over"}
                     [] seen \in HUMAN_STATES /\ sigterm /\ StopSettled -> {"over"}
                     [] OTHER -> IF Deadline THEN {"reading", "over"} ELSE {"reading"}
    /\ UNCHANGED <<durable, seen, sigterm, pumpvars, endvars, ghosts>>

\* CommandPump.close: no more polling, wait for the thread for a while, then
\* nothing is carried out; one last tick when the tick's lock is free.
ClosesPump ==
    /\ Drives("over", "joining")
    /\ closed' = TRUE
    /\ UNCHANGED <<durable, seen, sigterm, pumpvars, closing, ghosts>>

Joins ==
    /\ Drives("joining", "closing")
    /\ closing' = TRUE
    /\ UNCHANGED <<durable, seen, sigterm, pumpvars, closed, ghosts>>

LastTick ==
    /\ pump = "idle" /\ Drives("closing", "leaving")
    /\ pump' = "tick"
    /\ UNCHANGED <<durable, seen, sigterm, settled, todo, cur, answer, handled, unwritten,
                   stops, endvars, ghosts>>

Exits ==
    /\ pump = "idle" /\ Drives("leaving", "down")
    /\ seen' = "going" /\ Forgotten
    /\ UNCHANGED <<durable, made, lives, fails>>

Crash ==
    /\ driver # "down"
    /\ driver' = "down" /\ seen' = "going" /\ Forgotten
    /\ UNCHANGED <<durable, made, lives, fails>>

\* A new runner: the recovery aborts what is open and locks the run.
Attach ==
    /\ driver = "down" /\ state # "COMPLETED" /\ lives < MaxLives
    /\ driver' = "reading" /\ lives' = lives + 1
    /\ state' = "FAULT_LOCKED" /\ prepared' = NoId /\ fresh' = {}
    /\ UNCHANGED <<inbox, results, used, seen, sigterm, pumpvars, endvars, made, took, fails>>
-----------------------------------------------------------------------------
(* The pump: one tick, under _tick_lock.                                   *)

At(stage) == pump = stage

\* To the next stage of the tick with nothing else changed.
Goes(from, to) ==
    /\ At(from)
    /\ pump' = to
    /\ UNCHANGED <<durable, drvars, settled, todo, cur, answer, handled, unwritten, stops,
                   endvars, ghosts>>

Polls == driver # "down" /\ ~closed /\ Goes("idle", "tick")

\* The signal, once: _sigterm.  A run that holds is left as it is; of one that
\* is under way the state is read here and the stop registered later.
SigtermPending == sigterm /\ settled = "none"
Holds == closing \/ state \in HOLD

LooksAtSignal ==
    \/ ~SigtermPending /\ Goes("tick", "list")
    \/ /\ At("tick") /\ SigtermPending /\ Holds
       /\ settled' = "exited_without_stop" /\ pump' = "list" /\ fresh' = {}
       /\ UNCHANGED <<inbox, results, state, prepared, used, drvars, todo, cur, answer, handled,
                      unwritten, stops, endvars, ghosts>>
    \/ /\ At("tick") /\ SigtermPending /\ ~Holds
       /\ cur' = Sigterm /\ pump' = "stop"
       /\ UNCHANGED <<durable, drvars, settled, todo, answer, handled, unwritten, stops,
                      endvars, ghosts>>

Open(m) == m.id \notin handled /\ results[m.id] = "none"

Unanswered(m) == results[m.id] = "none"

OpenFiles == {i \in 1..Len(inbox) : Open(inbox[i])}
UnansweredFiles == {i \in 1..Len(inbox) : Unanswered(inbox[i])}

\* The place in S that has k - 1 places of S before it.
Nth(S, k) == CHOOSE i \in S : Cardinality({j \in S : j <= i}) = k

\* Mutants of the listing: the newest command first; again until the result is
\* there; the oldest file alone; files instead of ids.
Pending_NewestFirst ==
    LET n == Cardinality(OpenFiles) IN [k \in 1..n |-> inbox[Nth(OpenFiles, n + 1 - k)].id]
Pending_Unanswered ==
    [k \in 1..Cardinality(UnansweredFiles) |-> inbox[Nth(UnansweredFiles, k)].id]
Pending_Oldest ==
    LET m == inbox[Nth(UnansweredFiles, 1)]
    IN IF UnansweredFiles # {} /\ m.id \notin handled THEN <<m.id>> ELSE <<>>
Pending_Files == [k \in 1..Cardinality(OpenFiles) |-> inbox[Nth(OpenFiles, k)]]

\* _pending: by age, what this runner has not taken and nobody answered.
Pending == [k \in 1..Cardinality(OpenFiles) |-> inbox[Nth(OpenFiles, k)].id]

Lists ==
    /\ At("list")
    /\ todo' = Pending /\ pump' = "next"
    /\ UNCHANGED <<durable, drvars, settled, cur, answer, handled, unwritten, stops, endvars,
                   ghosts>>

\* _take: taken for good, before anything is done with it.
Takes ==
    /\ At("next") /\ todo # <<>>
    /\ LET c == Head(todo) IN
       /\ cur' = c /\ handled' = handled \cup {c}
       /\ IF closing
          THEN answer' = EXITING /\ pump' = "finish" /\ took' = took
          ELSE /\ pump' = IF KindOf(c) = "stop" THEN "stop" ELSE "resume"
               /\ answer' = answer
               /\ took' = [took EXCEPT ![c] = @ + 1]
    /\ todo' = Tail(todo)
    /\ UNCHANGED <<durable, drvars, settled, unwritten, stops, endvars, made, lives, fails>>

Answers(code) == answer' = code /\ pump' = "finish"

\* Orchestrator.stop: its checks and the registration.
RegistersStop ==
    /\ At("stop")
    /\ \/ /\ cur \in Ids /\ used[cur] # "none"
          /\ Answers("command_used") /\ stops' = stops
       \/ /\ cur \in Ids => used[cur] = "none"
          /\ state \in {"FAULT_LOCKED", "COMPLETED"}
          /\ Answers("not_running") /\ stops' = stops
       \/ /\ cur \in Ids => used[cur] = "none"
          /\ state \notin {"FAULT_LOCKED", "COMPLETED"}
          /\ stops' = Append(stops, cur)
          /\ pump' = "stopping" /\ answer' = answer
    /\ UNCHANGED <<durable, drvars, settled, todo, cur, handled, unwritten, endvars, ghosts>>

Registered(c) == \E i \in 1..Len(stops) : stops[i] = c

\* With the state lock a run that waits for a person is over; without it (the
\* loop may still hold it) and in a run under way the stop is only registered.
EndsWaitingRun == state = "WAIT_HUMAN" /\ Registered(cur)

StopsNow ==
    /\ At("stopping")
    /\ \/ /\ EndsWaitingRun
          /\ state' = "COMPLETED" /\ fresh' = {} /\ stops' = <<>>
          /\ used' = IF cur \in Ids THEN [used EXCEPT ![cur] = "operator_stop"] ELSE used
          /\ Answers("completed")
       \/ /\ ~EndsWaitingRun \/ driver = "running"
          /\ Answers("stop_requested")
          /\ UNCHANGED <<state, fresh, stops, used>>
    /\ UNCHANGED <<inbox, results, prepared, drvars, settled, todo, cur, handled, unwritten,
                   endvars, ghosts>>

\* Mutants of what a resume is refused for: nothing but the state; the state
\* and the sequence number; the state and a command seen before.
ResumeRefusal_StateOnly(c) == IF state \notin HUMAN_STATES THEN "not_waiting" ELSE "none"
ResumeRefusal_NoPrior(c) ==
    CASE state \notin HUMAN_STATES -> "not_waiting"
      [] state \in HUMAN_STATES /\ c \notin fresh -> "stale_sequence"
      [] OTHER -> "none"

\* Orchestrator.resume, in the order of its checks.
ResumeRefusal(c) ==
    CASE used[c] = "human_resumed" -> "repeated"
      [] used[c] = "operator_stop" -> "command_used"
      [] used[c] = "none" /\ state \notin HUMAN_STATES -> "not_waiting"
      [] used[c] = "none" /\ state \in HUMAN_STATES /\ c \notin fresh -> "stale_sequence"
      [] OTHER -> "none"

PreparesResume ==
    /\ At("resume")
    /\ LET refusal == ResumeRefusal(cur) IN
       IF refusal # "none"
       THEN Answers(refusal) /\ UNCHANGED <<prepared, used, fresh>>
       ELSE /\ prepared' = cur /\ used' = [used EXCEPT ![cur] = "human_resumed"]
            /\ fresh' = {} /\ pump' = "commit" /\ answer' = answer
    /\ UNCHANGED <<inbox, results, state, drvars, settled, todo, cur, handled, unwritten, stops,
                   endvars, ghosts>>

\* The transition is durable; the stops registered before it are overridden.
CommitsResume ==
    /\ At("commit")
    /\ state' = "going" /\ prepared' = NoId /\ fresh' = {} /\ stops' = <<>>
    /\ made' = [made EXCEPT ![cur] = @ + 1]
    /\ Answers("resumed")
    /\ UNCHANGED <<inbox, results, used, drvars, settled, todo, cur, handled, unwritten, endvars,
                   took, lives, fails>>

\* _finish: the result, linked into place unless one is there, and the note in
\* the journal.
WritesResult ==
    /\ At("finish")
    /\ IF cur = Sigterm
       THEN /\ settled' = answer /\ pump' = "list"
            /\ UNCHANGED <<results, unwritten, fails>>
       ELSE /\ settled' = settled /\ pump' = "next"
            /\ \/ /\ results' = [results EXCEPT ![cur] = IF @ = "none" THEN answer ELSE @]
                  /\ UNCHANGED <<unwritten, fails>>
               \/ /\ fails < MaxFails /\ fails' = fails + 1
                  /\ unwritten' = [unwritten EXCEPT ![cur] = [code |-> answer, tries |-> 1]]
                  /\ results' = results
    /\ fresh' = {} /\ cur' = NoId /\ answer' = "none"
    /\ UNCHANGED <<inbox, state, prepared, used, drvars, todo, handled, stops, endvars, made,
                   took, lives>>

Due == {c \in Ids : unwritten[c].tries > 0}

\* _retry_results for one result: written, or tried once more and in the end
\* given up (with a note).
Retries(c) ==
    /\ At("next") /\ todo = <<>> /\ c \in Due
    /\ \/ /\ results' = [results EXCEPT ![c] = IF @ = "none" THEN unwritten[c].code ELSE @]
          /\ unwritten' = [unwritten EXCEPT ![c] = Written]
          /\ UNCHANGED <<fresh, fails>>
       \/ /\ fails < MaxFails /\ fails' = fails + 1
          /\ IF unwritten[c].tries + 1 < RESULT_MAX_TRIES /\ ~closing
             THEN /\ unwritten' = [unwritten EXCEPT ![c].tries = unwritten[c].tries + 1] /\ fresh' = fresh
             ELSE /\ unwritten' = [unwritten EXCEPT ![c] = Written] /\ fresh' = {}
          /\ results' = results
    /\ UNCHANGED <<inbox, state, prepared, used, drvars, settled, pump, todo, cur, answer,
                   handled, stops, endvars, made, took, lives>>

\* What is not due waits for a later tick; the last tick tries everything.
EndsTick == todo = <<>> /\ (closing => Due = {}) /\ Goes("next", "idle")
-----------------------------------------------------------------------------
Pump ==
    \/ Polls \/ LooksAtSignal \/ Lists \/ Takes \/ RegistersStop \/ StopsNow
    \/ PreparesResume \/ CommitsResume \/ WritesResult \/ EndsTick
    \/ \E c \in Ids : Retries(c)

Run == ReachesPerson \/ Ends
Driver == LoopReturns \/ Reads \/ Turns \/ ClosesPump \/ Joins \/ LastTick \/ Exits

Next ==
    \/ \E c \in Ids : Sends(c)
    \/ Signal \/ GoesOn \/ Run \/ Driver \/ Pump \/ Crash \/ Attach

Spec == Init /\ [][Next]_vars
FairSpec == Spec /\ WF_vars(Pump) /\ WF_vars(Run) /\ WF_vars(Driver)
-----------------------------------------------------------------------------
(* Properties.                                                             *)

Result == [code : Codes \cup {"none"}, tries : Nat]

TypeOK ==
    /\ inbox \in Seq([id : Ids, kind : {"stop", "resume"}])
    /\ results \in [Ids -> Codes \cup {"none"}]
    /\ state \in States /\ prepared \in Ids \cup {NoId}
    /\ used \in [Ids -> {"none", "human_resumed", "operator_stop"}]
    /\ fresh \subseteq Ids
    /\ driver \in {"down", "running", "reading", "top", "over", "joining", "closing", "leaving"}
    /\ seen \in States /\ sigterm \in BOOLEAN
    /\ settled \in Codes \cup {"none"}
    /\ pump \in {"idle", "tick", "list", "next", "stop", "stopping", "resume", "commit", "finish"}
    /\ todo \in Seq(Ids) /\ cur \in Ids \cup {Sigterm, NoId} /\ answer \in Codes \cup {"none"}
    /\ handled \subseteq Ids /\ unwritten \in [Ids -> Result]
    /\ stops \in Seq(Ids \cup {Sigterm})
    /\ closed \in BOOLEAN /\ closing \in BOOLEAN
    /\ made \in [Ids -> Nat] /\ took \in [Ids -> Nat]
    /\ lives \in Nat /\ fails \in Nat

\* However often runners die and take the same files again, one resume command
\* takes the run on at most once.
ResumedOnce == \A c \in Ids : made[c] <= 1

\* One runner carries a command out at most once, also when its result cannot
\* be written ("the command is not carried out again").
CarriedOutOnce == \A c \in Ids : took[c] <= 1

\* What the answer to c says, in the result file or still to be written.
Says(c, code) == results[c] = code \/ unwritten[c].code = code

\* A person who reads a result is told what became of the command: "resumed"
\* only if it did resume the run, a refusal only if it never did.
AnswersTrue ==
    \A c \in Ids :
        /\ Says(c, "resumed") => made[c] = 1
        /\ Says(c, "not_waiting") \/ Says(c, "stale_sequence") => made[c] = 0
        /\ Says(c, "completed") => state = "COMPLETED"

Before(c, d) ==
    \E i, j \in 1..Len(inbox) : i < j /\ inbox[i].id = c /\ inbox[j].id = d

\* A stop sent before a resume does not stop the run that the resume took on,
\* even if a runner died with the stop unanswered.
OldStopsStayOld ==
    \A s, c \in Ids : Registered(s) /\ made[c] > 0 => ~Before(s, c)

\* A run that waits for a person is ended by a command file only: a SIGTERM
\* leaves it as it is ("Only a typed stop ends a run").
OnlyTypedStopsEnd == [][state = "WAIT_HUMAN" /\ state' = "COMPLETED" => cur \in Ids]_vars

\* A command that is in the inbox of a running runner is taken, or the runner
\* exits; the next one then finds it.
EveryCommandTaken ==
    \A c \in Ids :
        c \in Sent /\ driver # "down" ~> c \in handled \/ results[c] # "none" \/ driver = "down"

\* A runner that was told to end ends, whatever the run and the commands do.
SigtermEnds == sigterm ~> driver = "down"
=============================================================================
