# LEVI: a TLA+ development

LEVI evaluates robot policies on a real arm.  Its core is the automatic run
(`src/levi/automatic`): a program that starts episodes, sends a policy's
actions, judges, resets the scene, and may be stopped or killed at any moment
without ever repeating a physical action or losing count.  Above it a campaign
runs one such run after another under different policies.  Next to them stands a
disk cache with a hard limit (`src/levi/performance/budget.py`) that processes
share.  This directory holds a formal model of these parts, their model checking
with TLC and machine-checked proofs with TLAPS.

Reading order: `RunJournal.tla` (with `JournalRules.tla`), then
`EvaluationRun.tla` (what a run promises), then `Orchestrator.tla` (with
`RunRules.tla`), then `CommandChannel.tla` (how commands reach a run),
`Intervention.tla` (a run that holds the arm still while the judge looks) and, one
level up, `CampaignPlan.tla` (what a campaign promises), `CampaignRules.tla` and
`Campaign.tla`.  The proofs are in `RunJournalProofs.tla`,
`OrchestratorProofs.tla`, `CommandChannelProofs.tla`, `InterventionProofs.tla`,
`CampaignProofs.tla` (with `CampaignRulesProofs.tla`) and `CampaignPlanProofs.tla`.  The cache stands alone:
`EntryStore.tla` (what it promises), `DiskBudget.tla`, `DiskBudgetProofs.tla`.

## 1. Inventory

### The automatic run

| Part | State it keeps | Operations | Talks to |
|---|---|---|---|
| Run journal, `journal.py` | `journal.jsonl` on disk, a flock, a `Replay` in memory, `_broken` | create, open, append (prepare, acknowledge, commit, abort, note), recover, close | orchestrator (its only appender), other processes through the flock |
| State machine, `state_machine.py` | the transition table; `MotionFence`: one motion token | check_transition, issue, revoke | orchestrator, robot bridge |
| Orchestrator, `orchestrator.py` | the episode under way, counters, stops, the verdict, `halted` | run loop; stop, resume, episode_verdict, restore | journal, fence, recorder, judge, policy, reset policy |
| Recorder, `recorder.py` | a folder for each episode | open, seal, abort, recover | orchestrator |
| Reset policy, `reset_manager.py` | none (the attempts are the orchestrator's) | plan, after_reset | orchestrator |
| Termination, `termination.py` | streaks of judge answers | observe | orchestrator |
| Runner and command pump, `runner.py`, `control.py` | inbox and result files; in memory the commands taken, results not yet written, the signal's answer | drive, close, exit, attach; write_command, tick, stop, resume, signal to stop | operator, orchestrator |
| Intervention, `intervention.py`, `event_window.py`, `live/runtime_ownership.py` | a latch (`failed`, `stopped`, `unproven`), the request under way; a slot for one request at a time | invoke, pause, hold, interrupt, note_operator_stop, rearm; begin, revoke and finish a request | orchestrator (in `event_pause_judge` mode), judge and policy, robot bridge |
| Subtask loop, `subtask_loop.py` | segments and their judgements | observe only | judge |
| Campaign, `campaign/` | a journal of its own, a question and its answers in a folder | advance, ask, switch the policy, launch, watch and seal a run; attach and recover | child runs (their journals), the policy services, a person |

The authority is split: only the orchestrator commands motion and only it
writes the journal; the judge judges; the policy server serves chunks.

### Around it

`performance/budget.py` (a disk cache with a byte budget shared by processes),
`live/` (labelling while a run goes on: queue, controller, workers, accelerator
broker), `agent/` and `harness/` (the assistant), `pool/` (episode pool, export,
deletion), `inference/`, `marvel0/`, `recap/` (numerical code), `conversion/`,
`segmentation/`, `annotations/`, `events/`, `samples/`, `stt/`, `jobs.py`,
`service.py`, `sync.py`, the front end (`src/src`) and `src/backend`.
`PROJECT.json` lists each with its status.

### What is hard here

* **Crashes.** The robot cannot deduplicate.  A crash may come before, inside
  or after a physical action, between any two lines of the journal, inside a
  line, and inside the recovery from the previous crash.
* **Failing writes.** After a failed fsync nobody knows what is on disk.
* **Two processes** may try to take over one run.
* **Threads.** A stop and a verdict are registered under `_stop_lock` only, at
  any moment: while the loop waits for a policy, in the middle of a
  transaction, while a resume or a fault is being written.
* **Chains of transitions.** An episode ends through four transactions; any of
  them may abort, be refused by the table, or be cut short.
* **Bookkeeping in two places.** Counters in memory, results in the journal,
  folders on disk, and a restart that rebuilds the first from the others.
* **A latch against a resume.**  In `event_pause_judge` mode the loop, a stop and a
  resume meet at one request slot, one backend that may go on after it was
  cancelled, one motion token and one latch.  An exception and the latch it pulls
  are two steps.
* **Answers out of time.**  A campaign asks a person through files; the answer may
  come after another person's, after the campaign has moved on, or after a restart.
* **A limit shared by processes** (the cache).  Bytes are entries, reservations,
  data being written and trash; what is done after the lock is released, and the
  death of any process, comes in between.

What makes each part correct is listed with its properties in section 3.  The
full list of hazards, each at its line, is in `PROJECT.json`.

## 2. Modules and the code they model

### JournalRules and RunJournal: `journal.py`

`JournalRules` holds the pure part: a replay of the lines is a record (`Replays`;
the fields are those of class `Replay` that decide anything), `Accepts(r, l)` is
`Replay.check` and `Apply(r, l)` is `Replay.apply`.

`RunJournal` is the state machine.  `disk`, `torn` and `corrupt` are the file:
what replaying its whole lines yields, whether a cut line follows, whether a
whole line breaks the chain.  `lock` is the flock.  `phase[p]`, `mem[p]` and
`broken[p]` are one process.  `acted` is what the side effect of the open
transaction returned.  `ran`, `grants` and `lives` are ghosts.

| Action | Code |
|---|---|
| `Create`, `CreateCrashes` | `Journal.create` |
| `Open` | `Journal.open`: lock, scan, cut the torn tail (not in a corrupt file) |
| `Recover` | `Journal.recover`, one append a step: abort, note, prepare, commit |
| `Serve` | one append of `Orchestrator._tx` or `_contain` |
| `Act` | the side effect in `_tx`, between prepare and acknowledge |
| `Mishap` | an append that fails, or is cut short by a crash: nothing, part or all of it is on disk |
| `Leave` | a crash or close between two appends |
| `Edited` | somebody edits the file while nobody holds it |

A successful append is one step: it holds the journal's mutex, and the flock
keeps other processes out.

### RunRules: `state_machine.py`

The transition table, rule for rule, and `check_transition`, which decides by
principal, reason, physical kind, role and result.  The orchestrator model asks
it before every transaction; nothing about the order of states is assumed
elsewhere.

### EvaluationRun: the promise

An abstract specification without a journal, locks or threads: a run goes, rests
with a person or is over; episodes begin once, one at a time, and each is closed
with one result before the run rests or another begins; the arm moves only for
the episode under way.  `Orchestrator` implements it (property
`ImplementsRun`), crashes and restarts included: `RunMode`, `RunLife` and
`RunMoving` read the promise's state off the journal and the fence.

### Orchestrator: `orchestrator.py`

One process with three kinds of actors.  The loop's position is `pc`, an action
for each stretch between two transactions.  `_tx` is taken apart at the points
where others can get in: `Begin` (lock, revoke the fence, check the table,
prepare), `Acts`, `Acknowledges`, `Commits` or `Aborts`, `ConsumesStops`.  `lock`
is `_lock` with how far its holder is.  `stops`, `gen`, `consumed` and `verdict`
are what `_stop_lock` guards; the operator's calls are taken apart the same way
(`StopChecks`, `StopRegisters`, `StopCompletes` or `StopReturns`; `Resume`,
`ResumeClears`).  `_take_verdict` and `_record_verdict` are two actions because a
durable write lies between them.  `journal` and `rollout` survive `Crash`;
`Restart` and the `Recover...` actions are `restore`.

Left out, and why it does not change what is checked:

* Adapters are their outcomes, chosen freely; a time-out is an outcome.
* `_hold` returns "yes" unless it raises, so the branch in which the transaction
  to FORWARD_STOPPING was not executed is left out.
* `HumanAssistedReset` is the reset policy with `MaxAttempts = 0`.
* A line that cannot be written is `Halts`; that it may be on disk all the same
  is `Crash` between the same two lines.
* The same stop sent twice at the same time is left out; sent again later it is
  refused by the checks that are modelled.
* An exception between the recorder's seal and the commit of the same
  transaction is left out.
* An adapter raises inside a transaction or, between two, wherever one is asked
  (`AsksAdapter`): the robot, the policy, the scene, the judge's last word, the guards.

### CommandChannel: `control.py`, `runner.py`

Commands are files that outlive the runner; what was done with them is partly in
memory (`handled`, `unwritten`, `stops`, `settled`), partly in the journal
(`used`, `state`), partly in result files.  The module has the pump's thread
(`pump` is where its tick is), the driver's thread (`driver`), senders, the signal
and the runner's death and successor.  The run is only what the channel sees of
it: going, or in one of the states in which it holds; `Orchestrator` has the rest.

| Action | Code |
|---|---|
| `Sends`, `Signal` | `write_command`, `Runner.on_signal` |
| `Polls`, `Lists`, `EndsTick` | `CommandPump.run`, `tick`, `_pending` |
| `LooksAtSignal` | `_sigterm` up to the decision; the stop it may order is `RegistersStop`, `StopsNow` with the id `Sigterm` |
| `Takes` | `_take`, and the answer `E_RUNNER_EXITING` when closing |
| `RegistersStop`, `StopsNow` | `Orchestrator.stop`: checks and registration; the end, with the state lock or, when the loop keeps it too long, without |
| `PreparesResume`, `CommitsResume` | `resume_checked`, `Orchestrator.resume`: its checks and its line; the commit |
| `WritesResult`, `Retries` | `_finish`, `_retry_results` |
| `ReachesPerson`, `Ends`, `GoesOn` | the run, while the driver is in `Orchestrator.run` |
| `LoopReturns`, `Reads`, `Turns` | `Runner.drive` |
| `ClosesPump`, `Joins`, `LastTick`, `Exits` | `Runner.finish`, `CommandPump.close` |
| `Crash`, `Attach` | the process dies; `serve(attach=True)`, `Orchestrator.restore` |

`fresh` stands for `expected_seq`: a command is in it while the line its sender
looked at is the journal's last, so any line empties it.  The order of the inbox
is the order of linking; the code sorts by the time the file was written, which
differs only for senders that write at the same moment.  A join that times out is
`Joins` while a tick is under way.  Left out: scene answers, files that are no
commands, the refusal of a resume because the journal is damaged or the
confirmations are missing, an orchestrator that halts, the answer `error` (a command
that raises).

### Intervention: `intervention.py`, `runtime_ownership.py`, `_drive_intervention`

In `event_pause_judge` mode the arm stands still whenever the judge looks: a pause
revokes the motion token, the judge is asked through a slot that holds one request,
and only then another token is issued.  `cycle` is `InferenceCycle` (its flags and
`_request`), `slot` the request slot, `busy` what the backend really works on, `token`
the motion fence, `stops` and `gen` the orchestrator's registry of stops, `loop` the
place of the loop's thread with the role it invokes for and the exception it carries,
`lock` who holds `_lock` between two steps, `latch` the robot's own guard.  `broken` is
a ghost: something failed that needed a proof, and not only because a stop came.

| Action | Code |
|---|---|
| `Enters`, `Grants`, `NotesRequest`, `Calls`, `Awaits`, `Returns`, `Proves`, `Finishes`, `Publishes` | `InferenceCycle.invoke`, one action a stretch between two places where others get in |
| `Latches`, `Latched`, `MayRearm` | `interrupt`, `rearm` |
| `Preflights`, `DecidesScene`, `Assessed`, `Opens`, `Issues` | the loop up to the first token: `_preflight`, `_decide`, `_start`, `_issue_intervention_motion` |
| `Drives`, `Chunked`, `ChecksOnce`, `Steps` | `_drive_intervention`: candidate event, chunk, last look, `robot.step` |
| `Fences`, `Prepares`, `Judged`, `Readmits` | `_pause_intervention`, the judgement, `_resume_intervention` |
| `Seals`, `Records`, `Sealed`, `Homing`, `Homes` | `_seal_intervention`, `_home_closed_gate` (it homes, does not, or raises) |
| `Waits`, `Consumes`, `Contains`, `Locks` | the ways to WAIT_HUMAN and FAULT_LOCKED, `_consume_stops`, the handlers |
| `StopChecks` ... `StopCompletes` | `Orchestrator.stop`: registration with `note_operator_stop`, `fence.revoke`, `interrupt`, `revoke_request`, the end with or without the lock |
| `ResumeBegins`, `ResumeCommits`, `ResumeRearms` | `Orchestrator.resume`: before, in and after its transaction |
| `Drains`, `Guards` | external: a cancelled request ends by itself; the robot's guard |

Stops and resumes are threads of their own here; the pump calls them one after the
other, so the model allows more interleavings than the program.  Two branches of the
code cannot be reached and the model shows it: a request never finds the slot taken,
and a resume that was let in is never refused when it rearms (`RearmNeverRefused`).
Left out: a failure inside `revoke_request` (`revocation_error`), which candidate is due
(`event_window.py`), the proofs' contents (hashes, clocks, epochs): a proof is there or
it fails.

### CampaignPlan: what a campaign promises

Its segments run one after another in the order of the frozen plan; a child run is
started once and only when all earlier segments are sealed; a segment is sealed only
full or accepted short by a person; the report comes when all are sealed.

### CampaignRules and Campaign: `campaign/journal.py`, `conductor.py`, `adapters.py`, `switch.py`

`CampaignRules` is the pure part as in `JournalRules`: `Accepts` is `Replay.check` of the
campaign's journal, `Apply` is `Replay.apply`.

In `Campaign` one call of `advance` decides on what it reads and leaves in `todo` what it
will do: lines, each an append of its own, and at most one side effect.  The conductor
can die between any two of them and inside the side effect.  `question` and `answer` are
the drop box; an entry knows whether it carries the current nonce (`fresh`) and whether
the campaign has moved on since (`moved`, for the property).  `child` are the runs, `port`
is who listens where the policy should; it changes at any time, also between two things
that the conductor does.  The ghost `disturbed` says that it did so after an act was decided
on and before it.  A child run is what `EvaluationRun` tells of it: under way, failed, or
over.

| Action | Code |
|---|---|
| `AppendLine` | `CampaignJournal.append`, line by line |
| `TakePause` | `_poll_pause` |
| `InDraft` ... `InAnalyzing` | `advance` in each state: the `_in_...` methods |
| `Ask`, `DropAnswer`, `TakeAnswer` | `_ask`, `_answer`, the drop box's `take` |
| `InEnvConfirm`, `WaitingForPerson` | the confirmation with its launch, the answers to a wait, `resume_target` |
| `StopPolicy`, `StartPolicy`, `LaunchRun`, `WriteReport` | the side effects, each with what may have happened when it is not known or, for a start and a launch, when it was refused late |
| `Close`, `Crash`, `Attach` | the end of the controller, a death, `attach` with `recover` |
| `PersonAnswers`, `ChildMoves`, `PortChanges` | external: the API, the child runs, the policy services |

`CampaignRestarts` adds one history variable: a stop rule has come due and nobody has
overridden it.

Left out: the torn tail and the failed write of the campaign's journal (the same code as
in `RunJournal`), the guided host's files, the session writer (the controller passes
none), unblinding.

### EntryStore: what the cache promises

A set of entries: one appears at once and whole, as the newest of its key; any
may go except those held; a reader takes hold of the newest of its key and
version.  There is no folder, lock, reservation or trash in it.

### DiskBudget: `performance/budget.py`

`entries`, `trash` and `scratch` are the folder, its `.budget/trash` and the
writers' private folders.  `job[p]` is the call process `p` is in and, from
`Registers` on, its record (the reservation and the lock on it); `lease[p]` is the
shared flock on an entry; `room` holds the local variables of `_reclaim`.
`late` is a ghost.

| Action | Code |
|---|---|
| `Begins` | `_begin` up to `_reclaim`: lock, housekeeping if due, the live writers |
| `Evicts` | one round of the loop in `_reclaim` (called from `_begin`, `_commit`, `maintain`) |
| `Registers`, `IsRefused` | the end of `_begin` |
| `Writes` | the caller's block, up to the reservation |
| `StartsCommit` | `_commit`: the next generation, the older ones deleted |
| `Renames`, `IsUndone`, `IsRefusedLate` | the end of `_commit`: the rename; the rename undone after a failed fsync; no room |
| `Abandons`, `Closes` | `_writing` on an exception; `_Writer.close` |
| `RemovesTrash` | the end of `_lock`, after the lock is released |
| `Get`, `ClosesLease` | `get`, `Lease.close` |
| `Discard`, `PurgeStale`, `Maintains`, `IsMaintained` | the calls of those names |
| `IsClaimed` | `claim_abandoned` and the removal it is for |
| `Expires`, `Crash` | time passes; a process dies, its locks with it |

Left out: raw writes beyond a reservation (the exception the class documents),
`min_free_bytes`, entries changed by other tools (`_resize`, damaged entries), a
removal that fails.  The order of last use is a file time that others may set:
among the entries of one rank any may be evicted next, which includes the code's
order.

A definition marked "Mutant" in a comment is a plausible bug of the definition
that follows it.  Nothing uses it; it documents what each property guards
against.

## 3. What is checked

| Run | Instance | Shows |
|---|---|---|
| `run_journal` | two processes, one episode, physical kind `home`, 4 states, 3 transactions, 3 openings | `PhysicalAtMostOnce`, `OutcomesAreTrue`, `EpochFencesOldGrants`, `MemoryIsDisk`, `WritersNeverCorrupt`, `FaultLeftByOperator`, `NothingReplayed`, `RecoveryEnds` |
| `orchestrator_crash` | one round with a reset, two restarts, two resumes | `OneResultPerEpisode`, `CountsSurviveRestart`, `RolloutsAgree`, `FenceBackedByJournal`, `TableNeverRefuses`, `ImplementsRun` |
| `orchestrator_stops` | one round, two stops, verdicts, a resume | `StopNotLost`, `StopWithinOneStep`, `VerdictOfItsEpisode`, `NoChainBreaks` |
| `orchestrator_live` | one round, one stop, a resume | `StopHonoured` |
| `intervention` | two stops, episodes of two steps with one pause, two resumes, failures everywhere | `HeldWhileJudged`, `StopsMotion`, `RearmedClean`, `UnprovenForEver` |
| `stop_is_no_failed_proof` | the same without a resume | a counterexample to `StopIsNoFailedProof` (section 6) |
| `campaign` | three segments of two policies, two attempts, crashes at every line | `NeverRefused`, `NothingMovesUnanswered`, `StartedOnce`, `RightPolicy`, `AnswersTheQuestion`, `ImplementsPlan`, `TypeOK` |
| `stop_rule_forgotten` | two segments | a counterexample to `StopRuleHeeded` (section 6) |
| `command_channel` | two commands of either kind, a signal, one result that cannot be written, two runners | `ResumedOnce`, `CarriedOutOnce`, `AnswersTrue`, `OldStopsStayOld`, `EveryCommandTaken`, `SigtermEnds` |
| `sigterm_ends_run` | one runner | a counterexample to `OnlyTypedStopsEnd` (section 6) |
| `disk_budget` | two processes, two keys, two versions, three bytes, two entries, two writes, one death | `WithinLimit`, `WritersKeepData`, `ImplementsStore`, `CallsEnd` |
| `late_refusal` | one version, three writes, nobody dies | a counterexample to `RefusedBeforeWriting` (section 6) |

Where a property is proved for every instance and its run would say nothing more, the
run leaves it out: `TypeOK`, `WriteAhead` and `SingleWriter` of `RunJournal`, `TypeOK` of
`Intervention` and of `Orchestrator`.

**Bounds.**  Three openings of a journal are a first life, a recovery that is
cut short and a recovery of that; three transactions of each life's caller are a
physical action, its retry, and one more.  Two processes are enough for a lock
that only one may hold.  In the orchestrator a round is a forward episode of at
most `MaxSteps` steps and a reset; `MaxForward`, `MaxReset`, `MaxCrashes`,
`MaxResumes` and `MaxStops` are bounds of the model, not of the code.  Two steps
are needed for a stop to come between them, two crashes for a crash in a
recovery, two stops for one that is older and one that is newer than a resume.

In the intervention two steps of an episode are one before and one after a pause; two
stops are one a resume overrides and one that comes during or after it; the second resume
finds what the first left.  `MaxResumes` is a bound of the model, the others are
settings of the code.  The theorems hold for every value of all of them.

In the campaign three segments are one whose policy is kept, one whose policy is
switched, and one more to come after a wait; two faults are a fault and the stop rule's
limit; `MaxAttempts` and `MaxUnplanned` are bounds of the model.  Nothing bounds the
crashes, restarts, answers and policy changes.  In `campaign` no intervention is unplanned
(`MaxUnplanned = 0`), so that the limit of a stop rule is passed only in
`stop_rule_forgotten`; the theorems hold for every value.

In the channel two commands are a stop and a resume in either order, or two of a
kind; two runners are the one that dies and the one that finds what it left; one
result that cannot be written is enough for a command that was carried out and
has no answer.  `MaxLives` and `MaxFails` are bounds of the model.  `Deadline`
is FALSE, as for every runner that owns its process; with TRUE the safety
properties hold as well, the state space is a quarter larger.

In the cache a size is one or two units of a limit of three: two writes fit or
not, in bytes or in number, and a second may need an eviction.  Two processes are
a writer and whoever disturbs it.  `MaxWrites` and `MaxCrashes` are bounds of the model;
the third write of `late_refusal` is a competitor for an entry and its rewrite.

**Deadlock** is not checked: a run that is over, a process that is gone with no
restart left, and a journal that nobody opens again really stop.

**Fairness.**  `run_journal` assumes that a recovering process goes on
(`WF(Recover(p))`): the recovery is straight-line code.  `orchestrator_live`
assumes that the loop and a transaction under way go on (`WF(Loop)`,
`WF(Transaction)`): every wait in the code is bounded by a time-out, and the
lock's holder never waits for the loop.  Nobody has to send a command, resume a
run or restart a process.  `command_channel` assumes that the pump's thread, the
driver's and the run go on (`WF(Pump)`, `WF(Driver)`, `WF(Run)`): the pump polls
for ever and no exception ends it, every wait of the driver ends by itself, and an
episode is finite (the step limit) while the run is driven.  That a result which
could not be written is tried again in time is not assumed: `EveryCommandTaken` is
about the taking.  `disk_budget` assumes that a call that has begun
goes on (`WF(Goes(p))`): the flock is held for straight-line code, waiting for it
ends at `lock_timeout_s`, and the kernel drops a dead holder's lock.  Nobody has
to close a lease.  `StopHonoured` says that no wake-up is lost and no
lock kept; that an episode is finite is the model's step limit and the code's.

**Reading the properties.**  `StopWithinOneStep`: after a stop is registered at
most the step whose last check came before it is sent, and no new episode moves.
`StopNotLost`: until the run rests with a person the stop stays registered; a
resume overrides only stops older than itself (a stop registered before the
resume began is dropped by design).  `TableNeverRefuses`: the loop never asks for
a move its table refuses, which would lock the run; it ties the outcomes the
code branches on to the rules of the table in every interleaving.
`HeldWhileJudged` speaks of the backend (`busy`) and not only of the slot: a judge whose
request was cancelled may still be looking.  `RearmedClean` is what keeps a resume from
opening the cycle on it.  `NeverRefused` of the campaign ties what `advance` writes to
what `Replay.check` allows after every crash: a refused line would end the controller
again at each attach.  `RightPolicy` is about the decision to launch: the port is looked at
(`conductor.py:675`), then the plan is verified, the run looked for and a line written, and
only then the child is launched (702).  What becomes of the port meanwhile no code of the
conductor sees, and the property excepts it (section 6).

## 4. What is proved

`RunJournalProofs` proves for every set of processes, states, episodes, kinds
and steps, every number of crashes and every bound:

| Theorem | Property |
|---|---|
| `TypeCorrect` | `TypeOK` |
| `AtMostOnce` | `PhysicalAtMostOnce` |
| `RanIsOnDisk` | `WriteAhead` |
| `OneWriter` | `SingleWriter` |
| `NeverCorrupted` | `WritersNeverCorrupt` |
| `FaultLeft` | `FaultLeftByOperator` |
| `MemoryIsTheFile` | `MemoryIsDisk` |
| `TellsTheTruth` | `OutcomesAreTrue` |
| `OldGrantsAreVoid` | `EpochFencesOldGrants` |
| `OnlyOwnTransactionsRun` | `NothingReplayed` |

Assumptions: `ProcsAssumption`, `BoundsAssumption` and those named in
`JournalRules` (TLC evaluates them in the runs).

The argument.  `PhysicalAtMostOnce` is not inductive: nothing in it says why the
second attempt is refused.  The invariant `IInv` adds

* `SoundReplay(disk)`: an open physical transaction's key is attempted, and what
  is retried was recorded as not run;
* `SingleWriter` and `WriterReadsDisk`: a process that can still append holds
  the lock and its replay is the file's, so a check against `mem` is a check
  against `disk`;
* `OpenNotYetRun`: while the open physical transaction has not acted, its key
  has not run, which is what lets `Act` count up;
* `WriteAhead`: what ran is attempted on disk, so `MayPrepare` refuses it.

Each action preserves each conjunct (one step per action), lemmas about
`Accepts` and `Apply` carry the pure part, and PTL closes the temporal step.  The
action properties follow from the same invariant.  The last four theorems add an
invariant of their own each: what is acknowledged or committed did happen, what is
recorded as not run did not, and every grant's epoch is below the file's.

`OrchestratorProofs` proves, for every set of episodes and of stops, every limit on
steps, rounds and replacements, and any number of crashes and resumes:

| Theorem | Property |
|---|---|
| `Types` | `TypeOK` |
| `NeverRefused` | `TableNeverRefuses` |
| `ChainsHold` | `NoChainBreaks` |
| `FenceIsBacked` | `FenceBackedByJournal` |
| `OneResult` | `OneResultPerEpisode` |
| `StopStays` | `StopNotLost` |
| `StopIsPrompt` | `StopWithinOneStep` |
| `VerdictBelongs` | `VerdictOfItsEpisode` |
| `RolloutsTrue` | `RolloutsAgree` |
| `Implements` | `ImplementsRun` |
| `CountsSurvive` | `CountsSurviveRestart` |

Assumptions: `CommandsAssumption` (the null commands are no stops) and
`BoundsAssumption` (the limits are numbers).

The argument.  The loop chooses its next move from `pc` and from what its adapters
answered, the table judges it by the journal's state, and a stop, a resume or a crash may
have come in between.  `IInv` therefore says what the state of the run can be at each place
of the loop (`At`), which transactions may be under way there (`Leg`), what the context then
holds (`Context`, `Here`), who holds `_lock` and how far (`Holder`), and what is left when
the process is gone (`Off`).  That every outcome the code branches on has an edge in the table
is a family of lemmas (`...Edge`); with `At` they give `NeverRefused` and `ChainsHold`.
`Fence` says where a token may be out.  `Results` and `OpenFits` say that the journal is
consistent and that the open transaction, if there is one, can be committed on it, which
is what a restart relies on; `Fresh` says that an episode's number is above all that were
attempted, why a key is never used twice.

Each later theorem puts a layer on it.  `StopsKept`: while a resume holds the lock every
stop that is owed is younger than it.  `StepsAfter`: when a step is next, none has been sent
since the stop.  `VerdictHere`: which places can have a verdict waiting, and of which
episode.  `RolloutsKept`: a seal is on disk, or its line is about to be written and the
recorder has done it.  `CountsKept`: the rounds on disk, but for one that is committed and
not yet counted, are what the process has counted (`Tallied`, with the library's facts about
the size of finite sets).

`Implements` maps each step: a commit is `Start`, `Close`, `Rest`, `Resume` or `End` of the
promise, the issue of a token is `Grant`, a revocation `Withdraw`, the commit of a recovery
`Close` or `Rest`, and everything else leaves alone what the promise sees.

`DiskBudgetProofs` proves, for every finite set of processes, every set of keys and
versions, every limit and any number of deaths:

| Theorem | Property |
|---|---|
| `Implements` | `ImplementsStore` |
| `DataKept` | `WritersKeepData` |
| `LimitHolds` | `WithinLimit` |

Its `IInv` says that at most one process holds the folder's lock (`OneInLock`),
that a lease is on an entry that is there (`LeasesStay`), that there is a newest
generation (`Bounded`) and that a writer's job is sound (`Fine`): its size is what
it wrote, and the generation it is about to commit is above those of its key.
The last one is why a rename is an `Adds` of the store: no other process can
rename while this one holds the lock, and everything else that can happen takes
entries away.  That the next generation is above the others needs the largest of
a bounded set of numbers, which `LeastNat` and `Largest` get from the library's
theorem that the natural numbers are well founded.  `StepRefines` then maps every
action to `Adds`, `Drops`, `Takes`, `LetsGo` or a stutter.

`LimitHolds` is about sums.  The library's sums are defined by recursion, which nothing
can be proved about here, so `SumOf(f)` counts units: it is the size of the set of all
`<<x, i>>` with `i` up to `f[x]`.  That it is the library's sum is checked by TLC on small
functions (`SumAssumption` of `MCDiskBudget`); that sums split, shrink and change as sums do
(`SumSplits`, `SumLe`, `SumChanges`) follows from the library's theorems about the size of
finite sets.  The limit itself is not inductive.  Between its reservation and its first byte
a writer has been promised room it has not used, and what it evicted for that room is still
on the disk, in its trash, which `_reclaim` does not count any more.  `Bearable` says that
*any* of the writers at this point may write all they reserved, if their own trash is left
out of the count: for none of them this is the limit, and it is what each of them needs, as
it writes only once its trash is gone.  A writer that makes room is covered by what it
counted when it took the lock (`RoomAhead`, `EntryAhead`), although the others go on
writing, closing and dying meanwhile: what they reserved covers whatever they come to
write.  The set of processes has to be finite (`ProcsAssumption`), or there is no sum.

`CallsEnd` needs fairness.

`CommandChannelProofs` proves, for every set of commands, any number of runners, crashes
and lost results:

| Theorem | Property |
|---|---|
| `ResumesOnce` | `ResumedOnce` |
| `OnceCarriedOut` | `CarriedOutOnce` |
| `OldStopsAreOld` | `OldStopsStayOld` |
| `AnswersAreTrue` | `AnswersTrue` |

For `ResumesOnce` the invariant adds that what was made has its line in the journal
(`OnRecord`), so that a runner which takes the file again is refused, and that between line
and commit the transition has not been made (`InHand`); all actions but two are `Quiet`
for it.

The others rest on the listing.  `Pending` names the open files by their places in the
inbox, the k-th of them being the one with k - 1 before it (`Nth`).  `Rank` counts how many
open places are no further than a given one; it grows along them, so that each rank up to
their number is reached, by exactly one place (`NthPlace`, with the library's facts about
injections between finite sets), and the listing has every open file once and in order
(`PendingLists`).  `Queue` carries this on while the listing is worked off and new commands
arrive: what is listed is sent and not dealt with, each name is there once, and whatever
was sent before one of them is dealt with or listed before it (`ListedAs`); what is in
hand or waits for its result has been taken.  `OnceCarriedOut` is a part of it
(`TakenOnce`).  `Order` says that a resume under way comes after every resume made
(`Last`), that unless the run is locked nothing sent before such a resume is left over
(`LeftOver`), and that a stop in hand is younger than all of them (`StopNew`);
`OldStopsAreOld` is a part of it.  `Told` says where a code that is in hand, is kept for a
retry or is on disk comes from, and gives `AnswersAreTrue` together with `Order` and
`IInv`.

`InterventionProofs` proves, for any number of stops, steps, pauses, episodes and
resumes:

| Theorem | Property |
|---|---|
| `TypesKept` | `TypeOK` |
| `ArmHeldWhileJudged` | `HeldWhileJudged` |
| `StopHoldsTheArm` | `StopsMotion` |
| `RearmOnlyClean` | `RearmedClean` |
| `ProofFailureIsFinal` | `UnprovenForEver` |
| `RearmNeverRefused` | a resume that was let in may rearm |

None of them is inductive.  The invariant says for each place of the loop what the
slot, the backend, the token and the lock are (`Locking`, `Moving`, `Requesting`), that a
failed proof is latched or about to be (`Failing`), and that what a resume looked at
before its transaction still holds after it, because the loop is at rest in between and
only a stop can touch the cycle (`Resuming`).  A token is issued only by `Issues` and
`Homing`, with the cycle open and no stop registered; an open cycle outside a request is
clean, hence nothing is judged then.

`CampaignProofs` and `CampaignPlanProofs` prove, for every plan, number of segments,
limit, number of launches and crash of the conductor:

| Theorem | Property |
|---|---|
| `Typed` | `TypeOK` |
| `Accepted` | `NeverRefused` |
| `Still` | `NothingMovesUnanswered` |
| `Once` | `StartedOnce` |
| `OwnPolicy` | `RightPolicy` |
| `Answered` | `AnswersTheQuestion` |
| `Refines` | `ImplementsPlan` |

Assumptions: `SegmentCountAssumption`, `MaxFaultsAssumption` and `ArmsAssumption` (the
schedule is a function of the segments, "nobody", "foreign" and "no question" are none of
the things they stand beside).

The argument.  What `advance` will write lies in `todo`, so the invariant `Inv` has to say
when an agenda can be carried out to its end.  `Agenda` says it line by line: the first
line suits the journal as it is (`First`: what `Replay.check` asks and, for a launch, that
the run is not there and its own policy listens, as far as the port has not changed since
the decision, `Served`), each next one suits what the one before
leaves (`Follows`), and of those further on only a wait or the plan's freezing is a
transaction (`IsWait`, `IsPlan`, `Later`).  `LineKeeps` is the step: whatever line is
applied, the rest is an agenda again.  `Sound` is the journal's own part: the segments are
sealed in order and only the one at hand has launches (`Order`), the open transaction
still fits (`OpenFits`), a launch is closed unless it is open, and one that was executed
or committed has its run (`Closed`).  `AtRest` and `ComesToRest` are why nothing moves
unanswered: after an attach the agenda ends in a wait, and from a wait only a person's
answer leads on.  `RecoverySteps` shows it of every dangling transaction.  The journal's
rules are pure and their lemmas (`CampaignRulesProofs`) say what each line changes.

`Answered` needs an invariant of its own (`FreshIsNow`): a fresh question belongs to the
wait the campaign is in, and a fresh answer to it; every transition needs `todo` to hold a
line that is not a note, and then no question is fresh any more.

`Refines` adds `Truth`: what a transaction says of a child run is so when it is written
and stays so (a run found short stays short, a run that is sealed is over).  Then a
commit is `Seal`, `Accept`, `Report`, `Abort` or nothing, a launch is `Start` of the next
segment or nothing, a run's own move is `Fail`, `GoOn` or `Finish`.

Every safety property of a passing run is a theorem.  Only model-checked: what the runs that
expect a violation show (section 6), and the liveness properties, which need fairness and
stay with TLC.

## 5. Plan and what is not modelled

Next, in this order: an abstract mailbox that `CommandChannel` implements; the labelling
queue (`live/queue.py`: replayed requests, an unreadable file) and the pool's journal of jobs.

Not modelled, and why:

* Numerical and data-processing code (`marvel0/`, `recap/`, `conversion/`, `segmentation/`,
  `annotations/`, `events/`, `samples/`, the campaign's report, ledger and schedule,
  `harness/`): no steps of several actors; a model would be the code again.  They are most
  of the repository's lines.
* User interface, routes and documentation builders (`src/src`, `src/backend`, `docs/`).
* Devices and their transport (`fr3_bridge.py`, `fr3_providers.py`, `provider_worker.py`,
  `stt/`, `inference/`): what they may answer is a free choice in the models that use them.
* The observe-only subtask loop: it changes nothing the run depends on.
* `agent/`, `pool/`, `jobs.py`, `live/`: state machines of their own, for later.

## 6. Findings

The cache's documentation says that a write is refused before any data is
written.  `_commit` makes room a second time and counts what the others hold at
that moment; a writer between its rename and its `close` counts twice (as an
entry or trash, and as a reservation), so a second writer whose reservation was
granted can be refused as busy with its data written and its key's older entry
deleted.  Run `late_refusal`.  The limit holds all the same (`WithinLimit`).

A SIGTERM may end a run that waits for a person, although "only a typed `stop` ends
a run".  `_sigterm` looks at the state without the lock; a run that reaches
WAIT_HUMAN between the look and the call of `stop` is completed by that stop.  Run
`sigterm_ends_run`.

A campaign forgets a stop rule.  The limit of unplanned interventions is looked at only
when a segment has just been sealed.  A conductor that stops or dies between the seal
and the move to WAIT_HUMAN is attached with `conductor_restarted`, which a plain resume
answers; the limit, already passed, is not looked at again although the documentation
asks for `override_stop_rule`.  Run `stop_rule_forgotten`.

An operator's stop can be taken for a failed proof.  `note_operator_stop` is there to
prevent that, but the stop also withdraws the request and the motion token: a loop that
has made its last look finds its result not permitted, or its step refused, raises
`InterventionUnproven` and is latched as unproven, which no resume opens.  Run
`stop_is_no_failed_proof`.  The arm is safe all the same (`HeldWhileJudged`); what is lost is
the run.

Seen while modelling, with no run of their own:

* A second verdict with another id is accepted while the first is being recorded
  (`orchestrator.py:1851`), although `episode_verdict` documents one per episode
  (1796-1801); it waits and is dropped with a note (`VerdictOfItsEpisode` holds).
* An older generation that a lease kept while it was replaced is the newest again when
  the newer one is discarded, evicted or expires, and is then given to new readers
  (`budget.py:438`).  What holds is `ImplementsStore`: a reader gets the newest entry there
  is.
* A resume in the inbox behind a SIGTERM that was answered `exited_without_stop` still
  takes the run on and is driven to its next hold (`SigtermEnds` holds all the same); a
  resume carried out between the driver's last look and `close` is answered `resumed` and
  leaves a run under way that nobody drives, until the next attach locks it; a resume
  whose line was written and never committed is answered `repeated`, with `ok`, by the
  next runner.
* A stop that was already overridden by a resume may still be on its way to `fence.revoke`
  and `interrupt`: it latches the cycle the resume has just opened.  A stop's
  `fence.revoke` just before `robot.step` latches the robot's own guard too
  (`fr3_bridge.py:836-854`).
* A policy that dies or is replaced between the conductor's look at the port
  (`conductor.py:675`) and the launch (702-706) does not stop the launch; the child's own
  PREFLIGHT is what asks the policy (`docs/AUTOMATIC_CAMPAIGN.md:569`).
* A launch refused when its run has its entry already, or even its unit (systemd-run fails
  or takes too long, `launch.py:1278-1284`, 1424-1432), is acknowledged as `no` like every
  refusal (`adapters.py:571`).  A plain resume then prepares the segment again, which finds
  the run of that name there and locks the campaign (`conductor.py:689`), time after time;
  only an abort leads out (`StartedOnce` holds).
* A stop that finds the lock still held after its wait is answered `stop_requested`; if the
  loop has just come to wait for a person, the stop ends nothing, and the next resume
  overrides it.
* A second crash inside the campaign's recovery, after its abort and before its move,
  leaves WAIT_HUMAN where FAULT_LOCKED was due (`conductor.py:431`).
* A pause asked for while a segment runs is not taken at a boundary at which a stop rule
  or a restart makes the campaign wait; and its file is retired before its note is
  written (`adapters.py:347`, `conductor.py:484`), so a crash in between loses it.
