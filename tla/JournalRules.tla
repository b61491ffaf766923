---------------------------- MODULE JournalRules ----------------------------
(***************************************************************************)
(* The rules every line of a run's state journal keeps: the Replay class   *)
(* of src/levi/automatic/journal.py, which both the writer (append) and    *)
(* the reader (scan) apply line by line.  Pure operators, no variables.    *)
(*                                                                         *)
(* Simplifications.  A transaction is named by how many were prepared      *)
(* before it (the code: by the number of its prepared line; unique either  *)
(* way).  A line keeps only what a rule looks at.  "operator" stands for   *)
(* an operator's authority with a command_id.  Clocks and the hash chain   *)
(* are left out here; RunJournal says when a line no longer chains.        *)
(***************************************************************************)
EXTENDS Integers

CONSTANTS
    States,      \* states of the run the journal is asked to move between
    Episodes,    \* episode ids
    Kinds,       \* action kinds, "none" among them
    Physical,    \* the kinds that move the robot: policy_steps and home
    Steps        \* step numbers the orchestrator assigns to physical actions

ASSUME StatesAssumption ==
    {"PREFLIGHT", "FAULT_LOCKED", "COMPLETED"} \subseteq States
ASSUME KindsAssumption == "none" \in Kinds /\ Physical \subseteq Kinds \ {"none"}
ASSUME StepsAssumption == Steps \subseteq Nat /\ Steps # {}
ASSUME EpisodesAssumption == Episodes # {}

NoTx == [to |-> "no transaction"]
Principals == {"orchestrator", "operator", "safety_guard", "recovery"}
Executed == {"yes", "no", "unknown"}

\* What makes a physical action the same action: its idempotency key, the
\* control epoch left out.
Keys == [ep : Episodes, kind : Physical, step : Steps]
KeyOf(e) == [ep |-> e.ep, kind |-> e.kind, step |-> e.step]

\* A prepared transaction; retry = 0 when it names no earlier one.
Events == [from : States, to : States, kind : Kinds, ep : Episodes,
           step : Steps, retry : Nat, who : Principals, epoch : Nat, tx : Nat]

Lines ==
    [rec : {"run_header", "committed", "aborted", "note"}]
      \cup [rec : {"prepared"}, event : Events]
      \cup [rec : {"acknowledged"}, executed : Executed]

\* A physical action the controller reported as not executed, once closed.
Unrun == [tx : Nat, ep : Episodes, kind : Physical, step : Steps]

\* The run as its journal tells it.
Replays == [header : BOOLEAN, state : States, open : Events \cup {NoTx},
            ack : Executed \cup {"none"}, epoch : Nat, txs : Nat,
            attempted : SUBSET Keys, notRun : SUBSET Unrun]

Blank == [header |-> FALSE, state |-> "PREFLIGHT", open |-> NoTx,
          ack |-> "none", epoch |-> 0, txs |-> 0,
          attempted |-> {}, notRun |-> {}]

Completed(r) == r.state = "COMPLETED" /\ r.open = NoTx
-----------------------------------------------------------------------------
(* Replay.check, one operator per rule. *)

\* Mutant: anybody may lead the run out.
LeavesFault_Anybody(e) == e.to \in {"PREFLIGHT", "FAULT_LOCKED"} /\ e.kind = "none"

\* Out of FAULT_LOCKED: an operator's command, or a recovery that stays.
LeavesFault(e) ==
    /\ \/ e.who = "recovery" /\ e.to = "FAULT_LOCKED"
       \/ e.who = "operator" /\ e.to \in {"PREFLIGHT", "FAULT_LOCKED"}
    /\ e.kind = "none"

NeverRepeated(r, e) == KeyOf(e) \notin r.attempted

StepsGoUp(r, e) ==
    \A k \in r.attempted : k.ep = e.ep /\ k.kind = e.kind => k.step < e.step

\* A retry names a closed transaction of the same action and episode that
\* the controller reported as not executed.
RetryAllowed(r, e) ==
    \E n \in r.notRun : n.tx = e.retry /\ n.ep = e.ep /\ n.kind = e.kind

MayPrepare(r, e) ==
    /\ r.header
    /\ e.epoch >= r.epoch
    /\ r.open = NoTx
    /\ r.state # "COMPLETED"
    /\ e.from = r.state
    /\ r.state = "FAULT_LOCKED" => LeavesFault(e)
    /\ e.kind \in Physical => NeverRepeated(r, e) /\ StepsGoUp(r, e)
    /\ e.retry # 0 => e.kind \in Physical /\ RetryAllowed(r, e)

MayAcknowledge(r) == r.open # NoTx /\ r.ack = "none"

MayCommit(r) ==
    /\ r.open # NoTx
    /\ r.open.kind # "none" => r.ack = "yes"

Accepts(r, l) ==
    CASE l.rec = "run_header"   -> ~r.header
      [] l.rec = "prepared"     -> MayPrepare(r, l.event)
      [] l.rec = "acknowledged" -> MayAcknowledge(r)
      [] l.rec = "committed"    -> MayCommit(r)
      [] l.rec = "aborted"      -> r.open # NoTx
      [] l.rec = "note"         -> r.header
-----------------------------------------------------------------------------
(* Replay.apply. *)

AfterPrepare(r, e) ==
    [r EXCEPT !.open = e,
              !.ack = "none",
              !.txs = @ + 1,
              !.epoch = e.epoch,
              !.attempted = IF e.kind \in Physical THEN @ \cup {KeyOf(e)} ELSE @]

AfterCommit(r) ==
    [r EXCEPT !.state = r.open.to, !.open = NoTx, !.ack = "none"]

\* Mutant: an aborted action may be tried again under its own key.
AfterAbort_Releases(r) ==
    [r EXCEPT !.open = NoTx, !.ack = "none", !.attempted = @ \ {KeyOf(r.open)}]

\* Mutant: an unknown outcome is taken for "it did not run".
AfterAbort_UnknownIsNo(r) ==
    [r EXCEPT !.open = NoTx, !.ack = "none",
              !.notRun = IF r.open.kind \in Physical
                         THEN @ \cup {[tx |-> r.open.tx, ep |-> r.open.ep,
                                       kind |-> r.open.kind, step |-> r.open.step]}
                         ELSE @]

AfterAbort(r) ==
    [r EXCEPT !.open = NoTx,
              !.ack = "none",
              !.notRun = IF r.open.kind \in Physical /\ r.ack = "no"
                         THEN @ \cup {[tx |-> r.open.tx, ep |-> r.open.ep,
                                       kind |-> r.open.kind, step |-> r.open.step]}
                         ELSE @]

Apply(r, l) ==
    CASE l.rec = "run_header"   -> [r EXCEPT !.header = TRUE]
      [] l.rec = "prepared"     -> AfterPrepare(r, l.event)
      [] l.rec = "acknowledged" -> [r EXCEPT !.ack = l.executed]
      [] l.rec = "committed"    -> AfterCommit(r)
      [] l.rec = "aborted"      -> AfterAbort(r)
      [] l.rec = "note"         -> r
=============================================================================
