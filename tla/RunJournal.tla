----------------------------- MODULE RunJournal -----------------------------
(***************************************************************************)
(* The durable state journal of one AERI run and the transactions written  *)
(* to it: src/levi/automatic/journal.py, with the one caller that appends  *)
(* transactions, Orchestrator._tx and Orchestrator._contain.               *)
(*                                                                         *)
(* Processes come and go; whoever holds the flock on the run directory is  *)
(* the writer.  A line is one write and one fsync, so it can be cut short  *)
(* by a crash or refused by the disk; the next writer cuts a torn tail,    *)
(* replays the whole lines and runs the recovery before anything else.     *)
(*                                                                         *)
(* Simplifications.  disk is what replaying the whole lines yields, not    *)
(* the lines.  A successful append is one step (append holds the journal's *)
(* mutex and the flock keeps other processes out); the ways it can end     *)
(* half-way are AppendFails and CrashInAppend.  An open that is refused    *)
(* (another plan, another mode) writes at most a note and is left out;     *)
(* plan.json, state.json and journal.lock decide no transaction.           *)
(***************************************************************************)
EXTENDS JournalRules, FiniteSets

CONSTANTS
    Procs,       \* processes that may open the run's journal
    NoProc,      \* nobody holds the lock
    MaxTx,       \* bound: transactions the orchestrator prepares
    MaxLives     \* bound: times the journal is opened or created

ASSUME ProcsAssumption == NoProc \notin Procs
ASSUME BoundsAssumption == MaxTx \in Nat /\ MaxLives \in Nat

VARIABLES
    disk,      \* Replay of the whole lines on disk
    torn,      \* bytes of a last line cut short follow them
    corrupt,   \* a whole line that breaks the chain, the contract or a rule
    lock,      \* the flock on the run directory
    phase,     \* [Procs -> Phases]: what a process is doing with the journal
    mem,       \* [Procs -> Replays]: the Replay a process holds
    broken,    \* [Procs -> BOOLEAN]: a write failed; no more appends
    acted,     \* the open transaction's side effect: what the caller got back
    \* Ghosts: what no code records, for the properties only.
    ran,       \* [Keys -> Nat]: how often a physical action really ran
    grants,    \* physical transactions prepared: [tx, epoch, life]
    lives      \* how often the journal was opened or created

disks == <<disk, torn, corrupt>>
ghosts == <<ran, grants, lives>>
vars == <<disk, torn, corrupt, lock, phase, mem, broken, acted, ghosts>>

RecoveryPhases == {"abort", "note", "prepare", "commit"}
Phases == {"down", "serve", "readonly"} \cup RecoveryPhases
Outcomes == Executed \cup {"not yet"}
Grants == [tx : Nat, epoch : Nat, life : Nat]

TypeOK ==
    /\ disk \in Replays
    /\ torn \in BOOLEAN
    /\ corrupt \in BOOLEAN
    /\ lock \in Procs \cup {NoProc}
    /\ phase \in [Procs -> Phases]
    /\ mem \in [Procs -> Replays]
    /\ broken \in [Procs -> BOOLEAN]
    /\ acted \in Outcomes
    /\ ran \in [Keys -> Nat]
    /\ grants \subseteq Grants
    /\ lives \in Nat

Init ==
    /\ disk = Blank
    /\ torn = FALSE
    /\ corrupt = FALSE
    /\ lock = NoProc
    /\ phase = [p \in Procs |-> "down"]
    /\ mem = [p \in Procs |-> Blank]
    /\ broken = [p \in Procs |-> FALSE]
    /\ acted = "not yet"
    /\ ran = [k \in Keys |-> 0]
    /\ grants = {}
    /\ lives = 0
-----------------------------------------------------------------------------
(* Appending one line. *)

\* Bytes after a torn tail never make a line, and a line written from a
\* replay that is not the file's own does not chain.
Chains(p) == ~torn /\ mem[p] = disk

\* Mutant: a failed write is tried again.
CanAppend_AfterFailure(p, l) ==
    phase[p] \notin {"down", "readonly"} /\ Accepts(mem[p], l)

\* append gets past its checks.
CanAppend(p, l) ==
    /\ phase[p] \notin {"down", "readonly"}
    /\ ~broken[p]
    /\ Accepts(mem[p], l)

\* The whole line reached the disk.
OnDisk(p, l) ==
    IF Chains(p)
    THEN disk' = Apply(disk, l) /\ UNCHANGED <<torn, corrupt>>
    ELSE corrupt' = TRUE /\ UNCHANGED <<disk, torn>>

\* A write that did not end well left nothing, part of the line, or all of it.
Interrupted(p, l) ==
    \/ UNCHANGED disks
    \/ torn' = TRUE /\ UNCHANGED <<disk, corrupt>>
    \/ OnDisk(p, l)

Append(p, l) ==
    /\ CanAppend(p, l)
    /\ OnDisk(p, l)
    /\ mem' = [mem EXCEPT ![p] = Apply(@, l)]
    /\ UNCHANGED <<lock, broken>>

\* _write: an OSError from write or fsync.
AppendFails(p, l) ==
    /\ CanAppend(p, l)
    /\ Interrupted(p, l)
    /\ broken' = [broken EXCEPT ![p] = TRUE]
    /\ UNCHANGED <<lock, phase, mem, acted, ghosts>>

\* What the kernel does when a process dies, at any line it was writing.
Dies(p) ==
    /\ lock' = IF lock = p THEN NoProc ELSE lock
    /\ phase' = [phase EXCEPT ![p] = "down"]
    /\ mem' = [mem EXCEPT ![p] = Blank]
    /\ broken' = [broken EXCEPT ![p] = FALSE]
    /\ acted' = "not yet"

CrashInAppend(p, l) ==
    /\ CanAppend(p, l)
    /\ Interrupted(p, l)
    /\ Dies(p)
    /\ UNCHANGED ghosts

\* A crash or an orderly close between two appends.
Leave(p) ==
    /\ phase[p] # "down"
    /\ Dies(p)
    /\ UNCHANGED <<disks, ghosts>>
-----------------------------------------------------------------------------
(* Journal.create and Journal.open.  The flock is taken first; a torn tail *)
(* is cut before the first append.                                         *)

MayTakeLock(p) == lock = NoProc /\ phase[p] = "down" /\ lives < MaxLives

TakeLock(p) ==
    /\ MayTakeLock(p)
    /\ lock' = p
    /\ lives' = lives + 1
    /\ broken' = [broken EXCEPT ![p] = FALSE]
    /\ acted' = "not yet"
    /\ UNCHANGED <<ran, grants>>

\* A run with no whole line yet: torn bytes cut, the header appended.  A
\* crash in it may leave the header torn again, or written.
Create(p) ==
    /\ TakeLock(p)
    /\ ~disk.header /\ ~corrupt
    /\ torn' = FALSE
    /\ disk' = Apply(disk, [rec |-> "run_header"])
    /\ mem' = [mem EXCEPT ![p] = disk']
    /\ phase' = [phase EXCEPT ![p] = "serve"]
    /\ UNCHANGED corrupt

CreateCrashes(p) ==
    /\ MayTakeLock(p)
    /\ ~disk.header /\ ~corrupt
    /\ lives' = lives + 1
    /\ \/ torn' \in BOOLEAN /\ UNCHANGED disk
       \/ torn' = FALSE /\ disk' = Apply(disk, [rec |-> "run_header"])
    /\ UNCHANGED <<corrupt, lock, phase, mem, broken, acted, ran, grants>>

\* Mutant: a dangling transaction is left open, and served.
FirstPhase_LeavesOpen(r) == IF Completed(r) \/ r.open # NoTx THEN "serve" ELSE "prepare"
\* Mutant: a dangling transaction is left open, and the run locked.
FirstPhase_SkipsAbort(r) == IF Completed(r) THEN "serve" ELSE "prepare"

\* Where a recovery begins: nothing to do for a completed run, a dangling
\* transaction is aborted first.
FirstPhase(r) ==
    IF Completed(r) THEN "serve" ELSE IF r.open # NoTx THEN "abort" ELSE "prepare"

\* Mutant: the tail is never cut.
TailAfterOpen_Kept == torn

\* A torn tail is cut, unless the journal is corrupt.
TailAfterOpen == IF corrupt THEN torn ELSE FALSE

Open(p) ==
    /\ TakeLock(p)
    /\ disk.header
    /\ mem' = [mem EXCEPT ![p] = disk]
    /\ phase' = [phase EXCEPT ![p] = IF corrupt THEN "readonly" ELSE FirstPhase(disk)]
    /\ torn' = TailAfterOpen
    /\ UNCHANGED <<disk, corrupt>>

\* Someone edits the file while nobody holds it: a whole line is broken.
Edited ==
    /\ lock = NoProc /\ disk.header
    /\ corrupt' = TRUE
    /\ UNCHANGED <<disk, torn, lock, phase, mem, broken, acted, ghosts>>
-----------------------------------------------------------------------------
(* Journal.recover: every line is an append of its own, so a crash may     *)
(* come between any two of them, and the next open starts it again.        *)

AnyEpisode == CHOOSE e \in Episodes : TRUE
AnyStep == CHOOSE s \in Steps : TRUE

\* Mutant: the recovery keeps the epoch.
RecoveryLock_SameEpoch(r) ==
    [from |-> r.state, to |-> "FAULT_LOCKED", kind |-> "none", ep |-> AnyEpisode,
     step |-> AnyStep, retry |-> 0, who |-> "recovery", epoch |-> r.epoch, tx |-> r.txs + 1]

RecoveryLock(r) ==
    [from |-> r.state, to |-> "FAULT_LOCKED", kind |-> "none",
     ep |-> AnyEpisode, step |-> AnyStep,
     retry |-> 0, who |-> "recovery", epoch |-> r.epoch + 1, tx |-> r.txs + 1]

RecoveryLine(p) ==
    CASE phase[p] = "abort"   -> [rec |-> "aborted"]
      [] phase[p] = "note"    -> [rec |-> "note"]
      [] phase[p] = "prepare" -> [rec |-> "prepared", event |-> RecoveryLock(mem[p])]
      [] phase[p] = "commit"  -> [rec |-> "committed"]

NextPhase == [abort |-> "note", note |-> "prepare", prepare |-> "commit",
              commit |-> "serve"]

Recover(p) ==
    /\ phase[p] \in RecoveryPhases
    /\ Append(p, RecoveryLine(p))
    /\ phase' = [phase EXCEPT ![p] = NextPhase[@]]
    /\ UNCHANGED <<acted, ghosts>>
-----------------------------------------------------------------------------
(* Orchestrator._tx, one line or side effect at a time.                    *)

\* What _tx may ask prepare for.  A physical action always comes under a
\* new epoch; any other move may (it enters or leaves a motion state).  An
\* action that is not physical has no step, and its episode decides nothing.
Asked(r) ==
    {e \in [from : {r.state}, to : States, kind : Kinds, ep : Episodes, step : Steps,
            retry : {0} \cup {n.tx : n \in r.notRun}, who : Principals \ {"recovery"},
            epoch : {r.epoch, r.epoch + 1}, tx : {r.txs + 1}] :
        IF e.kind \in Physical THEN e.epoch = r.epoch + 1
        ELSE e.ep = AnyEpisode /\ e.step = AnyStep}

\* What its side effect returned, or "unknown" when an exception came first.
Acknowledgements == ({acted} \cap Executed) \cup {"unknown"}

\* The lines the serving process may append now: notes; a transaction when
\* none is open; its acknowledgement; the commit; the abort, after any
\* acknowledgement.
TxLines(p) ==
    LET r == mem[p] IN
    [rec : {"note"}]
      \cup (IF r.open = NoTx
            THEN [rec : {"prepared"}, event : {e \in Asked(r) : r.txs < MaxTx}]
            ELSE [rec : {"acknowledged"}, executed : Acknowledgements]
                   \cup (IF r.ack # "unknown" THEN [rec : {"committed"}] ELSE {})
                   \cup (IF r.ack # "none" THEN [rec : {"aborted"}] ELSE {}))

\* A motion may be authorised from the moment prepare returned.
Granted(l) ==
    grants' = IF l.rec = "prepared" /\ l.event.kind \in Physical
              THEN grants \cup {[tx |-> l.event.tx, epoch |-> l.event.epoch,
                                 life |-> lives]}
              ELSE grants

Serve(p) ==
    /\ phase[p] = "serve"
    /\ \E l \in TxLines(p) :
          /\ Append(p, l)
          /\ acted' = IF l.rec \in {"note", "acknowledged"} THEN acted ELSE "not yet"
          /\ Granted(l)
    /\ UNCHANGED <<phase, ran, lives>>

\* act(prepared): between the prepared line and the acknowledgement.  "no"
\* means it did not run; "unknown" leaves it open.
Act(p) ==
    /\ phase[p] = "serve" /\ ~broken[p]
    /\ mem[p].open # NoTx /\ mem[p].open.kind # "none"
    /\ mem[p].ack = "none" /\ acted = "not yet"
    /\ \E x \in Executed, did \in {0, 1} :
          /\ x = "yes" => did = 1
          /\ x = "no" => did = 0
          /\ acted' = x
          /\ ran' = IF mem[p].open.kind \in Physical
                    THEN [ran EXCEPT ![KeyOf(mem[p].open)] = @ + did]
                    ELSE ran
    /\ UNCHANGED <<disks, lock, phase, mem, broken, grants, lives>>

LinesOf(p) ==
    IF phase[p] \in RecoveryPhases THEN {RecoveryLine(p)}
    ELSE IF phase[p] = "serve" THEN TxLines(p) ELSE {}

\* A write that fails or is cut short, in a recovery or in a transaction.
Mishap(p) == \E l \in LinesOf(p) : AppendFails(p, l) \/ CrashInAppend(p, l)
-----------------------------------------------------------------------------
Next ==
    \/ Edited
    \/ \E p \in Procs :
          \/ Create(p)
          \/ CreateCrashes(p)
          \/ Open(p)
          \/ Leave(p)
          \/ Recover(p)
          \/ Serve(p)
          \/ Act(p)
          \/ Mishap(p)

Spec == Init /\ [][Next]_vars

\* A recovery is straight-line code: the process goes on unless it dies.
FairSpec == Spec /\ \A p \in Procs : WF_vars(Recover(p))
-----------------------------------------------------------------------------
(* Safety.                                                                 *)

\* The robot server cannot deduplicate: a home or an episode's steps run at
\* most once, whatever crashes, failed writes, retries and later processes
\* come in between.
PhysicalAtMostOnce == \A k \in Keys : ran[k] <= 1

\* Write-ahead: what ran is on disk, so every later replay refuses it.
WriteAhead == \A k \in Keys : ran[k] > 0 => k \in disk.attempted

\* One writer at a time: the flock on the run directory lets nobody else in.
SingleWriter == \A p \in Procs : phase[p] # "down" => lock = p

\* A writer decides on what the file says; after a failed write it may be one
\* line behind the file, and then it never appends again.
MemoryIsDisk ==
    \A p \in Procs :
        phase[p] # "down" =>
            \/ mem[p] = disk
            \/ broken[p] /\ (torn \/ \E l \in LinesOf(p) : disk = Apply(mem[p], l))

\* What the journal says of an action's outcome is true, whatever failed in
\* between: the state never moves on an action acknowledged as done that did
\* not run, and a retry is only ever of an action that did not run.
OutcomesAreTrue ==
    disk.open # NoTx =>
        /\ disk.open.kind \in Physical /\ disk.ack = "yes"
              => ran[KeyOf(disk.open)] = 1
        /\ disk.open.retry # 0
              => \E n \in disk.notRun : n.tx = disk.open.retry /\ ran[KeyOf(n)] = 0

\* No authorisation given before a crash is valid after it, and no two
\* authorisations share an epoch.
EpochFencesOldGrants ==
    /\ \A g, h \in grants : g.tx < h.tx => g.epoch < h.epoch
    /\ \A p \in Procs, g \in grants :
          phase[p] = "serve" /\ ~Completed(mem[p]) /\ g.life < lives
              => g.epoch < mem[p].epoch

\* A crash or a failed write never leaves a corrupt journal: only somebody
\* else's edit does (a torn tail is not corruption).
\* And a corrupt journal is kept as it is: never written to, never cut.
WritersNeverCorrupt ==
    [][/\ corrupt' # corrupt => lock = NoProc
       /\ corrupt => UNCHANGED disks]_vars

\* Out of FAULT_LOCKED only by an operator's command, to PREFLIGHT, with
\* nothing moving on the way.
FaultLeftByOperator ==
    [][disk.state = "FAULT_LOCKED" /\ disk'.state # "FAULT_LOCKED"
        => /\ disk.open.who = "operator"
           /\ disk'.state = "PREFLIGHT"
           /\ disk.open.kind = "none"]_vars

\* Recovery never replays: a process acts only on a transaction it prepared
\* in this life.
NothingReplayed ==
    [][ran' # ran =>
        \E g \in grants : g.tx = mem[lock].open.tx /\ g.life = lives]_vars

-----------------------------------------------------------------------------
(* Liveness.                                                               *)

\* A recovery ends: the run can be served, unless its process died or the
\* disk refused a line.
RecoveryEnds ==
    \A p \in Procs :
        phase[p] \in RecoveryPhases ~>
            phase[p] \notin RecoveryPhases \/ broken[p]
=============================================================================
