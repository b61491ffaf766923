-------------------------- MODULE RunJournalProofs --------------------------
(***************************************************************************)
(* Proofs about RunJournal, for every set of processes, episodes, states,  *)
(* action kinds and steps, and any number of crashes and reopenings.       *)
(***************************************************************************)
EXTENDS RunJournal, TLAPS
-----------------------------------------------------------------------------
(* Types.                                                                  *)

LEMMA BlankType == Blank \in Replays
  BY StatesAssumption DEF Blank, Replays

LEMMA KeyOfType ==
    ASSUME NEW e \in Events, e.kind \in Physical
    PROVE  KeyOf(e) \in Keys
  BY DEF Events, KeyOf, Keys

\* A rule applied to a well-formed replay and line gives a well-formed replay.
LEMMA ApplyType ==
    ASSUME NEW r \in Replays, NEW l \in Lines, Accepts(r, l)
    PROVE  Apply(r, l) \in Replays
<1>1. CASE l.rec = "run_header"
  BY <1>1 DEF Apply, Replays
<1>2. CASE l.rec = "prepared"
  <2> DEFINE e == l.event
             a == IF e.kind \in Physical THEN r.attempted \cup {KeyOf(e)} ELSE r.attempted
             m == e.epoch
             t == r.txs + 1
  <2>1. e \in Events
    BY <1>2 DEF Lines
  <2>2. m \in Nat
    BY <2>1 DEF Events
  <2>3. a \in SUBSET Keys
    <3>1. r.attempted \in SUBSET Keys
      BY DEF Replays
    <3> QED
      BY <2>1, <3>1, KeyOfType
  <2>4. t \in Nat
    BY DEF Replays
  <2>5. Apply(r, l) = [r EXCEPT !.open = e, !.ack = "none", !.txs = t,
                                !.epoch = m, !.attempted = a]
    BY <1>2 DEF Apply, AfterPrepare, Replays
  <2> HIDE DEF e, a, m, t
  <2> QED
    BY <2>1, <2>2, <2>3, <2>4, <2>5 DEF Replays
<1>3. CASE l.rec = "acknowledged"
  <2>1. l.executed \in Executed
    BY <1>3 DEF Lines
  <2> QED
    BY <1>3, <2>1 DEF Apply, Replays
<1>4. CASE l.rec = "committed"
  <2>1. r.open \in Events
    BY <1>4 DEF Accepts, MayCommit, Replays
  <2>2. AfterCommit(r) \in Replays
    BY <2>1 DEF AfterCommit, Replays, Events
  <2> QED
    BY <1>4, <2>2 DEF Apply
<1>5. CASE l.rec = "aborted"
  <2> DEFINE n == IF r.open.kind \in Physical /\ r.ack = "no"
                  THEN r.notRun \cup {[tx |-> r.open.tx, ep |-> r.open.ep,
                                       kind |-> r.open.kind, step |-> r.open.step]}
                  ELSE r.notRun
  <2>1. r.open \in Events
    BY <1>5 DEF Accepts, Replays
  <2>2. n \in SUBSET Unrun
    <3>1. r.notRun \in SUBSET Unrun
      BY DEF Replays
    <3> QED
      BY <2>1, <3>1 DEF Events, Unrun
  <2>3. Apply(r, l) = [r EXCEPT !.open = NoTx, !.ack = "none", !.notRun = n]
    BY <1>5 DEF Apply, AfterAbort, Replays
  <2> HIDE DEF n
  <2> QED
    BY <2>2, <2>3 DEF Replays
<1>6. CASE l.rec = "note"
  BY <1>6 DEF Apply
<1> QED
  BY <1>1, <1>2, <1>3, <1>4, <1>5, <1>6 DEF Lines

\* Every line a process may append is well formed.
LEMMA RecoveryLineType ==
    ASSUME TypeOK, NEW p \in Procs, phase[p] \in RecoveryPhases
    PROVE  RecoveryLine(p) \in Lines
<1> DEFINE r == mem[p]
<1>1. r \in Replays
  BY DEF TypeOK
<1>2. AnyEpisode \in Episodes /\ AnyStep \in Steps
  BY StepsAssumption, EpisodesAssumption DEF AnyEpisode, AnyStep
<1>3. r.state \in States /\ r.epoch + 1 \in Nat /\ r.txs + 1 \in Nat
  BY <1>1 DEF Replays
<1>4. RecoveryLock(r) \in Events
  BY <1>2, <1>3, StatesAssumption, KindsAssumption DEF RecoveryLock, Events, Principals
<1> QED
  BY <1>4 DEF RecoveryLine, RecoveryPhases, Lines

LEMMA TxLineType ==
    ASSUME TypeOK, NEW p \in Procs, NEW l \in TxLines(p)
    PROVE  l \in Lines
<1> DEFINE r == mem[p]
<1>1. r \in Replays
  BY DEF TypeOK
<1>2. ASSUME NEW e \in Asked(r)
      PROVE  e \in Events
  <2>1. {0} \cup {n.tx : n \in r.notRun} \subseteq Nat
    BY <1>1 DEF Replays, Unrun
  <2>2. r.state \in States /\ r.epoch \in Nat /\ r.epoch + 1 \in Nat /\ r.txs + 1 \in Nat
    BY <1>1 DEF Replays
  <2> QED
    BY <2>1, <2>2 DEF Asked, Events
<1>3. CASE l \in [rec : {"note"}]
  BY <1>3 DEF Lines
<1>4. CASE l \in [rec : {"prepared"}, event : {e \in Asked(r) : r.txs < MaxTx}]
  BY <1>2, <1>4 DEF Lines
<1>5. CASE l \in [rec : {"acknowledged"}, executed : Acknowledgements]
  BY <1>5 DEF Lines, Executed, Acknowledgements
<1>6. CASE l \in [rec : {"committed"}] \/ l \in [rec : {"aborted"}]
  BY <1>6 DEF Lines
<1> QED
  BY <1>3, <1>4, <1>5, <1>6 DEF TxLines

LEMMA LinesOfType ==
    ASSUME TypeOK, NEW p \in Procs, NEW l \in LinesOf(p)
    PROVE  l \in Lines
  BY RecoveryLineType, TxLineType DEF LinesOf

\* Appending, completely or not, keeps the file well formed.
LEMMA OnDiskType ==
    ASSUME TypeOK, NEW p \in Procs, NEW l \in Lines, CanAppend(p, l), OnDisk(p, l)
    PROVE  disk' \in Replays /\ torn' \in BOOLEAN /\ corrupt' \in BOOLEAN
<1>1. CASE Chains(p)
  <2>1. Accepts(disk, l)
    BY <1>1 DEF Chains, CanAppend
  <2>2. Apply(disk, l) \in Replays
    BY <2>1, ApplyType DEF TypeOK
  <2> QED
    BY <1>1, <2>2 DEF OnDisk, TypeOK
<1>2. CASE ~Chains(p)
  BY <1>2 DEF OnDisk, TypeOK
<1> QED
  BY <1>1, <1>2

LEMMA InterruptedType ==
    ASSUME TypeOK, NEW p \in Procs, NEW l \in Lines, CanAppend(p, l), Interrupted(p, l)
    PROVE  disk' \in Replays /\ torn' \in BOOLEAN /\ corrupt' \in BOOLEAN
  BY OnDiskType DEF Interrupted, disks, TypeOK

LEMMA AppendTypes ==
    ASSUME TypeOK, NEW p \in Procs, NEW l \in Lines, Append(p, l)
    PROVE  /\ disk' \in Replays /\ torn' \in BOOLEAN /\ corrupt' \in BOOLEAN
           /\ mem' \in [Procs -> Replays]
           /\ lock' \in Procs \cup {NoProc} /\ broken' \in [Procs -> BOOLEAN]
<1>1. Apply(mem[p], l) \in Replays
  BY ApplyType DEF Append, CanAppend, TypeOK
<1> QED
  BY <1>1, OnDiskType DEF Append, TypeOK

LEMMA DiesType ==
    ASSUME TypeOK, NEW p \in Procs, Dies(p)
    PROVE  /\ lock' \in Procs \cup {NoProc}
           /\ phase' \in [Procs -> Phases]
           /\ mem' \in [Procs -> Replays]
           /\ broken' \in [Procs -> BOOLEAN]
           /\ acted' \in Outcomes
  BY BlankType DEF Dies, TypeOK, Phases, Outcomes

\* The header goes on a run that has no line yet.
LEMMA HeaderType == TypeOK => Apply(disk, [rec |-> "run_header"]) \in Replays
  BY DEF Apply, TypeOK, Replays

LEMMA TakeLockType ==
    ASSUME TypeOK, NEW p \in Procs, TakeLock(p)
    PROVE  /\ lock' \in Procs \cup {NoProc}
           /\ broken' \in [Procs -> BOOLEAN]
           /\ acted' \in Outcomes
           /\ ran' \in [Keys -> Nat]
           /\ grants' \subseteq Grants
           /\ lives' \in Nat
<1>1. broken' \in [Procs -> BOOLEAN]
  BY DEF TakeLock, TypeOK
<1>2. acted' \in Outcomes
  BY DEF TakeLock, Outcomes
<1>3. lock' \in Procs \cup {NoProc}
  BY DEF TakeLock
<1>4. ran' \in [Keys -> Nat] /\ grants' \subseteq Grants
  BY DEF TakeLock, TypeOK
<1>5. lives' \in Nat
  <2>1. lives \in Nat
    BY DEF TypeOK
  <2>2. lives' = lives + 1
    BY Zenon DEF TakeLock
  <2> QED
    BY <2>1, <2>2
<1> QED
  BY <1>1, <1>2, <1>3, <1>4, <1>5

LEMMA InitType == Init => TypeOK
<1> SUFFICES ASSUME Init
             PROVE  TypeOK
  OBVIOUS
<1>1. disk \in Replays /\ mem \in [Procs -> Replays]
  BY BlankType DEF Init
<1>2. phase \in [Procs -> Phases] /\ acted \in Outcomes
  BY DEF Init, Phases, Outcomes
<1>3. torn \in BOOLEAN /\ corrupt \in BOOLEAN /\ broken \in [Procs -> BOOLEAN]
  BY DEF Init
<1>4. ran \in [Keys -> Nat] /\ grants \subseteq Grants /\ lives \in Nat
  BY DEF Init
<1> QED
  BY <1>1, <1>2, <1>3, <1>4 DEF Init, TypeOK

LEMMA NextType == TypeOK /\ [Next]_vars => TypeOK'
<1> SUFFICES ASSUME TypeOK, [Next]_vars
             PROVE  TypeOK'
  OBVIOUS
<1>1. CASE Edited
  BY <1>1 DEF Edited, ghosts, TypeOK
<1>2. ASSUME NEW p \in Procs, Create(p)
      PROVE  TypeOK'
  <2>1. TakeLock(p)
    BY <1>2 DEF Create
  <2>2. disk' \in Replays /\ mem' \in [Procs -> Replays]
    BY <1>2, HeaderType DEF Create, TypeOK
  <2>3. torn' \in BOOLEAN /\ corrupt' \in BOOLEAN
    BY <1>2 DEF Create, TypeOK
  <2>4. phase' \in [Procs -> Phases]
    BY <1>2 DEF Create, TypeOK, Phases
  <2> QED
    BY <2>1, <2>2, <2>3, <2>4, TakeLockType DEF TypeOK
<1>3. ASSUME NEW p \in Procs, CreateCrashes(p)
      PROVE  TypeOK'
  <2>1. disk' \in Replays
    BY <1>3, HeaderType DEF CreateCrashes, TypeOK
  <2>2. torn' \in BOOLEAN
    BY <1>3 DEF CreateCrashes, MayTakeLock
  <2>3. lives' \in Nat
    BY <1>3 DEF CreateCrashes, TypeOK
  <2> QED
    BY <1>3, <2>1, <2>2, <2>3 DEF CreateCrashes, TypeOK
<1>4. ASSUME NEW p \in Procs, Open(p)
      PROVE  TypeOK'
  <2>1. TakeLock(p)
    BY <1>4 DEF Open
  <2>2. FirstPhase(disk) \in Phases
    BY DEF FirstPhase, Phases, RecoveryPhases
  <2>3. phase' \in [Procs -> Phases]
    BY <1>4, <2>2 DEF Open, TypeOK, Phases
  <2>4. mem' \in [Procs -> Replays]
    BY <1>4 DEF Open, TypeOK
  <2>5. torn' \in BOOLEAN
    BY <1>4 DEF Open, TailAfterOpen, TypeOK
  <2> QED
    BY <1>4, <2>1, <2>3, <2>4, <2>5, TakeLockType DEF Open, TypeOK
<1>5. ASSUME NEW p \in Procs, Leave(p)
      PROVE  TypeOK'
  BY <1>5, DiesType DEF Leave, disks, ghosts, TypeOK
<1>6. ASSUME NEW p \in Procs, Recover(p)
      PROVE  TypeOK'
  <2>1. RecoveryLine(p) \in Lines
    BY <1>6, RecoveryLineType DEF Recover
  <2>2. NextPhase[phase[p]] \in Phases
    BY <1>6 DEF Recover, RecoveryPhases, NextPhase, Phases
  <2>3. phase' \in [Procs -> Phases]
    BY <1>6, <2>2 DEF Recover, TypeOK
  <2>4. Append(p, RecoveryLine(p))
    BY <1>6 DEF Recover
  <2> QED
    BY <1>6, <2>1, <2>3, <2>4, AppendTypes DEF Recover, ghosts, TypeOK
<1>7. ASSUME NEW p \in Procs, Serve(p)
      PROVE  TypeOK'
  <2>1. PICK l \in TxLines(p) :
           /\ Append(p, l)
           /\ acted' = IF l.rec \in {"note", "acknowledged"} THEN acted ELSE "not yet"
           /\ Granted(l)
    BY <1>7 DEF Serve
  <2>2. l \in Lines
    BY TxLineType
  <2>3. grants' \subseteq Grants
    <3>1. CASE l.rec = "prepared" /\ l.event.kind \in Physical
      <4>1. l.event \in Events
        BY <2>2, <3>1 DEF Lines
      <4>2. [tx |-> l.event.tx, epoch |-> l.event.epoch, life |-> lives] \in Grants
        BY <4>1 DEF Grants, Events, TypeOK
      <4> QED
        BY <2>1, <3>1, <4>2 DEF Granted, TypeOK
    <3>2. CASE ~(l.rec = "prepared" /\ l.event.kind \in Physical)
      BY <2>1, <3>2 DEF Granted, TypeOK
    <3> QED
      BY <3>1, <3>2
  <2>4. acted' \in Outcomes
    BY <2>1 DEF TypeOK, Outcomes
  <2> QED
    BY <1>7, <2>1, <2>2, <2>3, <2>4, AppendTypes DEF Serve, TypeOK
<1>8. ASSUME NEW p \in Procs, Act(p)
      PROVE  TypeOK'
  <2>1. PICK x \in Executed, did \in {0, 1} :
           /\ acted' = x
           /\ ran' = IF mem[p].open.kind \in Physical
                     THEN [ran EXCEPT ![KeyOf(mem[p].open)] = @ + did] ELSE ran
    BY <1>8 DEF Act
  <2>2. mem[p].open \in Events
    BY <1>8 DEF Act, TypeOK, Replays
  <2>3. ran' \in [Keys -> Nat]
    <3>1. CASE mem[p].open.kind \in Physical
      <4> DEFINE k == KeyOf(mem[p].open)
      <4>1. k \in Keys
        BY <2>2, <3>1, KeyOfType
      <4>2. ran' = [ran EXCEPT ![k] = ran[k] + did]
        BY <2>1, <3>1
      <4> HIDE DEF k
      <4> QED
        BY <4>1, <4>2 DEF TypeOK
    <3>2. CASE mem[p].open.kind \notin Physical
      BY <2>1, <3>2 DEF TypeOK
    <3> QED
      BY <3>1, <3>2
  <2> QED
    BY <1>8, <2>1, <2>3 DEF Act, disks, TypeOK, Outcomes
<1>9. ASSUME NEW p \in Procs, Mishap(p)
      PROVE  TypeOK'
  <2>1. PICK l \in LinesOf(p) : AppendFails(p, l) \/ CrashInAppend(p, l)
    BY <1>9 DEF Mishap
  <2>2. l \in Lines
    BY LinesOfType
  <2>3. CASE AppendFails(p, l)
    BY <2>2, <2>3, InterruptedType DEF AppendFails, ghosts, TypeOK
  <2>4. CASE CrashInAppend(p, l)
    BY <2>2, <2>4, InterruptedType, DiesType DEF CrashInAppend, ghosts, TypeOK
  <2> QED
    BY <2>1, <2>3, <2>4
<1>10. CASE UNCHANGED vars
  BY <1>10 DEF vars, disks, ghosts, TypeOK
<1> QED
  BY <1>1, <1>2, <1>3, <1>4, <1>5, <1>6, <1>7, <1>8, <1>9, <1>10 DEF Next

\* The state of the journal and of every process is always well formed.
THEOREM TypeCorrect == Spec => []TypeOK
<1>1. Init => TypeOK
  BY InitType
<1>2. TypeOK /\ [Next]_vars => TypeOK'
  BY NextType
<1> QED
  BY <1>1, <1>2, PTL DEF Spec
-----------------------------------------------------------------------------
(* The inductive invariant.                                                *)

\* What every replay the rules accept satisfies, whoever wrote it.
SoundReplay(r) ==
    /\ r.open # NoTx => r.header
    /\ r.open # NoTx /\ r.open.kind \in Physical => KeyOf(r.open) \in r.attempted
    /\ r.open # NoTx /\ r.state = "FAULT_LOCKED" => LeavesFault(r.open)

Writing(p) == phase[p] \notin {"down", "readonly"}

\* Who writes decides on the file as it is, and the file is not corrupt.
WriterReadsDisk ==
    \A p \in Procs : Writing(p) =>
        /\ ~corrupt
        /\ ~broken[p] => mem[p] = disk /\ ~torn

\* Between prepare and act, the action of the open transaction never ran.
OpenNotYetRun ==
    \A p \in Procs :
        /\ phase[p] = "serve" /\ ~broken[p]
        /\ disk.open # NoTx /\ disk.open.kind \in Physical
        /\ disk.ack = "none" /\ acted = "not yet"
        => ran[KeyOf(disk.open)] = 0

IInv ==
    /\ TypeOK
    /\ SoundReplay(disk)
    /\ SingleWriter
    /\ WriterReadsDisk
    /\ OpenNotYetRun
    /\ WriteAhead
    /\ PhysicalAtMostOnce

\* A line the rules accept keeps a replay sound and forgets no physical action.
LEMMA SoundApply ==
    ASSUME NEW r \in Replays, NEW l \in Lines, Accepts(r, l), SoundReplay(r)
    PROVE  SoundReplay(Apply(r, l)) /\ r.attempted \subseteq Apply(r, l).attempted
<1>1. CASE l.rec = "run_header"
  BY <1>1 DEF Apply, Accepts, SoundReplay, Replays
<1>2. CASE l.rec = "prepared"
  <2> DEFINE e == l.event
  <2>1. MayPrepare(r, e)
    BY <1>2 DEF Accepts
  <2>2. /\ Apply(r, l).open = e
        /\ Apply(r, l).header = r.header
        /\ Apply(r, l).state = r.state
        /\ Apply(r, l).attempted = IF e.kind \in Physical THEN r.attempted \cup {KeyOf(e)}
                                  ELSE r.attempted
    BY <1>2 DEF Apply, AfterPrepare, Replays
  <2> HIDE DEF e
  <2> QED
    BY <2>1, <2>2 DEF MayPrepare, SoundReplay
<1>3. CASE l.rec = "acknowledged"
  <2>1. Apply(r, l) = [r EXCEPT !.ack = l.executed]
    BY <1>3 DEF Apply
  <2> QED
    BY <2>1 DEF SoundReplay, Replays
<1>4. CASE l.rec = "committed"
  <2>1. Apply(r, l).open = NoTx /\ Apply(r, l).attempted = r.attempted
    BY <1>4 DEF Apply, AfterCommit, Replays
  <2> QED
    BY <2>1 DEF SoundReplay
<1>5. CASE l.rec = "aborted"
  <2>1. Apply(r, l).open = NoTx /\ Apply(r, l).attempted = r.attempted
    BY <1>5 DEF Apply, AfterAbort, Replays
  <2> QED
    BY <2>1 DEF SoundReplay
<1>6. CASE l.rec = "note"
  BY <1>6 DEF Apply, SoundReplay
<1> QED
  BY <1>1, <1>2, <1>3, <1>4, <1>5, <1>6 DEF Lines

LEMMA HeaderSound ==
    ASSUME IInv, ~disk.header
    PROVE  LET d == Apply(disk, [rec |-> "run_header"])
           IN  SoundReplay(d) /\ d.open = NoTx /\ disk.attempted \subseteq d.attempted
<1> DEFINE l == [rec |-> "run_header"]
<1>1. l \in Lines /\ Accepts(disk, l)
  BY DEF Lines, Accepts
<1>2. disk.open = NoTx
  BY DEF IInv, SoundReplay
<1>3. Apply(disk, l).open = NoTx
  BY <1>2 DEF Apply, IInv, TypeOK, Replays
<1>4. SoundReplay(Apply(disk, l)) /\ disk.attempted \subseteq Apply(disk, l).attempted
  BY <1>1, SoundApply DEF IInv, TypeOK
<1> QED
  BY <1>3, <1>4

\* The lock is exclusive: nobody works beside its holder.
LEMMA OthersDown ==
    ASSUME IInv, NEW p \in Procs, phase[p] # "down", NEW q \in Procs \ {p}
    PROVE  phase[q] = "down" /\ lock = p
  BY DEF IInv, SingleWriter

LEMMA AllDown ==
    ASSUME IInv, lock = NoProc, NEW q \in Procs
    PROVE  phase[q] = "down"
  BY ProcsAssumption DEF IInv, SingleWriter

\* Whoever can append continues the file, under its rules.
LEMMA WriterChains ==
    ASSUME IInv, NEW p \in Procs, NEW l \in Lines, CanAppend(p, l)
    PROVE  Writing(p) /\ Chains(p) /\ mem[p] = disk /\ ~torn /\ ~corrupt /\ Accepts(disk, l)
<1>1. Writing(p) /\ ~broken[p] /\ Accepts(mem[p], l)
  BY DEF CanAppend, Writing
<1>2. mem[p] = disk /\ ~torn /\ ~corrupt
  BY <1>1 DEF IInv, WriterReadsDisk
<1> QED
  BY <1>1, <1>2 DEF Chains

LEMMA OnDiskSound ==
    ASSUME IInv, NEW p \in Procs, NEW l \in Lines, CanAppend(p, l), OnDisk(p, l)
    PROVE  /\ disk' = Apply(disk, l) /\ torn' = torn /\ corrupt' = corrupt
           /\ SoundReplay(disk') /\ disk.attempted \subseteq disk'.attempted
<1>1. Chains(p) /\ Accepts(disk, l)
  BY WriterChains
<1>2. disk' = Apply(disk, l) /\ torn' = torn /\ corrupt' = corrupt
  BY <1>1 DEF OnDisk
<1> QED
  BY <1>1, <1>2, SoundApply DEF IInv, TypeOK

LEMMA InterruptedSound ==
    ASSUME IInv, NEW p \in Procs, NEW l \in Lines, CanAppend(p, l), Interrupted(p, l)
    PROVE  corrupt' = corrupt /\ SoundReplay(disk') /\ disk.attempted \subseteq disk'.attempted
<1>1. CASE UNCHANGED disks
  BY <1>1 DEF disks, IInv
<1>2. CASE torn' = TRUE /\ UNCHANGED <<disk, corrupt>>
  BY <1>2 DEF IInv
<1>3. CASE OnDisk(p, l)
  BY <1>3, OnDiskSound
<1> QED
  BY <1>1, <1>2, <1>3 DEF Interrupted

LEMMA AppendSound ==
    ASSUME IInv, NEW p \in Procs, NEW l \in Lines, Append(p, l)
    PROVE  /\ disk' = Apply(disk, l) /\ mem'[p] = disk' /\ ~torn' /\ ~corrupt'
           /\ SoundReplay(disk') /\ disk.attempted \subseteq disk'.attempted
           /\ Writing(p) /\ ~broken[p] /\ Accepts(disk, l)
<1>1. CanAppend(p, l) /\ OnDisk(p, l)
  BY DEF Append
<1>2. Writing(p) /\ mem[p] = disk /\ ~torn /\ ~corrupt /\ Accepts(disk, l)
  BY <1>1, WriterChains
<1>3. disk' = Apply(disk, l) /\ torn' = torn /\ corrupt' = corrupt
  BY <1>1, OnDiskSound
<1>4. mem'[p] = Apply(mem[p], l)
  BY DEF Append, IInv, TypeOK
<1>5. SoundReplay(disk') /\ disk.attempted \subseteq disk'.attempted
  BY <1>1, OnDiskSound
<1>6. ~broken[p]
  BY <1>1 DEF CanAppend
<1> QED
  BY <1>2, <1>3, <1>4, <1>5, <1>6

LEMMA NotPositive == \A n \in Nat : ~(n > 0) => n = 0
  OBVIOUS

\* What ran stays attempted while nothing runs.
LEMMA NothingRan ==
    ASSUME IInv, ran' = ran, disk.attempted \subseteq disk'.attempted
    PROVE  WriteAhead' /\ PhysicalAtMostOnce'
  BY DEF IInv, WriteAhead, PhysicalAtMostOnce

\* When every process is down, or only p works and it is not serving.
LEMMA NobodyServes ==
    ASSUME \A q \in Procs : phase'[q] # "serve" \/ disk'.open = NoTx
    PROVE  OpenNotYetRun'
  BY DEF OpenNotYetRun

LEMMA InitInv == Init => IInv
<1> SUFFICES ASSUME Init
             PROVE  IInv
  OBVIOUS
<1>1. disk.open = NoTx
  BY DEF Init, Blank
<1>2. SoundReplay(disk) /\ OpenNotYetRun
  BY <1>1 DEF SoundReplay, OpenNotYetRun
<1>3. SingleWriter /\ WriterReadsDisk
  BY DEF Init, SingleWriter, WriterReadsDisk, Writing
<1>4. WriteAhead /\ PhysicalAtMostOnce
  <2>1. \A k \in Keys : ran[k] = 0
    BY DEF Init
  <2> QED
    BY <2>1 DEF WriteAhead, PhysicalAtMostOnce
<1> QED
  BY <1>2, <1>3, <1>4, InitType DEF IInv

LEMMA NextInv == IInv /\ [Next]_vars => IInv'
<1> SUFFICES ASSUME IInv, [Next]_vars
             PROVE  IInv'
  OBVIOUS
<1>t. TypeOK /\ TypeOK'
  BY NextType DEF IInv
<1>1. CASE Edited
  <2>1. \A q \in Procs : phase'[q] = "down"
    BY <1>1, AllDown DEF Edited
  <2>2. SingleWriter' /\ WriterReadsDisk' /\ OpenNotYetRun'
    BY <2>1 DEF SingleWriter, WriterReadsDisk, OpenNotYetRun, Writing
  <2>3. WriteAhead' /\ PhysicalAtMostOnce'
    BY <1>1, NothingRan DEF Edited, ghosts
  <2>4. SoundReplay(disk')
    BY <1>1 DEF Edited, IInv
  <2> QED
    BY <1>t, <2>2, <2>3, <2>4 DEF IInv
<1>2. ASSUME NEW p \in Procs, Create(p)
      PROVE  IInv'
  <2>1. /\ disk' = Apply(disk, [rec |-> "run_header"]) /\ torn' = FALSE /\ corrupt' = corrupt
        /\ lock = NoProc /\ lock' = p /\ ~disk.header /\ ~corrupt /\ ran' = ran
    BY <1>2 DEF Create, TakeLock, MayTakeLock
  <2>2. SoundReplay(disk') /\ disk'.open = NoTx /\ disk.attempted \subseteq disk'.attempted
    BY <2>1, HeaderSound
  <2>3. mem'[p] = disk' /\ \A q \in Procs \ {p} : phase'[q] = "down"
    BY <1>2, <1>t, <2>1, AllDown DEF Create, TypeOK
  <2>4. SingleWriter'
    BY <2>1, <2>3 DEF SingleWriter
  <2>5. WriterReadsDisk'
    BY <2>1, <2>3 DEF WriterReadsDisk, Writing
  <2>6. OpenNotYetRun'
    BY <2>2 DEF OpenNotYetRun
  <2>7. WriteAhead' /\ PhysicalAtMostOnce'
    BY <2>1, <2>2, NothingRan
  <2> QED
    BY <1>t, <2>2, <2>4, <2>5, <2>6, <2>7 DEF IInv
<1>3. ASSUME NEW p \in Procs, CreateCrashes(p)
      PROVE  IInv'
  <2>1. lock = NoProc /\ ~disk.header /\ UNCHANGED <<corrupt, lock, phase, mem, broken, acted, ran>>
    BY <1>3 DEF CreateCrashes, MayTakeLock
  <2>2. disk' = disk \/ disk' = Apply(disk, [rec |-> "run_header"])
    BY <1>3 DEF CreateCrashes, MayTakeLock
  <2>3. SoundReplay(disk') /\ disk.attempted \subseteq disk'.attempted
    BY <2>1, <2>2, HeaderSound DEF IInv
  <2>4. \A q \in Procs : phase'[q] = "down"
    BY <2>1, AllDown
  <2>5. SingleWriter' /\ WriterReadsDisk' /\ OpenNotYetRun'
    BY <2>4 DEF SingleWriter, WriterReadsDisk, OpenNotYetRun, Writing
  <2>6. WriteAhead' /\ PhysicalAtMostOnce'
    BY <2>1, <2>3, NothingRan
  <2> QED
    BY <1>t, <2>3, <2>5, <2>6 DEF IInv
<1>4. ASSUME NEW p \in Procs, Open(p)
      PROVE  IInv'
  <2>1. /\ lock = NoProc /\ lock' = p /\ ran' = ran /\ disk' = disk /\ corrupt' = corrupt
        /\ corrupt \/ ~torn'
    BY <1>4 DEF Open, TakeLock, MayTakeLock, TailAfterOpen
  <2>2. /\ mem'[p] = disk'
        /\ phase'[p] = IF corrupt THEN "readonly" ELSE FirstPhase(disk)
        /\ \A q \in Procs \ {p} : phase'[q] = "down"
    BY <1>4, <1>t, <2>1, AllDown DEF Open, TypeOK
  <2>3. SingleWriter'
    BY <2>1, <2>2 DEF SingleWriter
  <2>4. WriterReadsDisk'
    BY <2>1, <2>2 DEF WriterReadsDisk, Writing
  <2>5. phase'[p] = "serve" => disk'.open = NoTx
    BY <2>1, <2>2 DEF FirstPhase, Completed
  <2>6. OpenNotYetRun'
    BY <2>2, <2>5, NobodyServes
  <2>7. WriteAhead' /\ PhysicalAtMostOnce'
    BY <2>1, NothingRan
  <2> QED
    BY <1>t, <2>1, <2>3, <2>4, <2>6, <2>7 DEF IInv
<1>5. ASSUME NEW p \in Procs, Leave(p)
      PROVE  IInv'
  <2>1. disk' = disk /\ torn' = torn /\ corrupt' = corrupt /\ ran' = ran
    BY <1>5 DEF Leave, disks, ghosts
  <2>2. \A q \in Procs : phase'[q] = "down"
    BY <1>5, <1>t, OthersDown DEF Leave, Dies, TypeOK
  <2>3. SingleWriter' /\ WriterReadsDisk' /\ OpenNotYetRun'
    BY <2>2 DEF SingleWriter, WriterReadsDisk, OpenNotYetRun, Writing
  <2>4. WriteAhead' /\ PhysicalAtMostOnce'
    BY <2>1, NothingRan
  <2> QED
    BY <1>t, <2>1, <2>3, <2>4 DEF IInv
<1>6. ASSUME NEW p \in Procs, Recover(p)
      PROVE  IInv'
  <2> DEFINE l == RecoveryLine(p)
  <2>1. l \in Lines /\ Append(p, l) /\ ran' = ran /\ phase[p] \in RecoveryPhases
    BY <1>6, <1>t, RecoveryLineType DEF Recover, ghosts
  <2>2. /\ disk' = Apply(disk, l) /\ mem'[p] = disk' /\ ~torn' /\ ~corrupt'
        /\ SoundReplay(disk') /\ disk.attempted \subseteq disk'.attempted
    BY <2>1, AppendSound
  <2>3. lock' = lock /\ lock = p /\ \A q \in Procs \ {p} : phase'[q] = "down"
    BY <1>6, <1>t, <2>1, OthersDown DEF Recover, Append, TypeOK, RecoveryPhases, IInv, SingleWriter
  <2>4. phase'[p] = "serve" => disk'.open = NoTx
    <3>1. phase'[p] = NextPhase[phase[p]]
      BY <1>6, <1>t DEF Recover, TypeOK
    <3>2. phase'[p] = "serve" => phase[p] = "commit"
      BY <2>1, <3>1 DEF NextPhase, RecoveryPhases
    <3>3. phase[p] = "commit" => l = [rec |-> "committed"]
      BY DEF RecoveryLine
    <3>4. phase[p] = "commit" => disk' = AfterCommit(disk)
      BY <2>2, <3>3 DEF Apply
    <3> QED
      BY <1>t, <3>2, <3>4 DEF AfterCommit, TypeOK, Replays
  <2>5. SingleWriter'
    BY <2>3 DEF SingleWriter
  <2>6. WriterReadsDisk'
    BY <2>2, <2>3 DEF WriterReadsDisk, Writing
  <2>7. OpenNotYetRun'
    BY <2>3, <2>4, NobodyServes
  <2>8. WriteAhead' /\ PhysicalAtMostOnce'
    BY <2>1, <2>2, NothingRan
  <2> QED
    BY <1>t, <2>2, <2>5, <2>6, <2>7, <2>8 DEF IInv
<1>7. ASSUME NEW p \in Procs, Serve(p)
      PROVE  IInv'
  <2>1. PICK l \in TxLines(p) :
           /\ Append(p, l)
           /\ acted' = IF l.rec \in {"note", "acknowledged"} THEN acted ELSE "not yet"
    BY <1>7 DEF Serve
  <2>2. l \in Lines
    BY <1>t, TxLineType
  <2>3. /\ disk' = Apply(disk, l) /\ mem'[p] = disk' /\ ~torn' /\ ~corrupt'
        /\ SoundReplay(disk') /\ disk.attempted \subseteq disk'.attempted
        /\ ~broken[p] /\ Accepts(disk, l)
    BY <2>1, <2>2, AppendSound
  <2>4. phase' = phase /\ ran' = ran /\ phase[p] = "serve" /\ lock' = lock /\ broken' = broken
    BY <1>7, <2>1 DEF Serve, Append
  <2>5. lock = p /\ \A q \in Procs \ {p} : phase'[q] = "down"
    BY <2>4, OthersDown DEF IInv, SingleWriter
  <2>6. SingleWriter'
    BY <2>4, <2>5 DEF SingleWriter
  <2>7. WriterReadsDisk'
    BY <2>3, <2>5 DEF WriterReadsDisk, Writing
  <2>8. OpenNotYetRun'
    <3> SUFFICES ASSUME disk'.open # NoTx, disk'.open.kind \in Physical,
                        disk'.ack = "none", acted' = "not yet"
                 PROVE  ran'[KeyOf(disk'.open)] = 0
      BY <2>5 DEF OpenNotYetRun
    <3>1. CASE l.rec = "note"
      <4>1. disk' = disk /\ acted' = acted
        BY <2>1, <2>3, <3>1 DEF Apply
      <4>2. ran[KeyOf(disk.open)] = 0
        BY <2>3, <2>4, <4>1 DEF IInv, OpenNotYetRun
      <4>3. (disk').open = disk.open /\ ran' = ran
        BY <2>4, <4>1
      <4> QED
        BY <4>2, <4>3
    <3>2. CASE l.rec = "prepared"
      <4>1. l.event \in Events
        BY <2>2, <3>2 DEF Lines
      <4>2. disk'.open = l.event
        BY <1>t, <2>3, <3>2 DEF Apply, AfterPrepare, TypeOK, Replays
      <4>3. KeyOf(l.event) \notin disk.attempted
        BY <2>3, <3>2, <4>2 DEF Accepts, MayPrepare, NeverRepeated
      <4>4. KeyOf(l.event) \in Keys
        BY <4>1, <4>2, KeyOfType
      <4>5. ran[KeyOf(l.event)] = 0
        <5> DEFINE k == KeyOf(l.event)
        <5>1. ran[k] \in Nat
          BY <1>t, <4>4 DEF TypeOK
        <5>2. ~(ran[k] > 0)
          BY <4>3, <4>4 DEF IInv, WriteAhead
        <5> HIDE DEF k
        <5>3. ran[k] = 0
          BY <5>1, <5>2, NotPositive
        <5> QED
          BY <5>3 DEF k
      <4>6. KeyOf((disk').open) = KeyOf(l.event)
        BY <4>2
      <4> QED
        BY <2>4, <4>5, <4>6
    <3>3. CASE l.rec = "acknowledged"
      <4>1. disk'.ack = l.executed /\ l.executed \in Executed
        BY <1>t, <2>2, <2>3, <3>3 DEF Apply, Lines, TypeOK, Replays
      <4> QED
        BY <4>1 DEF Executed
    <3>4. CASE l.rec = "committed" \/ l.rec = "aborted" \/ l.rec = "run_header"
      <4>1. l.rec # "run_header"
        BY <2>1 DEF TxLines
      <4>2. disk'.open = NoTx
        BY <1>t, <2>3, <3>4, <4>1 DEF Apply, AfterCommit, AfterAbort, TypeOK, Replays
      <4> QED
        BY <4>2
    <3> QED
      BY <2>2, <3>1, <3>2, <3>3, <3>4 DEF Lines
  <2>9. WriteAhead' /\ PhysicalAtMostOnce'
    BY <2>3, <2>4, NothingRan
  <2> QED
    BY <1>t, <2>3, <2>6, <2>7, <2>8, <2>9 DEF IInv
<1>8. ASSUME NEW p \in Procs, Act(p)
      PROVE  IInv'
  <2>1. PICK x \in Executed, did \in {0, 1} :
           /\ acted' = x
           /\ ran' = IF mem[p].open.kind \in Physical
                     THEN [ran EXCEPT ![KeyOf(mem[p].open)] = @ + did] ELSE ran
    BY <1>8 DEF Act
  <2>2. /\ UNCHANGED <<disk, torn, corrupt, lock, phase, mem, broken>>
        /\ phase[p] = "serve" /\ ~broken[p] /\ acted = "not yet"
        /\ mem[p].open # NoTx /\ mem[p].ack = "none"
    BY <1>8 DEF Act, disks
  <2>3. mem[p] = disk
    BY <2>2 DEF IInv, WriterReadsDisk, Writing
  <2>4. SoundReplay(disk') /\ SingleWriter' /\ WriterReadsDisk'
    BY <2>2 DEF IInv, SingleWriter, WriterReadsDisk, Writing
  <2>5. OpenNotYetRun'
    BY <2>1 DEF OpenNotYetRun, Executed
  <2>6. WriteAhead' /\ PhysicalAtMostOnce'
    <3>1. CASE disk.open.kind \in Physical
      <4> DEFINE k == KeyOf(disk.open)
      <4>1. k \in Keys
        BY <1>t, <2>2, <2>3, <3>1, KeyOfType DEF TypeOK, Replays
      <4>2. k \in disk.attempted
        BY <2>2, <2>3, <3>1 DEF IInv, SoundReplay
      <4>3. ran[k] = 0
        BY <2>2, <2>3, <3>1 DEF IInv, OpenNotYetRun
      <4>4. ran' = [ran EXCEPT ![k] = ran[k] + did]
        BY <2>1, <2>3, <3>1
      <4> HIDE DEF k
      <4>5. ran'[k] <= 1 /\ \A j \in Keys \ {k} : ran'[j] = ran[j]
        BY <1>t, <4>1, <4>3, <4>4 DEF TypeOK
      <4> QED
        BY <2>2, <4>2, <4>5 DEF IInv, WriteAhead, PhysicalAtMostOnce
    <3>2. CASE disk.open.kind \notin Physical
      BY <2>1, <2>2, <2>3, <3>2, NothingRan
    <3> QED
      BY <3>1, <3>2
  <2> QED
    BY <1>t, <2>4, <2>5, <2>6 DEF IInv
<1>9. ASSUME NEW p \in Procs, Mishap(p)
      PROVE  IInv'
  <2>1. PICK l \in LinesOf(p) : AppendFails(p, l) \/ CrashInAppend(p, l)
    BY <1>9 DEF Mishap
  <2>2. l \in Lines
    BY <1>t, LinesOfType
  <2>3. CanAppend(p, l) /\ Interrupted(p, l) /\ ran' = ran
    BY <2>1 DEF AppendFails, CrashInAppend, ghosts
  <2>4. Writing(p) /\ ~corrupt
    BY <2>2, <2>3, WriterChains
  <2>5. corrupt' = corrupt /\ SoundReplay(disk') /\ disk.attempted \subseteq disk'.attempted
    BY <2>2, <2>3, InterruptedSound
  <2>6. \A q \in Procs \ {p} : phase[q] = "down" /\ lock = p
    BY <2>4, OthersDown DEF Writing
  <2>7. lock = p
    BY <2>4 DEF IInv, SingleWriter, Writing
  <2>8. WriteAhead' /\ PhysicalAtMostOnce'
    BY <2>3, <2>5, NothingRan
  <2>9. CASE AppendFails(p, l)
    <3>1. broken'[p] = TRUE /\ phase' = phase /\ lock' = lock
      BY <1>t, <2>9 DEF AppendFails, TypeOK
    <3>2. SingleWriter' /\ WriterReadsDisk' /\ OpenNotYetRun'
      BY <2>4, <2>5, <2>6, <2>7, <3>1 DEF SingleWriter, WriterReadsDisk, OpenNotYetRun, Writing
    <3> QED
      BY <1>t, <2>5, <2>8, <3>2 DEF IInv
  <2>10. CASE CrashInAppend(p, l)
    <3>1. \A q \in Procs : phase'[q] = "down"
      BY <1>t, <2>6, <2>10 DEF CrashInAppend, Dies, TypeOK
    <3>2. SingleWriter' /\ WriterReadsDisk' /\ OpenNotYetRun'
      BY <3>1 DEF SingleWriter, WriterReadsDisk, OpenNotYetRun, Writing
    <3> QED
      BY <1>t, <2>5, <2>8, <3>2 DEF IInv
  <2> QED
    BY <2>1, <2>9, <2>10
<1>10. CASE UNCHANGED vars
  BY <1>10 DEF vars, disks, ghosts, IInv, TypeOK, SoundReplay, SingleWriter, WriterReadsDisk,
               Writing, OpenNotYetRun, WriteAhead, PhysicalAtMostOnce
<1> QED
  BY <1>1, <1>2, <1>3, <1>4, <1>5, <1>6, <1>7, <1>8, <1>9, <1>10 DEF Next

LEMMA Invariance == Spec => []IInv
<1>1. Init => IInv
  BY InitInv
<1>2. IInv /\ [Next]_vars => IInv'
  BY NextInv
<1> QED
  BY <1>1, <1>2, PTL DEF Spec
-----------------------------------------------------------------------------
(* Theorems.                                                               *)

\* The robot server cannot deduplicate; the journal does it: no home and no
\* episode's steps ever run twice.
THEOREM AtMostOnce == Spec => []PhysicalAtMostOnce
<1>1. IInv => PhysicalAtMostOnce
  BY DEF IInv
<1> QED
  BY <1>1, Invariance, PTL

\* Write-ahead logging: what ran is on disk.
THEOREM RanIsOnDisk == Spec => []WriteAhead
<1>1. IInv => WriteAhead
  BY DEF IInv
<1> QED
  BY <1>1, Invariance, PTL

\* The flock leaves one writer at a time.
THEOREM OneWriter == Spec => []SingleWriter
<1>1. IInv => SingleWriter
  BY DEF IInv
<1> QED
  BY <1>1, Invariance, PTL

\* How a step changes the file: not at all, by an edit while nobody holds it,
\* by the header, or by a line the rules accept, from the lock's holder.
LEMMA FileStep ==
    ASSUME IInv, [Next]_vars
    PROVE  \/ corrupt' = corrupt /\ disk' = disk /\ (corrupt => torn' = torn)
           \/ lock = NoProc /\ disk' = disk /\ torn' = torn /\ corrupt' = TRUE
           \/ /\ ~corrupt /\ corrupt' = corrupt
              /\ disk' = disk \/ \E l \in Lines : Accepts(disk, l) /\ disk' = Apply(disk, l)
<1> DEFINE Same == corrupt' = corrupt /\ disk' = disk /\ (corrupt => torn' = torn)
           Edit == lock = NoProc /\ disk' = disk /\ torn' = torn /\ corrupt' = TRUE
           Line == /\ ~corrupt /\ corrupt' = corrupt
                   /\ disk' = disk \/ \E l \in Lines : Accepts(disk, l) /\ disk' = Apply(disk, l)
<1>h. [rec |-> "run_header"] \in Lines /\ (~disk.header => Accepts(disk, [rec |-> "run_header"]))
  BY DEF Lines, Accepts
<1>t. TypeOK
  BY DEF IInv
<1>1. CASE Edited
  BY <1>1 DEF Edited
<1>2. ASSUME NEW p \in Procs, Create(p) \/ CreateCrashes(p)
      PROVE  Line
  <2>1. ~disk.header /\ ~corrupt /\ corrupt' = corrupt
    BY <1>2 DEF Create, CreateCrashes
  <2>2. disk' = disk \/ disk' = Apply(disk, [rec |-> "run_header"])
    BY <1>2 DEF Create, CreateCrashes
  <2> QED
    BY <1>h, <2>1, <2>2
<1>3. ASSUME NEW p \in Procs, Open(p) \/ Leave(p) \/ Act(p)
      PROVE  Same
  BY <1>3 DEF Open, TailAfterOpen, Leave, Act, disks
<1>4. ASSUME NEW p \in Procs, NEW l \in Lines, Append(p, l)
      PROVE  Line
  <2>1. CanAppend(p, l) /\ OnDisk(p, l)
    BY <1>4 DEF Append
  <2> QED
    BY <2>1, WriterChains, OnDiskSound
<1>5. ASSUME NEW p \in Procs, Mishap(p)
      PROVE  Line
  <2>1. PICK l \in LinesOf(p) : AppendFails(p, l) \/ CrashInAppend(p, l)
    BY <1>5 DEF Mishap
  <2>2. l \in Lines
    BY <1>t, LinesOfType
  <2>3. CanAppend(p, l) /\ Interrupted(p, l)
    BY <2>1 DEF AppendFails, CrashInAppend
  <2>4. ~corrupt /\ Accepts(disk, l) /\ corrupt' = corrupt
    BY <2>2, <2>3, WriterChains, InterruptedSound
  <2>5. disk' = disk \/ OnDisk(p, l)
    BY <2>3 DEF Interrupted, disks
  <2> QED
    BY <2>2, <2>3, <2>4, <2>5, OnDiskSound
<1>6. ASSUME NEW p \in Procs, Recover(p)
      PROVE  Line
  BY <1>4, <1>6, <1>t, RecoveryLineType DEF Recover
<1>7. ASSUME NEW p \in Procs, Serve(p)
      PROVE  Line
  BY <1>4, <1>7, <1>t, TxLineType DEF Serve
<1>8. CASE UNCHANGED vars
  BY <1>8 DEF vars, disks
<1> QED
  BY <1>1, <1>2, <1>3, <1>5, <1>6, <1>7, <1>8 DEF Next

\* Crashes, failed writes and restarts never corrupt the journal, and a
\* corrupt journal is never written to nor cut.
THEOREM NeverCorrupted == Spec => WritersNeverCorrupt
<1>1. IInv /\ [Next]_vars => (corrupt' # corrupt => lock = NoProc)
  BY FileStep
<1>2. IInv /\ [Next]_vars => (corrupt => UNCHANGED disks)
  <2> SUFFICES ASSUME IInv, [Next]_vars, corrupt
               PROVE  UNCHANGED disks
    OBVIOUS
  <2>1. disk' = disk /\ torn' = torn /\ (corrupt' = corrupt \/ corrupt' = TRUE)
    BY FileStep
  <2>2. corrupt = TRUE
    BY DEF IInv, TypeOK
  <2> QED
    BY <2>1, <2>2 DEF disks
<1> QED
  BY <1>1, <1>2, Invariance, PTL DEF Spec, WritersNeverCorrupt

\* Only an operator's command leads out of FAULT_LOCKED.
THEOREM FaultLeft == Spec => FaultLeftByOperator
<1>1. IInv /\ [Next]_vars =>
        (disk.state = "FAULT_LOCKED" /\ disk'.state # "FAULT_LOCKED"
         => /\ disk.open.who = "operator"
            /\ disk'.state = "PREFLIGHT"
            /\ disk.open.kind = "none")
  <2> SUFFICES ASSUME IInv, [Next]_vars, disk.state = "FAULT_LOCKED",
                      disk'.state # "FAULT_LOCKED"
               PROVE  /\ disk.open.who = "operator"
                      /\ disk'.state = "PREFLIGHT"
                      /\ disk.open.kind = "none"
    OBVIOUS
  <2>1. PICK l \in Lines : Accepts(disk, l) /\ disk' = Apply(disk, l)
    BY FileStep
  <2>2. disk \in Replays /\ SoundReplay(disk)
    BY DEF IInv, TypeOK
  <2>3. l.rec = "committed"
    BY <2>1, <2>2 DEF Apply, AfterPrepare, AfterAbort, Lines, Replays
  <2>4. disk.open # NoTx /\ disk'.state = disk.open.to
    BY <2>1, <2>2, <2>3 DEF Accepts, MayCommit, Apply, AfterCommit, Replays
  <2>5. LeavesFault(disk.open)
    BY <2>2, <2>4 DEF SoundReplay
  <2> QED
    BY <2>4, <2>5 DEF LeavesFault
<1> QED
  BY <1>1, Invariance, PTL DEF Spec, FaultLeftByOperator
-----------------------------------------------------------------------------
(* What a process holds in memory.                                         *)

\* Nobody works beside p, before and after a step of p.
LEMMA AloneStep ==
    ASSUME IInv, NEW p \in Procs, phase[p] # "down",
           \A q \in Procs \ {p} : phase'[q] = phase[q],
           \/ phase'[p] = "down"
           \/ mem'[p] = disk'
           \/ broken'[p] /\ (torn' \/ \E l \in LinesOf(p)' : disk' = Apply(mem'[p], l))
    PROVE  MemoryIsDisk'
  BY OthersDown DEF MemoryIsDisk

\* A failed write leaves the process its lines: it may have written one.
LEMMA LinesKept ==
    ASSUME NEW p \in Procs, UNCHANGED <<phase, mem, acted>>
    PROVE  LinesOf(p)' = LinesOf(p)
  BY DEF LinesOf, RecoveryLine, TxLines, Acknowledgements

LEMMA MemoryStep == IInv /\ MemoryIsDisk /\ [Next]_vars => MemoryIsDisk'
<1> SUFFICES ASSUME IInv, MemoryIsDisk, [Next]_vars
             PROVE  MemoryIsDisk'
  OBVIOUS
<1>t. TypeOK
  BY DEF IInv
<1>1. CASE Edited
  BY <1>1, AllDown DEF Edited, MemoryIsDisk
<1>2. ASSUME NEW p \in Procs, Create(p) \/ Open(p)
      PROVE  MemoryIsDisk'
  <2>1. lock = NoProc
    BY <1>2 DEF Create, Open, TakeLock, MayTakeLock
  <2>2. mem'[p] = disk' /\ \A q \in Procs \ {p} : phase'[q] = "down"
    BY <1>2, <1>t, <2>1, AllDown DEF Create, Open, TypeOK
  <2> QED
    BY <2>2 DEF MemoryIsDisk
<1>3. ASSUME NEW p \in Procs, CreateCrashes(p)
      PROVE  MemoryIsDisk'
  BY <1>3, AllDown DEF CreateCrashes, MayTakeLock, MemoryIsDisk
<1>4. ASSUME NEW p \in Procs, Leave(p)
      PROVE  MemoryIsDisk'
  <2>1. phase[p] # "down" /\ phase' = [phase EXCEPT ![p] = "down"]
    BY <1>4 DEF Leave, Dies
  <2> QED
    BY <1>t, <2>1, AloneStep DEF TypeOK
<1>5. ASSUME NEW p \in Procs, Recover(p)
      PROVE  MemoryIsDisk'
  <2>1. mem'[p] = disk' /\ Writing(p)
    BY <1>5, <1>t, RecoveryLineType, AppendSound DEF Recover
  <2>2. \A q \in Procs \ {p} : phase'[q] = phase[q]
    BY <1>5, <1>t DEF Recover, TypeOK
  <2> QED
    BY <2>1, <2>2, AloneStep DEF Writing
<1>6. ASSUME NEW p \in Procs, Serve(p)
      PROVE  MemoryIsDisk'
  <2>1. mem'[p] = disk' /\ Writing(p)
    BY <1>6, <1>t, TxLineType, AppendSound DEF Serve
  <2>2. phase' = phase
    BY <1>6 DEF Serve
  <2> QED
    BY <2>1, <2>2, AloneStep DEF Writing
<1>7. ASSUME NEW p \in Procs, Act(p)
      PROVE  MemoryIsDisk'
  <2>1. phase[p] = "serve" /\ ~broken[p] /\ UNCHANGED <<disk, phase, mem>>
    BY <1>7 DEF Act, disks
  <2>2. mem'[p] = disk'
    BY <2>1 DEF IInv, WriterReadsDisk, Writing
  <2> QED
    BY <2>1, <2>2, AloneStep
<1>8. ASSUME NEW p \in Procs, Mishap(p)
      PROVE  MemoryIsDisk'
  <2>1. PICK l \in LinesOf(p) : AppendFails(p, l) \/ CrashInAppend(p, l)
    BY <1>8 DEF Mishap
  <2>2. l \in Lines
    BY <1>t, LinesOfType
  <2>3. CanAppend(p, l) /\ Interrupted(p, l)
    BY <2>1 DEF AppendFails, CrashInAppend
  <2>4. Writing(p) /\ mem[p] = disk
    BY <2>2, <2>3, WriterChains
  <2>5. phase[p] # "down"
    BY <2>4 DEF Writing
  <2>6. CASE CrashInAppend(p, l)
    BY <1>t, <2>5, <2>6, AloneStep DEF CrashInAppend, Dies, TypeOK
  <2>7. CASE AppendFails(p, l)
    <3>1. broken'[p] /\ UNCHANGED <<phase, mem, acted>>
      BY <1>t, <2>7 DEF AppendFails, TypeOK
    <3>2. disk' = disk \/ torn' \/ disk' = Apply(disk, l)
      BY <2>2, <2>3, OnDiskSound DEF Interrupted, disks
    <3>3. l \in LinesOf(p)'
      BY <2>1, <3>1, LinesKept
    <3>4. mem'[p] = disk
      BY <2>4, <3>1
    <3>5. mem'[p] = disk' \/ torn' \/ \E m \in LinesOf(p)' : disk' = Apply(mem'[p], m)
      BY <3>2, <3>3, <3>4, Zenon
    <3> QED
      BY <2>5, <3>1, <3>5, AloneStep
  <2> QED
    BY <2>1, <2>6, <2>7
<1>9. CASE UNCHANGED vars
  <2>1. UNCHANGED <<disk, torn, phase, mem, broken, acted>>
    BY <1>9 DEF vars, disks
  <2>2. \A p \in Procs : LinesOf(p)' = LinesOf(p)
    BY <2>1, LinesKept
  <2> QED
    BY <2>1, <2>2 DEF MemoryIsDisk
<1> QED
  BY <1>1, <1>2, <1>3, <1>4, <1>5, <1>6, <1>7, <1>8, <1>9 DEF Next

\* A writer decides on what the file says, and after a failed write it is at
\* most one line behind.
THEOREM MemoryIsTheFile == Spec => []MemoryIsDisk
<1>1. Init => MemoryIsDisk
  BY DEF Init, MemoryIsDisk
<1> QED
  BY <1>1, MemoryStep, Invariance, PTL DEF Spec
-----------------------------------------------------------------------------
(* What the journal says of outcomes.                                      *)

Moving(r) == r.open # NoTx /\ r.open.kind \in Physical

\* An outcome x said of the open action, f counting what really ran.
SaidTrue(x, r, f) ==
    /\ x = "yes" => f[KeyOf(r.open)] = 1
    /\ x = "no"  => f[KeyOf(r.open)] = 0

\* Acknowledgements are true, what is listed as not run never ran and never
\* will (its key is attempted, and is not the open one), and a retry names
\* a listed one.
TrueReplay(r, f) ==
    /\ Moving(r) => SaidTrue(r.ack, r, f)
    /\ \A n \in r.notRun :
          /\ KeyOf(n) \in r.attempted
          /\ f[KeyOf(n)] = 0
          /\ Moving(r) => KeyOf(n) # KeyOf(r.open)
    /\ r.open # NoTx /\ r.open.retry # 0 => \E n \in r.notRun : n.tx = r.open.retry

\* What the caller got back is true too, until it is written down.
ActedTrue ==
    \A p \in Procs :
        phase[p] = "serve" /\ ~broken[p] /\ Moving(disk) => SaidTrue(acted, disk, ran)

OutcomesInv == TrueReplay(disk, ran) /\ ActedTrue

LEMMA KeyOfSame ==
    ASSUME NEW e
    PROVE  KeyOf([tx |-> e.tx, ep |-> e.ep, kind |-> e.kind, step |-> e.step]) = KeyOf(e)
  BY DEF KeyOf

\* A line the rules accept, its acknowledgement true, keeps a replay true.
LEMMA TrueApply ==
    ASSUME NEW r \in Replays, NEW l \in Lines, NEW f, Accepts(r, l), SoundReplay(r),
           TrueReplay(r, f),
           l.rec = "acknowledged" /\ Moving(r) => SaidTrue(l.executed, r, f)
    PROVE  TrueReplay(Apply(r, l), f)
<1>1. CASE l.rec = "run_header" \/ l.rec = "note"
  <2>1. /\ Apply(r, l).open = r.open /\ Apply(r, l).ack = r.ack
        /\ Apply(r, l).notRun = r.notRun /\ Apply(r, l).attempted = r.attempted
    BY <1>1 DEF Apply, Replays
  <2> QED
    BY <2>1 DEF TrueReplay, Moving, SaidTrue
<1>2. CASE l.rec = "prepared"
  <2> DEFINE e == l.event
  <2>1. MayPrepare(r, e)
    BY <1>2 DEF Accepts
  <2>2. /\ Apply(r, l).open = e /\ Apply(r, l).ack = "none"
        /\ Apply(r, l).notRun = r.notRun
        /\ Apply(r, l).attempted = IF e.kind \in Physical THEN r.attempted \cup {KeyOf(e)}
                                   ELSE r.attempted
    BY <1>2 DEF Apply, AfterPrepare, Replays
  <2> HIDE DEF e
  <2>3. \A n \in r.notRun : e.kind \in Physical => KeyOf(n) # KeyOf(e)
    BY <2>1 DEF MayPrepare, NeverRepeated, TrueReplay
  <2>4. e.retry # 0 => \E n \in r.notRun : n.tx = e.retry
    BY <2>1 DEF MayPrepare, RetryAllowed
  <2> QED
    BY <2>2, <2>3, <2>4 DEF TrueReplay, Moving, SaidTrue
<1>3. CASE l.rec = "acknowledged"
  <2>1. /\ Apply(r, l).open = r.open /\ Apply(r, l).ack = l.executed
        /\ Apply(r, l).notRun = r.notRun /\ Apply(r, l).attempted = r.attempted
    BY <1>3 DEF Apply, Replays
  <2>2. r.ack = "none"
    BY <1>3 DEF Accepts, MayAcknowledge
  <2> QED
    BY <1>3, <2>1, <2>2 DEF TrueReplay, Moving, SaidTrue
<1>4. CASE l.rec = "committed"
  <2>1. /\ Apply(r, l).open = NoTx
        /\ Apply(r, l).notRun = r.notRun /\ Apply(r, l).attempted = r.attempted
    BY <1>4 DEF Apply, AfterCommit, Replays
  <2> QED
    BY <2>1 DEF TrueReplay, Moving
<1>5. CASE l.rec = "aborted"
  <2> DEFINE m == [tx |-> r.open.tx, ep |-> r.open.ep, kind |-> r.open.kind,
                   step |-> r.open.step]
  <2>1. /\ Apply(r, l).open = NoTx /\ Apply(r, l).attempted = r.attempted
        /\ Apply(r, l).notRun = IF r.open.kind \in Physical /\ r.ack = "no"
                                THEN r.notRun \cup {m} ELSE r.notRun
    BY <1>5 DEF Apply, AfterAbort, Replays
  <2>2. KeyOf(m) = KeyOf(r.open)
    BY KeyOfSame
  <2>3. r.open # NoTx
    BY <1>5 DEF Accepts
  <2> HIDE DEF m
  <2>4. r.open.kind \in Physical /\ r.ack = "no"
        => KeyOf(m) \in r.attempted /\ f[KeyOf(m)] = 0
    BY <2>2, <2>3 DEF TrueReplay, Moving, SaidTrue, SoundReplay
  <2> QED
    BY <2>1, <2>4 DEF TrueReplay, Moving
<1> QED
  BY <1>1, <1>2, <1>3, <1>4, <1>5 DEF Lines

\* A line a process may append now keeps the file true.
LEMMA TrueLine ==
    ASSUME IInv, OutcomesInv, NEW p \in Procs, NEW l \in LinesOf(p), l \in Lines,
           CanAppend(p, l)
    PROVE  TrueReplay(Apply(disk, l), ran)
<1>1. /\ mem[p] = disk /\ Accepts(disk, l) /\ ~broken[p]
  BY WriterChains DEF CanAppend
<1>2. ASSUME l.rec = "acknowledged", Moving(disk)
      PROVE  SaidTrue(l.executed, disk, ran)
  <2>1. phase[p] \notin RecoveryPhases
    BY <1>2 DEF LinesOf, RecoveryLine, RecoveryPhases
  <2>2. phase[p] = "serve" /\ l \in TxLines(p)
    BY <2>1 DEF LinesOf
  <2>3. l.executed \in Acknowledgements
    BY <1>2, <2>2 DEF TxLines
  <2>4. l.executed = acted \/ l.executed = "unknown"
    BY <2>3 DEF Acknowledgements
  <2> QED
    BY <1>1, <1>2, <2>2, <2>4 DEF OutcomesInv, ActedTrue, SaidTrue
<1> QED
  BY <1>1, <1>2, TrueApply DEF IInv, TypeOK, OutcomesInv

LEMMA NobodyActed ==
    ASSUME \A p \in Procs : phase'[p] # "serve" \/ ~Moving(disk)'
    PROVE  ActedTrue'
  BY DEF ActedTrue

LEMMA OutcomesStep == IInv /\ OutcomesInv /\ [Next]_vars => OutcomesInv'
<1> SUFFICES ASSUME IInv, OutcomesInv, [Next]_vars
             PROVE  OutcomesInv'
  OBVIOUS
<1>t. TypeOK
  BY DEF IInv
<1>1. CASE Edited
  <2>1. disk' = disk /\ ran' = ran /\ \A p \in Procs : phase'[p] = "down"
    BY <1>1, AllDown DEF Edited, ghosts
  <2> QED
    BY <2>1, NobodyActed DEF OutcomesInv
<1>2. ASSUME NEW p \in Procs, Create(p) \/ CreateCrashes(p)
      PROVE  OutcomesInv'
  <2> DEFINE h == [rec |-> "run_header"]
  <2>1. ~disk.header /\ ran' = ran /\ (disk' = disk \/ disk' = Apply(disk, h))
    BY <1>2 DEF Create, CreateCrashes, TakeLock
  <2>2. h \in Lines /\ Accepts(disk, h)
    BY <2>1 DEF Lines, Accepts
  <2>3. TrueReplay(Apply(disk, h), ran)
    BY <1>t, <2>2, TrueApply DEF IInv, OutcomesInv, TypeOK
  <2>4. disk.open = NoTx /\ Apply(disk, h).open = NoTx
    BY <2>1, HeaderSound DEF IInv, SoundReplay
  <2>5. ActedTrue'
    BY <2>1, <2>4, NobodyActed DEF Moving
  <2> QED
    BY <2>1, <2>3, <2>5 DEF OutcomesInv
<1>3. ASSUME NEW p \in Procs, Open(p)
      PROVE  OutcomesInv'
  <2>1. disk' = disk /\ ran' = ran /\ lock = NoProc
    BY <1>3 DEF Open, TakeLock, MayTakeLock
  <2>2. phase'[p] = "serve" => disk.open = NoTx
    BY <1>3, <1>t DEF Open, TypeOK, FirstPhase, Completed
  <2>3. \A q \in Procs \ {p} : phase'[q] = "down"
    BY <1>3, <1>t, <2>1, AllDown DEF Open, TypeOK
  <2>4. ActedTrue'
    BY <2>1, <2>2, <2>3, NobodyActed DEF Moving
  <2> QED
    BY <2>1, <2>4 DEF OutcomesInv
<1>4. ASSUME NEW p \in Procs, Leave(p)
      PROVE  OutcomesInv'
  <2>1. disk' = disk /\ ran' = ran /\ \A q \in Procs : phase'[q] = "down"
    BY <1>4, <1>t, OthersDown DEF Leave, Dies, TypeOK, disks, ghosts
  <2> QED
    BY <2>1, NobodyActed DEF OutcomesInv
<1>5. ASSUME NEW p \in Procs, Recover(p)
      PROVE  OutcomesInv'
  <2> DEFINE l == RecoveryLine(p)
  <2>1. l \in Lines /\ Append(p, l) /\ ran' = ran /\ l \in LinesOf(p)
        /\ phase[p] \in RecoveryPhases
    BY <1>5, <1>t, RecoveryLineType DEF Recover, LinesOf, ghosts
  <2>2. disk' = Apply(disk, l) /\ CanAppend(p, l)
    BY <2>1, AppendSound DEF Append
  <2>3. TrueReplay(disk', ran')
    BY <2>1, <2>2, TrueLine
  <2>4. phase[p] # "down" /\ \A q \in Procs \ {p} : phase'[q] = "down"
    BY <1>5, <1>t, <2>1, OthersDown DEF Recover, TypeOK, RecoveryPhases
  <2>5. phase'[p] = "serve" => disk'.open = NoTx
    <3>1. phase'[p] = NextPhase[phase[p]]
      BY <1>5, <1>t DEF Recover, TypeOK
    <3>2. phase'[p] = "serve" => phase[p] = "commit"
      BY <2>1, <3>1 DEF NextPhase, RecoveryPhases
    <3>3. phase[p] = "commit" => disk' = AfterCommit(disk)
      BY <2>2 DEF Apply, RecoveryLine
    <3> QED
      BY <1>t, <3>2, <3>3 DEF AfterCommit, TypeOK, Replays
  <2>6. ActedTrue'
    BY <2>4, <2>5, NobodyActed DEF Moving
  <2> QED
    BY <2>3, <2>6 DEF OutcomesInv
<1>6. ASSUME NEW p \in Procs, Serve(p)
      PROVE  OutcomesInv'
  <2>1. PICK l \in TxLines(p) :
           /\ Append(p, l)
           /\ acted' = IF l.rec \in {"note", "acknowledged"} THEN acted ELSE "not yet"
    BY <1>6 DEF Serve
  <2>2. l \in Lines /\ l \in LinesOf(p) /\ phase' = phase /\ phase[p] = "serve" /\ ran' = ran
    BY <1>6, <1>t, TxLineType DEF Serve, LinesOf, RecoveryPhases
  <2>3. disk' = Apply(disk, l) /\ CanAppend(p, l) /\ ~broken[p]
    BY <2>1, <2>2, AppendSound DEF Append
  <2>4. TrueReplay(disk', ran')
    BY <2>2, <2>3, TrueLine
  <2>5. \A q \in Procs \ {p} : phase'[q] = "down"
    BY <2>2, OthersDown
  <2>6. ASSUME Moving(disk)'
        PROVE  SaidTrue(acted, disk, ran)'
    <3>1. CASE l.rec \in {"note", "acknowledged"}
      <4>1. disk'.open = disk.open /\ acted' = acted
        BY <1>t, <2>1, <2>3, <3>1 DEF Apply, TypeOK, Replays
      <4>2. SaidTrue(acted, disk, ran)
        BY <2>2, <2>3, <2>6, <4>1 DEF OutcomesInv, ActedTrue, Moving
      <4> QED
        BY <2>2, <4>1, <4>2 DEF SaidTrue
    <3>2. CASE l.rec \notin {"note", "acknowledged"}
      BY <2>1, <3>2 DEF SaidTrue
    <3> QED
      BY <3>1, <3>2
  <2>7. ActedTrue'
    BY <2>5, <2>6 DEF ActedTrue
  <2> QED
    BY <2>4, <2>7 DEF OutcomesInv
<1>7. ASSUME NEW p \in Procs, Act(p)
      PROVE  OutcomesInv'
  <2>1. PICK x \in Executed, did \in {0, 1} :
           /\ x = "yes" => did = 1
           /\ x = "no" => did = 0
           /\ acted' = x
           /\ ran' = IF mem[p].open.kind \in Physical
                     THEN [ran EXCEPT ![KeyOf(mem[p].open)] = @ + did] ELSE ran
    BY <1>7 DEF Act
  <2>2. /\ disk' = disk /\ phase' = phase /\ broken' = broken
        /\ phase[p] = "serve" /\ ~broken[p] /\ acted = "not yet"
        /\ mem[p].open # NoTx /\ mem[p].ack = "none"
    BY <1>7 DEF Act, disks
  <2>3. mem[p] = disk
    BY <2>2 DEF IInv, WriterReadsDisk, Writing
  <2>4. CASE disk.open.kind \notin Physical
    <3>1. ran' = ran /\ ~Moving(disk)'
      BY <2>1, <2>2, <2>3, <2>4 DEF Moving
    <3> QED
      BY <2>2, <3>1, NobodyActed DEF OutcomesInv
  <2>5. CASE disk.open.kind \in Physical
    <3> DEFINE k == KeyOf(disk.open)
    <3>1. k \in Keys
      BY <1>t, <2>2, <2>3, <2>5, KeyOfType DEF TypeOK, Replays
    <3>2. ran[k] = 0
      BY <2>2, <2>3, <2>5 DEF IInv, OpenNotYetRun
    <3>3. ran' = [ran EXCEPT ![k] = ran[k] + did]
      BY <2>1, <2>3, <2>5
    <3>4. /\ x = "yes" => ran'[k] = 1
          /\ x = "no" => ran'[k] = 0
          /\ \A j : j # k => ran'[j] = ran[j]
      <4> HIDE DEF k
      <4>1. ran'[k] = did
        BY <1>t, <3>1, <3>2, <3>3 DEF TypeOK
      <4>2. \A j : j # k => ran'[j] = ran[j]
        BY <3>3
      <4> QED
        BY <2>1, <4>1, <4>2
    <3>5. Moving(disk) /\ disk.ack = "none"
      BY <2>2, <2>3, <2>5 DEF Moving
    <3>6. \A n \in disk.notRun : KeyOf(n) # k
      BY <3>5 DEF OutcomesInv, TrueReplay
    <3>7. TrueReplay(disk, ran')
      <4> HIDE DEF k
      <4>1. \A n \in disk.notRun : ran'[KeyOf(n)] = 0 /\ KeyOf(n) \in disk.attempted
        BY <3>4, <3>6 DEF OutcomesInv, TrueReplay
      <4> QED
        BY <3>5, <3>6, <4>1 DEF k, OutcomesInv, TrueReplay, SaidTrue
    <3>8. SaidTrue(acted', disk, ran')
      BY <2>1, <3>4 DEF SaidTrue
    <3> QED
      BY <2>2, <3>7, <3>8 DEF OutcomesInv, ActedTrue
  <2> QED
    BY <2>4, <2>5
<1>8. ASSUME NEW p \in Procs, Mishap(p)
      PROVE  OutcomesInv'
  <2>1. PICK l \in LinesOf(p) : AppendFails(p, l) \/ CrashInAppend(p, l)
    BY <1>8 DEF Mishap
  <2>2. l \in Lines
    BY <1>t, LinesOfType
  <2>3. CanAppend(p, l) /\ Interrupted(p, l) /\ ran' = ran
    BY <2>1 DEF AppendFails, CrashInAppend, ghosts
  <2>4. Writing(p)
    BY <2>2, <2>3, WriterChains
  <2>5. disk' = disk \/ disk' = Apply(disk, l)
    BY <2>2, <2>3, OnDiskSound DEF Interrupted, disks
  <2>6. TrueReplay(disk', ran')
    BY <2>2, <2>3, <2>5, TrueLine DEF OutcomesInv
  <2>7. \A q \in Procs \ {p} : phase[q] = "down"
    BY <2>4, OthersDown DEF Writing
  <2>8. broken'[p] \/ phase'[p] = "down"
    BY <1>t, <2>1 DEF AppendFails, CrashInAppend, Dies, TypeOK
  <2>9. \A q \in Procs \ {p} : phase'[q] = "down"
    BY <1>t, <2>1, <2>7 DEF AppendFails, CrashInAppend, Dies, TypeOK
  <2>10. ActedTrue'
    BY <2>8, <2>9 DEF ActedTrue
  <2> QED
    BY <2>6, <2>10 DEF OutcomesInv
<1>9. CASE UNCHANGED vars
  BY <1>9 DEF vars, disks, ghosts, OutcomesInv, ActedTrue, TrueReplay, Moving, SaidTrue
<1> QED
  BY <1>1, <1>2, <1>3, <1>4, <1>5, <1>6, <1>7, <1>8, <1>9 DEF Next

\* What the journal says of an action's outcome is true, whatever failed in
\* between: nothing is committed as done that did not run, and a retry is only
\* ever of an action that did not.
THEOREM TellsTheTruth == Spec => []OutcomesAreTrue
<1>1. Init => OutcomesInv
  <2> SUFFICES ASSUME Init
               PROVE  OutcomesInv
    OBVIOUS
  <2>1. disk.open = NoTx
    BY DEF Init, Blank
  <2>2. disk.notRun = {}
    BY DEF Init, Blank
  <2> QED
    BY <2>1, <2>2 DEF OutcomesInv, ActedTrue, TrueReplay, Moving
<1>2. IInv /\ OutcomesInv => OutcomesAreTrue
  BY DEF OutcomesInv, TrueReplay, Moving, SaidTrue, OutcomesAreTrue
<1> QED
  BY <1>1, <1>2, OutcomesStep, Invariance, PTL DEF Spec
-----------------------------------------------------------------------------
(* What was authorised, and under which epoch.                             *)

\* Nothing was authorised beyond what the file knows.
GrantsOnFile ==
    \A g \in grants : /\ g.tx <= disk.txs /\ g.epoch <= disk.epoch
                      /\ g.life <= lives
                      /\ disk.header

GrantsInOrder == \A g, h \in grants : g.tx < h.tx => g.epoch < h.epoch

\* Once a recovery has taken a new epoch, every earlier life is behind it.
OldGrantsFenced ==
    \A p \in Procs, g \in grants :
        /\ phase[p] \in {"commit", "serve"}
        /\ phase[p] = "serve" => ~Completed(mem[p])
        /\ g.life < lives
        => g.epoch < mem[p].epoch

\* A process that serves with a motion open prepared it in this life.
OpenOfThisLife ==
    \A p \in Procs :
        phase[p] = "serve" /\ ~broken[p] /\ Moving(disk)
        => \E g \in grants : g.tx = disk.open.tx /\ g.life = lives

EpochsInv == GrantsOnFile /\ GrantsInOrder /\ OldGrantsFenced /\ OpenOfThisLife

\* Epochs and transaction numbers only grow.
LEMMA ApplyGrows ==
    ASSUME NEW r \in Replays, NEW l \in Lines, Accepts(r, l)
    PROVE  /\ r.txs <= Apply(r, l).txs
           /\ r.epoch <= Apply(r, l).epoch
           /\ r.header => Apply(r, l).header
           /\ l.rec # "prepared" => Apply(r, l).epoch = r.epoch
           /\ Completed(r) => Completed(Apply(r, l))
<1>1. r.txs \in Nat /\ r.epoch \in Nat
  BY DEF Replays
<1>2. CASE l.rec = "prepared"
  <2>1. MayPrepare(r, l.event)
    BY <1>2 DEF Accepts
  <2>2. /\ Apply(r, l).txs = r.txs + 1 /\ Apply(r, l).epoch = l.event.epoch
        /\ Apply(r, l).header = r.header
    BY <1>2 DEF Apply, AfterPrepare, Replays
  <2> QED
    BY <1>1, <1>2, <2>1, <2>2 DEF MayPrepare, Completed
<1>3. CASE l.rec = "run_header"
  BY <1>1, <1>3 DEF Apply, Replays, Completed
<1>4. CASE l.rec = "note"
  BY <1>1, <1>4 DEF Apply
<1>5. CASE l.rec = "acknowledged"
  BY <1>1, <1>5 DEF Apply, Replays, Completed
<1>6. CASE l.rec = "committed"
  <2>1. r.open # NoTx
    BY <1>6 DEF Accepts, MayCommit
  <2>2. /\ Apply(r, l).txs = r.txs /\ Apply(r, l).epoch = r.epoch
        /\ Apply(r, l).header = r.header
    BY <1>6 DEF Apply, AfterCommit, Replays
  <2> QED
    BY <1>1, <1>6, <2>1, <2>2 DEF Completed
<1>7. CASE l.rec = "aborted"
  <2>1. r.open # NoTx
    BY <1>7 DEF Accepts
  <2>2. /\ Apply(r, l).txs = r.txs /\ Apply(r, l).epoch = r.epoch
        /\ Apply(r, l).header = r.header
    BY <1>7 DEF Apply, AfterAbort, Replays
  <2> QED
    BY <1>1, <1>7, <2>1, <2>2 DEF Completed
<1> QED
  BY <1>2, <1>3, <1>4, <1>5, <1>6, <1>7 DEF Lines

\* No grant is forgotten or overtaken by what a file that grows says.
LEMMA GrantsKept ==
    ASSUME IInv, GrantsOnFile, grants' = grants, lives' \in {lives, lives + 1},
           \/ disk' = disk
           \/ \E l \in Lines : Accepts(disk, l) /\ disk' = Apply(disk, l)
    PROVE  GrantsOnFile'
<1>1. disk \in Replays /\ lives \in Nat /\ grants \subseteq Grants
  BY DEF IInv, TypeOK
<1>2. /\ disk.txs <= disk'.txs /\ disk.epoch <= disk'.epoch
      /\ disk.header => disk'.header
  <2>1. disk.txs \in Nat /\ disk.epoch \in Nat
    BY <1>1 DEF Replays
  <2> QED
    BY <1>1, <2>1, ApplyGrows
<1>3. /\ disk.txs \in Nat /\ disk.epoch \in Nat
      /\ disk'.txs \in Nat /\ disk'.epoch \in Nat
  BY <1>1, ApplyType DEF Replays
<1> SUFFICES ASSUME NEW g \in grants
             PROVE  /\ g.tx <= disk'.txs /\ g.epoch <= disk'.epoch /\ g.life <= lives'
                    /\ disk'.header
  BY DEF GrantsOnFile
<1>4. g.tx \in Nat /\ g.epoch \in Nat /\ g.life \in Nat
  BY <1>1 DEF Grants
<1>5. g.tx <= disk.txs /\ g.epoch <= disk.epoch /\ g.life <= lives /\ disk.header
  BY DEF GrantsOnFile
<1>6. lives' = lives \/ lives' = lives + 1
  OBVIOUS
<1>7. g.life <= lives'
  BY <1>1, <1>4, <1>5, <1>6
<1> QED
  BY <1>2, <1>3, <1>4, <1>5, <1>7

LEMMA NobodyFences ==
    ASSUME \A p \in Procs : phase'[p] \notin {"commit", "serve"}
    PROVE  OldGrantsFenced' /\ OpenOfThisLife'
  BY DEF OldGrantsFenced, OpenOfThisLife

\* A new authorisation is the latest, of the highest epoch, of this life.
LEMMA GrantAdded ==
    ASSUME IInv, EpochsInv, NEW p \in Procs, NEW l \in TxLines(p), l \in Lines,
           mem[p] = disk, Accepts(disk, l), disk' = Apply(disk, l), lives' = lives,
           Granted(l)
    PROVE  GrantsOnFile' /\ GrantsInOrder'
<1>1. CASE ~(l.rec = "prepared" /\ l.event.kind \in Physical)
  <2>1. grants' = grants
    BY <1>1 DEF Granted
  <2> QED
    BY <2>1, GrantsKept DEF EpochsInv, GrantsInOrder
<1>2. CASE l.rec = "prepared" /\ l.event.kind \in Physical
  <2> DEFINE n == [tx |-> l.event.tx, epoch |-> l.event.epoch, life |-> lives]
  <2>1. l.event \in Asked(disk)
    BY <1>2 DEF TxLines
  <2>2. l.event.tx = disk.txs + 1 /\ l.event.epoch = disk.epoch + 1
    BY <1>2, <2>1 DEF Asked
  <2>3. disk \in Replays /\ lives \in Nat /\ grants \subseteq Grants
    BY DEF IInv, TypeOK
  <2>4. /\ disk'.txs = disk.txs + 1 /\ disk'.epoch = disk.epoch + 1
        /\ disk'.header
    <3>1. /\ disk'.txs = disk.txs + 1 /\ disk'.epoch = l.event.epoch
          /\ disk'.header = disk.header
      BY <1>2, <2>3 DEF Apply, AfterPrepare, Replays
    <3> QED
      BY <1>2, <2>2, <3>1 DEF Accepts, MayPrepare
  <2>5. grants' = grants \cup {n}
    BY <1>2 DEF Granted
  <2>6. disk.txs \in Nat /\ disk.epoch \in Nat
    BY <2>3 DEF Replays
  <2>7. \A g \in grants : /\ g.tx \in Nat /\ g.epoch \in Nat /\ g.life \in Nat
                          /\ g.tx <= disk.txs /\ g.epoch <= disk.epoch /\ g.life <= lives
    BY <2>3 DEF EpochsInv, GrantsOnFile, Grants
  <2>8. n.tx = disk.txs + 1 /\ n.epoch = disk.epoch + 1 /\ n.life = lives
    BY <2>2
  <2> HIDE DEF n
  <2>9. GrantsOnFile'
    <3> SUFFICES ASSUME NEW g \in grants'
                 PROVE  /\ g.tx <= disk'.txs /\ g.epoch <= disk'.epoch /\ g.life <= lives'
                        /\ disk'.header
      BY DEF GrantsOnFile
    <3>1. CASE g = n
      BY <2>3, <2>4, <2>6, <2>8, <3>1
    <3>2. CASE g \in grants
      BY <2>3, <2>4, <2>6, <2>7, <3>2
    <3> QED
      BY <2>5, <3>1, <3>2
  <2>10. GrantsInOrder'
    <3> SUFFICES ASSUME NEW g \in grants', NEW h \in grants', g.tx < h.tx
                 PROVE  g.epoch < h.epoch
      BY DEF GrantsInOrder
    <3>1. CASE g \in grants /\ h \in grants
      BY <3>1 DEF EpochsInv, GrantsInOrder
    <3>2. CASE g \in grants /\ h = n
      BY <2>6, <2>7, <2>8, <3>2
    <3>3. CASE g = n /\ h \in grants
      BY <2>6, <2>7, <2>8, <3>3
    <3>4. CASE g = n /\ h = n
      BY <2>6, <2>8, <3>4
    <3> QED
      BY <2>5, <3>1, <3>2, <3>3, <3>4
  <2> QED
    BY <2>9, <2>10
<1> QED
  BY <1>1, <1>2

LEMMA EpochsStep == IInv /\ EpochsInv /\ [Next]_vars => EpochsInv'
<1> SUFFICES ASSUME IInv, EpochsInv, [Next]_vars
             PROVE  EpochsInv'
  OBVIOUS
<1>t. TypeOK
  BY DEF IInv
<1>1. CASE Edited
  <2>1. /\ disk' = disk /\ grants' = grants /\ lives' = lives
        /\ \A p \in Procs : phase'[p] = "down"
    BY <1>1, AllDown DEF Edited, ghosts
  <2> QED
    BY <2>1, NobodyFences DEF EpochsInv, GrantsOnFile, GrantsInOrder
<1>2. ASSUME NEW p \in Procs, Create(p) \/ CreateCrashes(p)
      PROVE  EpochsInv'
  <2> DEFINE h == [rec |-> "run_header"]
  <2>1. ~disk.header /\ grants' = grants
    BY <1>2 DEF Create, CreateCrashes, TakeLock
  <2>2. grants' = {}
    BY <2>1 DEF EpochsInv, GrantsOnFile
  <2>3. disk' = disk \/ disk' = Apply(disk, h)
    BY <1>2 DEF Create, CreateCrashes
  <2>4. ~Moving(disk)'
    BY <2>1, <2>3, HeaderSound DEF IInv, SoundReplay, Moving
  <2> QED
    BY <2>2, <2>4 DEF EpochsInv, GrantsOnFile, GrantsInOrder, OldGrantsFenced, OpenOfThisLife
<1>3. ASSUME NEW p \in Procs, Open(p)
      PROVE  EpochsInv'
  <2>1. /\ disk' = disk /\ grants' = grants /\ lives' = lives + 1 /\ lock = NoProc
        /\ mem' = [mem EXCEPT ![p] = disk]
    BY <1>3 DEF Open, TakeLock, MayTakeLock
  <2>2. GrantsOnFile' /\ GrantsInOrder'
    BY <2>1, GrantsKept DEF EpochsInv, GrantsInOrder
  <2>3. \A q \in Procs \ {p} : phase'[q] = "down"
    BY <1>3, <1>t, <2>1, AllDown DEF Open, TypeOK
  <2>4. phase'[p] = IF corrupt THEN "readonly" ELSE FirstPhase(disk)
    BY <1>3, <1>t DEF Open, TypeOK
  <2>5. phase'[p] # "commit" /\ (phase'[p] = "serve" => Completed(disk))
    BY <2>4 DEF FirstPhase
  <2>6. Completed(mem[p])' <=> Completed(disk)
    BY <1>t, <2>1 DEF Completed, TypeOK
  <2>7. OldGrantsFenced' /\ OpenOfThisLife'
    BY <2>1, <2>3, <2>5, <2>6 DEF OldGrantsFenced, OpenOfThisLife, Completed, Moving
  <2> QED
    BY <2>2, <2>7 DEF EpochsInv
<1>4. ASSUME NEW p \in Procs, Leave(p)
      PROVE  EpochsInv'
  <2>1. /\ disk' = disk /\ grants' = grants /\ lives' = lives
        /\ \A q \in Procs : phase'[q] = "down"
    BY <1>4, <1>t, OthersDown DEF Leave, Dies, TypeOK, disks, ghosts
  <2> QED
    BY <2>1, NobodyFences DEF EpochsInv, GrantsOnFile, GrantsInOrder
<1>5. ASSUME NEW p \in Procs, Recover(p)
      PROVE  EpochsInv'
  <2> DEFINE l == RecoveryLine(p)
  <2>1. /\ l \in Lines /\ Append(p, l) /\ l \in LinesOf(p) /\ phase[p] \in RecoveryPhases
        /\ grants' = grants /\ lives' = lives
    BY <1>5, <1>t, RecoveryLineType DEF Recover, LinesOf, ghosts
  <2>2. /\ disk' = Apply(disk, l) /\ mem'[p] = disk' /\ CanAppend(p, l) /\ Accepts(disk, l)
        /\ mem[p] = disk
    BY <2>1, AppendSound, WriterChains DEF Append
  <2>3. GrantsOnFile' /\ GrantsInOrder'
    BY <2>1, <2>2, GrantsKept DEF EpochsInv, GrantsInOrder
  <2>4. \A q \in Procs \ {p} : phase'[q] = "down"
    BY <1>5, <1>t, <2>1, OthersDown DEF Recover, TypeOK, RecoveryPhases
  <2>5. phase'[p] = NextPhase[phase[p]]
    BY <1>5, <1>t DEF Recover, TypeOK
  <2>6. phase'[p] = "serve" => phase[p] = "commit" /\ disk'.open = NoTx
    <3>1. phase'[p] = "serve" => phase[p] = "commit"
      BY <2>1, <2>5 DEF NextPhase, RecoveryPhases
    <3>2. phase[p] = "commit" => disk' = AfterCommit(disk)
      BY <2>2 DEF Apply, RecoveryLine
    <3> QED
      BY <1>t, <3>1, <3>2 DEF AfterCommit, TypeOK, Replays
  <2>7. OpenOfThisLife'
    BY <2>4, <2>6 DEF OpenOfThisLife, Moving
  <2>8. OldGrantsFenced'
    <3> SUFFICES ASSUME NEW g \in grants, phase'[p] \in {"commit", "serve"}, g.life < lives
                 PROVE  g.epoch < disk'.epoch
      BY <2>1, <2>2, <2>4 DEF OldGrantsFenced
    <3>1. disk.epoch \in Nat /\ g.epoch \in Nat
      BY <1>t DEF TypeOK, Replays, Grants
    <3>2. CASE phase'[p] = "commit"
      <4>1. phase[p] = "prepare"
        BY <2>1, <2>5, <3>2 DEF NextPhase, RecoveryPhases
      <4>2. l = [rec |-> "prepared", event |-> RecoveryLock(disk)]
        BY <2>2, <4>1 DEF RecoveryLine
      <4>3. l.rec = "prepared" /\ l.event = RecoveryLock(disk)
        <5> HIDE DEF l
        <5> QED
          BY <4>2
      <4>4. disk' = AfterPrepare(disk, RecoveryLock(disk))
        BY <2>2, <4>3 DEF Apply
      <4>5. disk'.epoch = disk.epoch + 1
        BY <1>t, <4>4 DEF AfterPrepare, RecoveryLock, TypeOK, Replays
      <4>6. g.epoch <= disk.epoch
        BY DEF EpochsInv, GrantsOnFile
      <4> QED
        BY <3>1, <4>5, <4>6
    <3>3. CASE phase'[p] = "serve"
      <4>1. g.epoch < disk.epoch
        BY <2>2, <2>6, <3>3 DEF EpochsInv, OldGrantsFenced
      <4>2. disk.epoch <= disk'.epoch /\ disk'.epoch \in Nat
        BY <1>t, <2>1, <2>2, ApplyGrows, ApplyType DEF TypeOK, Replays
      <4> QED
        BY <3>1, <4>1, <4>2
    <3> QED
      BY <3>2, <3>3
  <2> QED
    BY <2>3, <2>7, <2>8 DEF EpochsInv
<1>6. ASSUME NEW p \in Procs, Serve(p)
      PROVE  EpochsInv'
  <2>1. PICK l \in TxLines(p) : Append(p, l) /\ Granted(l)
    BY <1>6 DEF Serve
  <2>2. /\ l \in Lines /\ phase' = phase /\ phase[p] = "serve" /\ lives' = lives
        /\ broken' = broken
    BY <1>6, <1>t, <2>1, TxLineType DEF Serve, Append
  <2>3. /\ disk' = Apply(disk, l) /\ mem'[p] = disk' /\ CanAppend(p, l) /\ Accepts(disk, l)
        /\ mem[p] = disk /\ ~broken[p]
    BY <2>1, <2>2, AppendSound, WriterChains DEF Append
  <2>4. GrantsOnFile' /\ GrantsInOrder'
    BY <2>1, <2>2, <2>3, GrantAdded
  <2>5. \A q \in Procs \ {p} : phase'[q] = "down"
    BY <2>2, OthersDown
  <2>6. /\ grants \subseteq grants'
        /\ \A g \in grants' \ grants : g.life = lives
    BY <2>1 DEF Granted
  <2>7. OldGrantsFenced'
    <3> SUFFICES ASSUME NEW g \in grants', ~Completed(disk'), g.life < lives
                 PROVE  g.epoch < disk'.epoch
      BY <2>2, <2>3, <2>5 DEF OldGrantsFenced
    <3>1. g \in grants
      BY <1>t, <2>6 DEF TypeOK
    <3>2. ~Completed(disk)
      BY <1>t, <2>2, <2>3, ApplyGrows DEF TypeOK
    <3>3. g.epoch < disk.epoch
      BY <2>2, <2>3, <3>1, <3>2 DEF EpochsInv, OldGrantsFenced
    <3>4. disk.epoch <= disk'.epoch /\ disk'.epoch \in Nat /\ disk.epoch \in Nat
      BY <1>t, <2>2, <2>3, ApplyGrows, ApplyType DEF TypeOK, Replays
    <3>5. g.epoch \in Nat
      BY <1>t, <3>1 DEF TypeOK, Grants
    <3> QED
      BY <3>3, <3>4, <3>5
  <2>8. OpenOfThisLife'
    <3> SUFFICES ASSUME Moving(disk')
                 PROVE  \E g \in grants' : g.tx = disk'.open.tx /\ g.life = lives
      BY <2>2, <2>5 DEF OpenOfThisLife, Moving
    <3>1. CASE l.rec = "prepared"
      <4>1. disk'.open = l.event
        BY <1>t, <2>3, <3>1 DEF Apply, AfterPrepare, TypeOK, Replays
      <4>2. l.event.kind \in Physical
        BY <4>1 DEF Moving
      <4>3. [tx |-> l.event.tx, epoch |-> l.event.epoch, life |-> lives] \in grants'
        BY <2>1, <3>1, <4>2 DEF Granted
      <4> QED
        BY <4>1, <4>3
    <3>2. CASE l.rec # "prepared"
      <4>1. disk'.open = disk.open \/ disk'.open = NoTx
        BY <1>t, <2>2, <2>3, <3>2 DEF Apply, AfterCommit, AfterAbort, Lines, TypeOK, Replays
      <4>2. disk'.open = disk.open /\ Moving(disk)
        BY <4>1 DEF Moving
      <4>3. \E g \in grants : g.tx = disk.open.tx /\ g.life = lives
        BY <2>2, <2>3, <4>2 DEF EpochsInv, OpenOfThisLife
      <4> QED
        BY <2>6, <4>2, <4>3
    <3> QED
      BY <3>1, <3>2
  <2> QED
    BY <2>4, <2>7, <2>8 DEF EpochsInv
<1>7. ASSUME NEW p \in Procs, Act(p)
      PROVE  EpochsInv'
  BY <1>7 DEF Act, disks, EpochsInv, GrantsOnFile, GrantsInOrder, OldGrantsFenced,
              OpenOfThisLife, Moving, Completed
<1>8. ASSUME NEW p \in Procs, Mishap(p)
      PROVE  EpochsInv'
  <2>1. PICK l \in LinesOf(p) : AppendFails(p, l) \/ CrashInAppend(p, l)
    BY <1>8 DEF Mishap
  <2>2. l \in Lines
    BY <1>t, LinesOfType
  <2>3. /\ CanAppend(p, l) /\ Interrupted(p, l)
        /\ grants' = grants /\ lives' = lives
    BY <2>1 DEF AppendFails, CrashInAppend, ghosts
  <2>4. Writing(p) /\ Accepts(disk, l)
    BY <2>2, <2>3, WriterChains
  <2>5. disk' = disk \/ disk' = Apply(disk, l)
    BY <2>2, <2>3, OnDiskSound DEF Interrupted, disks
  <2>6. GrantsOnFile' /\ GrantsInOrder'
    BY <2>2, <2>3, <2>4, <2>5, GrantsKept DEF EpochsInv, GrantsInOrder
  <2>7. \A q \in Procs \ {p} : phase[q] = "down"
    BY <2>4, OthersDown DEF Writing
  <2>8. CASE CrashInAppend(p, l)
    <3>1. \A q \in Procs : phase'[q] = "down"
      BY <1>t, <2>7, <2>8 DEF CrashInAppend, Dies, TypeOK
    <3> QED
      BY <2>6, <3>1, NobodyFences DEF EpochsInv
  <2>9. CASE AppendFails(p, l)
    <3>1. phase' = phase /\ mem' = mem /\ broken'[p]
      BY <1>t, <2>9 DEF AppendFails, TypeOK
    <3>2. OldGrantsFenced'
      BY <2>3, <3>1 DEF EpochsInv, OldGrantsFenced, Completed
    <3>3. OpenOfThisLife'
      BY <2>7, <3>1 DEF OpenOfThisLife
    <3> QED
      BY <2>6, <3>2, <3>3 DEF EpochsInv
  <2> QED
    BY <2>1, <2>8, <2>9
<1>9. CASE UNCHANGED vars
  BY <1>9 DEF vars, disks, ghosts, EpochsInv, GrantsOnFile, GrantsInOrder, OldGrantsFenced,
              OpenOfThisLife, Moving, Completed
<1> QED
  BY <1>1, <1>2, <1>3, <1>4, <1>5, <1>6, <1>7, <1>8, <1>9 DEF Next

LEMMA EpochsInvariance == Spec => [](IInv /\ EpochsInv)
<1>1. Init => EpochsInv
  <2> SUFFICES ASSUME Init
               PROVE  EpochsInv
    OBVIOUS
  <2>1. grants = {} /\ \A p \in Procs : phase[p] = "down"
    BY DEF Init
  <2> QED
    BY <2>1 DEF EpochsInv, GrantsOnFile, GrantsInOrder, OldGrantsFenced, OpenOfThisLife
<1> QED
  BY <1>1, EpochsStep, Invariance, PTL DEF Spec

\* No authorisation given before a crash is valid after it, and no two share
\* an epoch.
THEOREM OldGrantsAreVoid == Spec => []EpochFencesOldGrants
<1>1. IInv /\ EpochsInv => EpochFencesOldGrants
  BY DEF EpochsInv, GrantsInOrder, OldGrantsFenced, EpochFencesOldGrants
<1> QED
  BY <1>1, EpochsInvariance, PTL

\* Recovery replays nothing: only a transaction prepared in this life runs.
THEOREM OnlyOwnTransactionsRun == Spec => NothingReplayed
<1>1. IInv /\ EpochsInv /\ [Next]_vars =>
        (ran' # ran => \E g \in grants : g.tx = mem[lock].open.tx /\ g.life = lives)
  <2> SUFFICES ASSUME IInv, EpochsInv, Next, ran' # ran
               PROVE  \E g \in grants : g.tx = mem[lock].open.tx /\ g.life = lives
    BY DEF vars, ghosts
  <2>1. PICK p \in Procs : Act(p)
    BY DEF Next, Edited, Create, CreateCrashes, Open, TakeLock, Leave, Recover, Serve, Mishap,
           AppendFails, CrashInAppend, ghosts
  <2>2. /\ phase[p] = "serve" /\ ~broken[p] /\ mem[p].open # NoTx
        /\ mem[p].open.kind \in Physical
    BY <2>1 DEF Act
  <2>3. mem[p] = disk /\ lock = p
    BY <2>2 DEF IInv, WriterReadsDisk, Writing, SingleWriter
  <2> QED
    BY <2>2, <2>3 DEF EpochsInv, OpenOfThisLife, Moving
<1> QED
  BY <1>1, EpochsInvariance, PTL DEF Spec, NothingReplayed
=============================================================================
