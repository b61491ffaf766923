-------------------------- MODULE CampaignPlanProofs --------------------------
(***************************************************************************)
(* Campaign implements CampaignPlan: for every plan, number of segments,   *)
(* limit and crash of the conductor, the campaign's journal and the child  *)
(* runs' own tell one story.  Besides Inv it takes that what a transaction *)
(* says of a child run is so: the run is short, or full, when it is        *)
(* written, accepted or sealed on those grounds, and stays so.             *)
(***************************************************************************)
EXTENDS CampaignProofs

\* What a transaction t says of the child runs c.
Warranted(r, c, t) ==
    /\ t.reason = "segment_short" => r.segment \in Segments /\ c[r.segment] = "short"
    /\ t.reason = "operator_accept_short" => t.segment \in Segments /\ c[t.segment] = "short"
    /\ t.to = "SEGMENT_SEALED" =>
          /\ t.segment \in Segments
          /\ c[t.segment] = "completed" \/ (c[t.segment] = "short" /\ t.segment \in r.short)
Told(r, c) ==
    /\ \A s \in r.short : c[s] = "short"
    /\ r.waitReason = "segment_short" => r.segment \in Segments /\ c[r.segment] = "short"
    /\ r.open # NoTx => Warranted(r, c, r.open)
FirstWarranted(r, c, q) == q # <<>> /\ q[1].rec = "prepared" => Warranted(r, c, q[1].tx)
Truth == Told(j, child) /\ FirstWarranted(j, child, todo)
-----------------------------------------------------------------------------
(* What is said of the child runs is so. *)

\* A run that is over stays as it is.
LEMMA OverStays ==
    ASSUME NEW r \in Replays, NEW c, NEW d, NEW q, Told(r, c), FirstWarranted(r, c, q),
           \A s \in Segments : c[s] \in {"short", "completed"} => d[s] = c[s]
    PROVE  Told(r, d) /\ FirstWarranted(r, d, q)
<1>1. r.short \subseteq Segments
  BY DEF Replays
<1>2. ASSUME NEW t, Warranted(r, c, t) PROVE Warranted(r, d, t)
  BY <1>2 DEF Warranted
<1>3. Told(r, d)
  BY <1>1, <1>2 DEF Told
<1> QED
  BY <1>2, <1>3 DEF FirstWarranted

\* Applying a line.
LEMMA LineTold ==
    ASSUME NEW r, NEW c, NEW p, Sound(r, c), NEW l \in Lines, First(r, c, p, l), Told(r, c),
           l.rec = "prepared" => Warranted(r, c, l.tx)
    PROVE  Told(Apply(r, l), c)
<1>1. r \in Replays /\ l \in Lines \cup {Act} /\ l # Act /\ r.short \subseteq Segments
  BY DEF Sound, Lines, Act, Replays
<1>2. CASE l.rec = "prepared"
  <2> DEFINE n == AfterPrepare(r, l.tx)
  <2>1. l.tx \in Transactions /\ Apply(r, l) = n
    BY <1>1, <1>2, LineKinds DEF Apply
  <2>2. n.open = l.tx /\ n.segment = r.segment /\ n.short = r.short /\ n.waitReason = r.waitReason
    BY <1>1, <2>1, PrepareFields
  <2> HIDE DEF n
  <2> QED
    BY <1>2, <2>1, <2>2 DEF Told, Warranted
<1>3. CASE l.rec = "acknowledged"
  <2> DEFINE n == AfterAck(r, l.executed)
  <2>1. l.executed \in Executed /\ Apply(r, l) = n
    BY <1>1, <1>3, LineKinds DEF Apply
  <2>2. n.open = r.open /\ n.segment = r.segment /\ n.short = r.short /\ n.waitReason = r.waitReason
    BY <1>1, <2>1, AckFields
  <2> HIDE DEF n
  <2> QED
    BY <2>1, <2>2 DEF Told, Warranted
<1>4. CASE l.rec = "aborted"
  <2> DEFINE n == AfterAbort(r)
  <2>1. Apply(r, l) = n
    BY <1>4 DEF Apply
  <2>2. n.open = NoTx /\ n.segment = r.segment /\ n.short = r.short /\ n.waitReason = r.waitReason
    BY <1>1, AbortFields
  <2> HIDE DEF n
  <2> QED
    BY <2>1, <2>2 DEF Told
<1>5. CASE l.rec = "note"
  <2>1. PICK both \in BOOLEAN : both = (r.pause \/ l.pause)
    OBVIOUS
  <2> DEFINE n == [r EXCEPT !.pause = both]
  <2>2. Apply(r, l) = n
    BY <1>5, <2>1 DEF Apply
  <2>3. n.open = r.open /\ n.segment = r.segment /\ n.short = r.short /\ n.waitReason = r.waitReason
    BY <1>1 DEF Replays
  <2> HIDE DEF n
  <2> QED
    BY <2>2, <2>3 DEF Told, Warranted
<1>6. CASE l.rec = "committed"
  <2> DEFINE n == AfterCommit(r, l.unplanned)  t == r.open
  <2>1. l.unplanned \in Nat /\ Apply(r, l) = n /\ Warranted(r, c, t)
    BY <1>1, <1>6, LineKinds DEF Apply, First, MayCommit, Told
  <2>2. /\ n.open = NoTx
        /\ n.segment = IF t.to \in SEGMENT_STATES THEN t.segment ELSE r.segment
        /\ n.short = IF t.reason = "operator_accept_short" THEN r.short \cup {t.segment} ELSE r.short
        /\ n.waitReason = IF t.to \in HUMAN_STATES THEN t.reason ELSE "none"
    BY <1>1, <2>1, CommitFields
  <2> HIDE DEF n
  <2>3. \A s \in n.short : c[s] = "short"
    BY <2>1, <2>2 DEF Told, Warranted
  <2>4. n.waitReason = "segment_short" => n.segment \in Segments /\ c[n.segment] = "short"
    BY <2>1, <2>2 DEF Warranted, SEGMENT_STATES, HUMAN_STATES
  <2> QED
    BY <2>1, <2>2, <2>3, <2>4 DEF Told
<1> QED
  BY <1>1, <1>2, <1>3, <1>4, <1>5, <1>6, LineKinds

\* What is written further on says nothing of the child runs.
LEMMA RestIsPlain ==
    ASSUME NEW r, NEW c, NEW p, NEW q \in Seq(Lines \cup {Act}), q # <<>>, Agenda(r, c, p, q),
           NEW n
    PROVE  FirstWarranted(n, c, Tail(q))
<1>1. /\ Len(q) \in Nat /\ Len(q) > 0 /\ \A i \in 1..Len(q) : q[i] \in Lines \cup {Act}
      /\ \A i \in 1..(Len(q) - 1) : Tail(q)[i] = q[i + 1]
      /\ Tail(q) = <<>> <=> Len(q) = 1
  BY TailIs
<1> SUFFICES ASSUME Tail(q) # <<>>, Tail(q)[1].rec = "prepared" PROVE Warranted(n, c, Tail(q)[1].tx)
  BY DEF FirstWarranted
<1>2. 1 \in 1..(Len(q) - 1) /\ 1 \in 1..Len(q) /\ Tail(q)[1] = q[2]
  BY <1>1
<1>3. Follows(q[1], q[2]) /\ q[1] \in Lines \cup {Act}
  BY <1>1, <1>2 DEF Agenda
<1>4. IsWait(q[2]) \/ IsPlan(q[2])
  BY <1>2, <1>3, LineKinds DEF Follows
<1> QED
  BY <1>2, <1>4 DEF IsWait, IsPlan, Warranted

LEMMA AppendTruth == ASSUME Inv, Truth, AppendLine PROVE Truth'
<1>1. /\ todo \in Seq(Lines \cup {Act}) /\ todo # <<>> /\ Head(todo) = todo[1] /\ child' = child
      /\ j' = Apply(j, todo[1]) /\ todo' = Tail(todo) /\ todo[1] # Act /\ todo[1] \in Lines \cup {Act}
  BY TailIs DEF Inv, TypeOK, AppendLine, world
<1>2. First(j, child, Served, todo[1]) /\ todo[1] \in Lines /\ Sound(j, child)
  BY <1>1 DEF Inv, Agenda
<1>3. Told(j', child)
  BY <1>1, <1>2, LineTold DEF Truth, FirstWarranted
<1>4. FirstWarranted(j', child, Tail(todo))
  BY <1>1, RestIsPlain DEF Inv
<1> QED
  BY <1>1, <1>3, <1>4 DEF Truth

\* Nothing but what there is to do has changed.
LEMMA TruthStays ==
    ASSUME Truth, j' = j, child' = child, FirstWarranted(j, child, todo') PROVE Truth'
  BY DEF Truth

\* The first line says nothing of the child runs.
Plain(q) ==
    q # <<>> /\ q[1].rec = "prepared" =>
       /\ q[1].tx.reason \notin {"segment_short", "operator_accept_short"}
       /\ q[1].tx.to # "SEGMENT_SEALED"

LEMMA PlainWarranted ==
    ASSUME Truth, j' = j, child' = child, Plain(todo') PROVE Truth'
  BY DEF Truth, Plain, FirstWarranted, Warranted

\* One step of a segment.
LEMMA SegmentTruth ==
    ASSUME Inv, Truth,
           TakePause \/ InDraft \/ InPlanned \/ InSegmentPrepare \/ InPolicyStop \/ InPolicyStart
           \/ InPolicyReady \/ InSegmentSealed \/ InAnalyzing \/ DropAnswer
    PROVE  Truth'
<1>1. j' = j /\ child' = child
  BY DEF Does, world, TakePause, InDraft, InPlanned, InSegmentPrepare, InPolicyStop, InPolicyStart,
     InPolicyReady, InSegmentSealed, InAnalyzing, DropAnswer
<1>2. Plain(todo')
  <2>1. CASE TakePause
    BY <2>1 DEF TakePause, Does, PauseNote, Plain
  <2>2. CASE InDraft
    BY <2>2 DEF InDraft, Does, Move, Prepare, Plain
  <2>3. CASE InPlanned
    BY <2>3 DEF InPlanned, Does, Move, Prepare, Plain
  <2>4. CASE InSegmentPrepare
    BY <2>4 DEF InSegmentPrepare, Does, Move, Prepare, Plain
  <2>5. CASE InPolicyStop
    BY <2>5 DEF InPolicyStop, Does, Move, WithAct, Prepare, Plain
  <2>6. CASE InPolicyStart
    BY <2>6 DEF InPolicyStart, Does, Move, WithAct, Prepare, Plain
  <2>7. CASE InPolicyReady
    BY <2>7 DEF InPolicyReady, Does, ToHuman, Move, Prepare, Plain
  <2>8. CASE InSegmentSealed
    BY <2>8 DEF InSegmentSealed, Does, ToHuman, Move, Prepare, Plain
  <2>9. CASE InAnalyzing
    BY <2>9 DEF InAnalyzing, Does, Prepare, Plain
  <2>10. CASE DropAnswer
    BY <2>10 DEF DropAnswer, Does, Note, Plain
  <2> QED
    BY <2>1, <2>2, <2>3, <2>4, <2>5, <2>6, <2>7, <2>8, <2>9, <2>10
<1> QED
  BY <1>1, <1>2, PlainWarranted

\* A run found short waits for a person; a run that is over is sealed.
LEMMA RunTruth == ASSUME Inv, Truth, InArmRunning PROVE Truth'
<1> DEFINE s == j.segment
<1>1. /\ j' = j /\ child' = child /\ Advancing /\ j.state = "ARM_RUNNING"
      /\ child \in [Segments -> ChildStates]
  BY DEF InArmRunning, Does, world, Inv, TypeOK
<1>2. s \in Segments
  BY <1>1, Here, AtHand DEF SEGMENT_STATES
<1>3. CASE child[s] \in {"absent", "failed"}
  <2>1. Plain(todo')
    BY <1>3 DEF InArmRunning, Does, ToHuman, Move, Prepare, Plain
  <2> QED
    BY <1>1, <2>1, PlainWarranted
<1>4. CASE child[s] = "short" /\ ~MaySeal(s)
  <2>1. todo' = ToHuman("WAIT_HUMAN", "segment_short")
    BY <1>4 DEF InArmRunning, Does
  <2>2. todo'[1] = Prepare("WAIT_HUMAN", "segment_short", "none", "conductor", s, 1)
    BY <2>1 DEF ToHuman, Move
  <2>3. FirstWarranted(j, child, todo')
    BY <1>2, <1>4, <2>2 DEF Prepare, FirstWarranted, Warranted
  <2> QED
    BY <1>1, <2>3 DEF Truth
<1>5. CASE MaySeal(s)
  <2>1. child[s] \notin {"absent", "failed"} /\ ~(child[s] = "short" /\ ~MaySeal(s))
    BY <1>5 DEF MaySeal
  <2>2. todo'[1] = Prepare("SEGMENT_SEALED", "run_completed", "none", "conductor", s, 1)
    BY <2>1 DEF InArmRunning, Does
  <2>3. FirstWarranted(j, child, todo')
    BY <1>2, <1>5, <2>2 DEF Prepare, FirstWarranted, Warranted, MaySeal
  <2> QED
    BY <1>1, <2>3 DEF Truth
<1>6. child[s] \in {"absent", "failed", "completed", "short"}
  BY <1>1, <1>2 DEF InArmRunning, ChildStates
<1> QED
  BY <1>3, <1>4, <1>5, <1>6 DEF MaySeal

\* A person decides.
LEMMA TakenTruth ==
    ASSUME Truth, NEW q, TakeAnswer(q), Plain(q) PROVE Truth'
<1>1. j' = j /\ child' = child /\ todo' = q
  BY DEF TakeAnswer, Does, world
<1> QED
  BY <1>1, PlainWarranted

LEMMA ConfirmTruth == ASSUME Inv, Truth, InEnvConfirm PROVE Truth'
<1>1. Plain(Move("ABORTED", "operator_abort", "operator", 0)) /\ Plain(<<Note>>)
  BY DEF Move, Prepare, Note, Plain
<1>2. ASSUME NEW status, NEW verified \in BOOLEAN PROVE Plain(AfterConfirm(status, verified))
  <2>1. CASE status = "mismatch"
    BY <2>1 DEF AfterConfirm, ToHuman, Move, Prepare, Plain
  <2>2. CASE status = "not_ready"
    BY <2>2 DEF AfterConfirm, ToHuman, Move, Prepare, Plain
  <2>3. CASE status = "ready" /\ ~verified
    <3> DEFINE l == Prepare("FAULT_LOCKED", "plan_changed", "none", "conductor", j.segment, 1)
    <3>1. AfterConfirm(status, verified) = <<Note>> \o <<l, Commit>>
      BY <2>3 DEF AfterConfirm, ToHuman, Move
    <3> HIDE DEF l
    <3>2. (<<Note>> \o <<l, Commit>>)[1] = Note
      OBVIOUS
    <3> QED
      BY <3>1, <3>2 DEF Plain, Note
  <2>4. CASE status \notin {"mismatch", "not_ready"} /\ ~(status = "ready" /\ ~verified)
    BY <2>4 DEF AfterConfirm, ToHuman, Move, WithAct, Prepare, Plain
  <2> QED
    BY <2>1, <2>2, <2>3, <2>4
<1> QED
  BY <1>1, <1>2, TakenTruth DEF InEnvConfirm

LEMMA PersonTruth == ASSUME Inv, Truth, WaitingForPerson PROVE Truth'
<1>1. Plain(Move("ABORTED", "operator_abort", "operator", 0)) /\ Plain(<<Note>>)
  BY DEF Move, Prepare, Note, Plain
<1>2. ASSUME NEW relaunch \in BOOLEAN, NEW accept \in BOOLEAN, TakeAnswer(Resume(relaunch, accept))
      PROVE  Truth'
  <2> DEFINE to == ResumeTarget(relaunch)
             short == j.waitReason = "segment_short" /\ to = "ARM_RUNNING" /\ accept
             why == IF short THEN "operator_accept_short" ELSE "operator_resume"
             s == IF to = "ANALYZING" THEN 0 ELSE NextSegment(j)
             l == Prepare(to, why, "none", "operator", s, 1)
  <2>1. Resume(relaunch, accept) = <<l, Commit>>
    BY DEF Resume, Move
  <2>2. j' = j /\ child' = child /\ todo' = <<l, Commit>> /\ Advancing
    BY <1>2, <2>1 DEF TakeAnswer, Does, world
  <2>3. to \in {"ANALYZING", "ARM_RUNNING", "SEGMENT_PREPARE"}
    BY DEF ResumeTarget
  <2>4. ASSUME short PROVE s \in Segments /\ child[s] = "short"
    <3>1. s = NextSegment(j) /\ s <= SegmentCount /\ Launched(j, s)
      BY <2>4 DEF ResumeTarget
    <3>2. PICK m \in SegmentOrNone : InOrder(j, m)
      BY <2>2, AtHand DEF Order
    <3>3. s = m + 1 /\ m \in Nat
      BY <3>1, <3>2, NextIs DEF InOrder, SegmentOrNone
    <3>4. s \in Segments
      BY <3>1, <3>3 DEF Segments
    <3>5. s = j.segment
      BY <3>1, <3>2, <3>4 DEF InOrder
    <3> QED
      BY <2>4, <3>4, <3>5 DEF Truth, Told
  <2>5. /\ l.rec = "prepared" /\ l.tx.to = to /\ l.tx.segment = s
        /\ l.tx.reason = why
    BY DEF Prepare
  <2> HIDE DEF l
  <2>6. FirstWarranted(j, child, <<l, Commit>>)
    BY <2>3, <2>4, <2>5 DEF FirstWarranted, Warranted
  <2> QED
    BY <2>2, <2>6 DEF Truth
<1> QED
  BY <1>1, <1>2, TakenTruth DEF WaitingForPerson

\* What a side effect found is written first.
LEMMA ActTruth ==
    ASSUME Inv, Truth, StopPolicy \/ StartPolicy \/ LaunchRun \/ WriteReport PROVE Truth'
<1>1. Acting /\ j' = j
  BY DEF StopPolicy, StartPolicy, LaunchRun, WriteReport, Acted
<1>2. /\ child \in [Segments -> ChildStates]
      /\ \/ child' = child
         \/ /\ Kind = "launch_run"
            /\ child' = [child EXCEPT ![j.segment] = "running"]
  BY DEF StopPolicy, StartPolicy, LaunchRun, WriteReport, world, Inv, TypeOK
<1>3. \A s \in Segments : child[s] \in {"short", "completed"} => child'[s] = child[s]
  BY <1>1, <1>2, ActingIs DEF Launching, Kind
<1>4. Plain(todo')
  <2>1. ASSUME NEW e \in Executed, NEW to, NEW reason
        PROVE  Plain(<<Ack(e), Abort>> \o ToHuman(to, reason))
    <3> DEFINE l == Prepare(to, reason, "none", "conductor", j.segment, 1)
    <3>1. ToHuman(to, reason) = <<l, Commit>>
      BY DEF ToHuman, Move
    <3> HIDE DEF l
    <3>2. (<<Ack(e), Abort>> \o <<l, Commit>>)[1] = Ack(e)
      OBVIOUS
    <3> QED
      BY <3>1, <3>2 DEF Plain, Ack
  <2>2. ASSUME NEW e \in Executed PROVE Plain(<<Ack(e), Commit>>) /\ Plain(<<Ack(e), Abort, Note>>)
    BY DEF Plain, Ack
  <2>3. {"yes", "no"} \subseteq Executed
    BY DEF Executed
  <2>4. ASSUME NEW ours, NEW a \in HostAnswers(ours), NEW failed
        PROVE  Plain(AfterHost(a.executed, a.mismatch, failed))
    <3>1. a.executed \in Executed /\ a.mismatch \in BOOLEAN
      BY DEF HostAnswers
    <3> QED
      BY <2>1, <2>2, <2>3, <3>1 DEF AfterHost
  <2>5. CASE StopPolicy
    BY <2>4, <2>5 DEF StopPolicy
  <2>6. CASE StartPolicy
    BY <2>4, <2>6 DEF StartPolicy
  <2>7. CASE LaunchRun
    BY <2>1, <2>2, <2>3, <2>7 DEF LaunchRun
  <2>8. CASE WriteReport
    BY <2>2, <2>3, <2>8 DEF WriteReport
  <2> QED
    BY <2>5, <2>6, <2>7, <2>8
<1>5. FirstWarranted(j, child, todo')
  BY <1>4 DEF Plain, FirstWarranted, Warranted
<1>6. Told(j, child') /\ FirstWarranted(j, child', todo')
  BY <1>3, <1>5, OverStays DEF Truth, Inv, TypeOK
<1> QED
  BY <1>1, <1>6 DEF Truth

\* The conductor comes and goes; runs go on.
LEMMA OtherTruth ==
    ASSUME Inv, Truth,
           \/ Ask \/ Close \/ Crash \/ Attach \/ PersonAnswers \/ PortChanges \/ UNCHANGED vars
           \/ \E s \in Segments : ChildMoves(s)
    PROVE  Truth'
<1>1. CASE Ask \/ Close \/ PersonAnswers \/ PortChanges \/ UNCHANGED vars
  <2>1. j' = j /\ child' = child /\ todo' = todo
    BY <1>1 DEF Ask, Close, PersonAnswers, PortChanges, vars, world
  <2> QED
    BY <2>1 DEF Truth
<1>2. CASE Crash
  <2>1. j' = j /\ child' = child /\ todo' = <<>>
    BY <1>2 DEF Crash, world
  <2> QED
    BY <2>1 DEF Truth, FirstWarranted
<1>3. CASE Attach
  <2>1. j' = j /\ child' = child /\ todo' = Recovery /\ j.state \notin TERMINAL
    BY <1>3 DEF Attach, world
  <2>2. Recovery[1].rec = "prepared" => IsWait(Recovery[1]) \/ IsPlan(Recovery[1])
    BY <2>1, RecoverySteps DEF Inv, Sound
  <2>3. Plain(Recovery)
    BY <2>2 DEF Plain, IsWait, IsPlan
  <2> QED
    BY <2>1, <2>3, PlainWarranted
<1>4. ASSUME NEW x \in Segments, ChildMoves(x) PROVE Truth'
  <2>1. /\ j' = j /\ todo' = todo /\ child \in [Segments -> ChildStates]
        /\ child[x] \in {"running", "failed"}
        /\ \E c \in ChildStates : child' = [child EXCEPT ![x] = c]
    BY <1>4 DEF ChildMoves, Inv, TypeOK, ChildStates
  <2>2. \A s \in Segments : child[s] \in {"short", "completed"} => child'[s] = child[s]
    BY <2>1
  <2>3. Told(j, child') /\ FirstWarranted(j, child', todo)
    BY <2>2, OverStays DEF Truth, Inv, TypeOK
  <2> QED
    BY <2>1, <2>3 DEF Truth
<1> QED
  BY <1>1, <1>2, <1>3, <1>4

LEMMA InitTruth == ASSUME Init PROVE Truth
  BY DEF Init, Blank, Truth, Told, FirstWarranted

LEMMA NextTruth == ASSUME Inv, Truth, [Next]_vars PROVE Truth'
  BY AppendTruth, SegmentTruth, RunTruth, ConfirmTruth, PersonTruth, ActTruth, OtherTruth
     DEF Next, Conducts
-----------------------------------------------------------------------------
(* The steps of the plan. *)

StageOf == [s \in Segments |-> Stage(s)]

LEMMA Staging == \A s \in Segments : StageOf[s] = Stage(s) /\ StageOf'[s] = Stage(s)'
  BY DEF StageOf

\* Where neither a run nor what is sealed, accepted and ended changes.
LEMMA Same ==
    ASSUME j'.sealed = j.sealed, j'.short = j.short, child' = child, End' = End
    PROVE  UNCHANGED <<StageOf, End>>
<1>1. \A s \in Segments : Stage(s)' = Stage(s)
  BY DEF Stage
<1> QED
  BY <1>1 DEF StageOf

LEMMA SameEnd == j'.state = j.state => End' = End
  BY DEF End

\* One segment goes to another stage.
LEMMA OneGoes ==
    ASSUME NEW x \in Segments, \A s \in Segments \ {x} : Stage(s)' = Stage(s)
    PROVE  StageOf' = [StageOf EXCEPT ![x] = Stage(x)']
  BY DEF StageOf

LEMMA PlanGoes ==
    ASSUME NEW s \in Segments,
           Plan!Start(s) \/ Plan!Fail(s) \/ Plan!GoOn(s) \/ Plan!Finish(s) \/ Plan!Accept(s) \/ Plan!Seal(s)
    PROVE  Plan!Next
<1>1. s \in 1..SegmentCount
  BY DEF Segments
<1>2. ASSUME NEW from, NEW to, to \notin from, Plan!Goes(s, from, to)
      PROVE  StageOf'[s] # StageOf[s]
  <2>1. StageOf[s] \in from /\ StageOf' = [StageOf EXCEPT ![s] = to] /\ s \in DOMAIN StageOf
    BY <1>2 DEF Plan!Goes, StageOf
  <2> QED
    BY <1>2, <2>1
<1>3. StageOf'[s] # StageOf[s]
  BY <1>2 DEF Plan!Start, Plan!Fail, Plan!GoOn, Plan!Finish, Plan!Accept, Plan!Seal
<1> QED
  BY <1>1, <1>3, Zenon DEF Plan!Next, StageOf

\* A commit that seals or accepts a segment, or ends the campaign.
LEMMA CommitSteps ==
    ASSUME Inv, Truth, AppendLine, Head(todo).rec = "committed"
    PROVE  Plan!Next \/ UNCHANGED <<StageOf, End>>
<1> DEFINE l == todo[1]  t == j.open  x == t.segment
<1>1. /\ l \in Lines \cup {Act} /\ l.rec = "committed" /\ j' = Apply(j, l) /\ child' = child
      /\ todo # <<>> /\ l \in Lines
  BY TailIs DEF Inv, TypeOK, AppendLine, world, Lines, Act
<1>2. l.unplanned \in Nat /\ j' = AfterCommit(j, l.unplanned)
  BY <1>1, LineKinds DEF Apply
<1>3. j \in Replays /\ t # NoTx /\ t \in Transactions /\ Fits(j, t) /\ Order(j) /\ Warranted(j, child, t)
  BY <1>1 DEF Inv, Sound, Agenda, First, MayCommit, OpenFits, Replays, Truth, Told
<1>4. /\ j'.state = t.to
      /\ j'.short = IF t.reason = "operator_accept_short" THEN j.short \cup {x} ELSE j.short
      /\ j'.sealed = IF t.to = "SEGMENT_SEALED" THEN j.sealed \cup {x} ELSE j.sealed
  BY <1>2, <1>3, CommitFields
<1>5. j.state \notin TERMINAL /\ End = "open"
  BY <1>3 DEF Fits, Allowed, TERMINAL, End
<1>6. /\ t.to = "REPORTED" => End' = "reported"
      /\ t.to = "ABORTED" => End' = "aborted"
      /\ t.to \notin TERMINAL => End' = "open"
  BY <1>4 DEF End, TERMINAL
<1>7. /\ t.to \in TERMINAL => t.reason # "operator_accept_short"
      /\ t.to \in SEGMENT_STATES \ {"SEGMENT_PREPARE"} => x \notin j.sealed
      /\ t.to = "SEGMENT_SEALED" \/ t.reason = "operator_accept_short" => x \in Segments
      /\ t.reason = "operator_accept_short" => t.to = "ARM_RUNNING"
  BY <1>3 DEF Fits, OfSegment, SegmentFits, TERMINAL, SEGMENT_STATES
<1> HIDE DEF l, t, x
<1>8. CASE t.to = "SEGMENT_SEALED"
  <2>0. PICK y \in Segments : y = x
    BY <1>7, <1>8
  <2>1. \A s \in Segments \ {y} : Stage(s)' = Stage(s)
    BY <2>0, <1>1, <1>4, <1>7, <1>8 DEF Stage
  <2>2. Stage(y)' = "sealed" /\ Stage(y) \in {"full", "accepted"}
    BY <2>0, <1>1, <1>3, <1>4, <1>7, <1>8 DEF Stage, Warranted, SEGMENT_STATES, x
  <2>3. End' = End
    BY <1>5, <1>6, <1>8 DEF TERMINAL
  <2>4. StageOf[y] \in {"full", "accepted"} /\ StageOf' = [StageOf EXCEPT ![y] = "sealed"]
    BY <1>7, <1>8, <2>1, <2>2, OneGoes, Staging
  <2>5. Plan!Seal(y)
    BY <1>5, <2>3, <2>4 DEF Plan!Seal, Plan!Goes, StageOf
  <2> QED
    BY <1>7, <1>8, <2>5, PlanGoes
<1>9. CASE t.reason = "operator_accept_short"
  <2>0. PICK y \in Segments : y = x
    BY <1>7, <1>9
  <2>1. t.to = "ARM_RUNNING" /\ y \in Segments /\ y \notin j.sealed /\ child[y] = "short"
    BY <2>0, <1>3, <1>7, <1>9 DEF Warranted, SEGMENT_STATES, x
  <2>2. j'.sealed = j.sealed /\ j'.short = j.short \cup {y} /\ End' = End
    BY <2>0, <1>4, <1>5, <1>6, <1>9, <2>1 DEF TERMINAL
  <2>3. CASE y \in j.short
    BY <1>1, <2>2, <2>3, Same
  <2>4. CASE y \notin j.short
    <3>1. \A s \in Segments \ {y} : Stage(s)' = Stage(s)
      BY <2>0, <1>1, <2>2 DEF Stage
    <3>2. Stage(y)' = "accepted" /\ Stage(y) = "short"
      BY <2>0, <1>1, <2>1, <2>2, <2>4 DEF Stage
    <3>3. StageOf[y] = "short" /\ StageOf' = [StageOf EXCEPT ![y] = "accepted"]
      BY <2>1, <3>1, <3>2, OneGoes, Staging
    <3>4. Plan!Accept(y)
      BY <1>5, <2>2, <3>3 DEF Plan!Accept, Plan!Goes, StageOf
    <3> QED
      BY <2>1, <3>4, PlanGoes
  <2> QED
    BY <2>3, <2>4
<1>10. CASE t.to \in TERMINAL
  <2>1. j'.sealed = j.sealed /\ j'.short = j.short
    BY <1>4, <1>7, <1>10 DEF TERMINAL
  <2>2. UNCHANGED StageOf
    <3>1. \A s \in Segments : Stage(s)' = Stage(s)
      BY <1>1, <2>1 DEF Stage
    <3> QED
      BY <3>1 DEF StageOf
  <2>3. CASE t.to = "ABORTED"
    BY <1>5, <1>6, <2>2, <2>3 DEF Plan!Next, Plan!Abort, StageOf
  <2>4. CASE t.to = "REPORTED"
    <3>1. j.state = "ANALYZING"
      BY <1>3, <2>4 DEF Fits, Allowed, FORWARD, RESUME_TARGETS, Replays, CAMPAIGN_STATES, SEGMENT_STATES,
         HUMAN_STATES, TERMINAL
    <3>2. j.sealed = Segments
      BY <1>3, <3>1 DEF Order, InOrder, Segments
    <3>3. \A s \in 1..SegmentCount : StageOf[s] = "sealed"
      BY <3>2, Staging DEF Stage, Segments
    <3> QED
      BY <1>5, <1>6, <2>2, <2>4, <3>3 DEF Plan!Next, Plan!Report, StageOf
  <2> QED
    BY <1>10, <2>3, <2>4 DEF TERMINAL
<1>11. CASE t.to \notin TERMINAL \cup {"SEGMENT_SEALED"} /\ t.reason # "operator_accept_short"
  BY <1>1, <1>4, <1>5, <1>6, <1>11, Same
<1> QED
  BY <1>8, <1>9, <1>10, <1>11

LEMMA OtherLines ==
    ASSUME Inv, AppendLine, Head(todo).rec # "committed"
    PROVE  UNCHANGED <<StageOf, End>>
<1> DEFINE l == todo[1]
<1>1. /\ l \in Lines \cup {Act} /\ l # Act /\ l.rec # "committed" /\ j' = Apply(j, l)
      /\ child' = child /\ j \in Replays
  BY TailIs DEF Inv, TypeOK, AppendLine, world
<1>2. j'.sealed = j.sealed /\ j'.short = j.short /\ j'.state = j.state
  <2>1. CASE l.rec = "prepared"
    BY <1>1, <2>1, LineKinds, PrepareFields DEF Apply
  <2>2. CASE l.rec = "acknowledged"
    BY <1>1, <2>2, LineKinds, AckFields DEF Apply
  <2>3. CASE l.rec = "aborted"
    BY <1>1, <2>3, AbortFields DEF Apply
  <2>4. CASE l.rec = "note"
    <3>1. j' = [j EXCEPT !.pause = @ \/ l.pause]
      BY <1>1, <2>4 DEF Apply
    <3> QED
      BY <1>1, <3>1 DEF Replays
  <2> QED
    BY <1>1, <2>1, <2>2, <2>3, <2>4, LineKinds
<1> QED
  BY <1>1, <1>2, Same, SameEnd

\* A launch starts the next segment of the plan, or nothing.
LEMMA LaunchStarts ==
    ASSUME Inv, LaunchRun PROVE Plan!Next \/ UNCHANGED <<StageOf, End>>
<1>1. /\ Acting /\ Launching(j) /\ j' = j /\ child \in [Segments -> ChildStates]
      /\ child' \in {child, [child EXCEPT ![j.segment] = "running"]}
  BY ActingIs DEF LaunchRun, Acted, Launching, Kind, Inv, TypeOK
<1>2. PICK s \in Segments : s = j.segment
  BY <1>1, ActingIs
<1>3. child[s] = "absent" /\ j.state = "ENV_CONFIRM" /\ Order(j)
  BY <1>1, <1>2, ActingIs DEF Fits, ActionsOf, Launching, Sound
<1>4. PICK m \in SegmentOrNone : InOrder(j, m)
  BY <1>3 DEF Order
<1>5. j.sealed = 1..m /\ s = m + 1 /\ m \in Nat
  BY <1>2, <1>3, <1>4 DEF InOrder, SEGMENT_STATES, SegmentOrNone
<1>6. CASE child' = child
  BY <1>1, <1>6, Same, SameEnd
<1>7. CASE child' = [child EXCEPT ![s] = "running"]
  <2>1. \A r \in Segments \ {s} : Stage(r)' = Stage(r)
    BY <1>1, <1>7 DEF Stage
  <2>2. Stage(s) = "planned" /\ Stage(s)' = "running"
    BY <1>1, <1>3, <1>5, <1>7 DEF Stage
  <2>3. StageOf[s] = "planned" /\ StageOf' = [StageOf EXCEPT ![s] = "running"]
    BY <2>1, <2>2, OneGoes, Staging
  <2>4. \A r \in 1..(s - 1) : StageOf[r] = "sealed"
    <3>1. ASSUME NEW r \in 1..(s - 1) PROVE r \in Segments /\ r \in j.sealed
      <4>1. s \in Int /\ s >= 1 /\ s <= SegmentCount /\ SegmentCount \in Nat
        BY <1>2, SegmentCountAssumption DEF Segments
      <4>2. r \in Int /\ r >= 1 /\ r <= s - 1
        BY <4>1
      <4> QED
        BY <1>5, <4>1, <4>2 DEF Segments
    <3> QED
      BY <3>1, Staging DEF Stage
  <2>5. End = "open" /\ End' = End
    BY <1>1, <1>3, SameEnd DEF End
  <2>6. Plan!Start(s)
    BY <2>3, <2>4, <2>5 DEF Plan!Start, Plan!Goes, StageOf
  <2> QED
    BY <2>6, PlanGoes
<1> QED
  BY <1>1, <1>2, <1>6, <1>7

\* A run of its own.
LEMMA RunGoes ==
    ASSUME Inv, Truth, NEW s \in Segments, ChildMoves(s)
    PROVE  Plan!Next \/ UNCHANGED <<StageOf, End>>
<1>1. /\ j' = j /\ child \in [Segments -> ChildStates]
      /\ \/ child[s] = "running" /\ child' \in {[child EXCEPT ![s] = c] : c \in {"failed", "completed", "short"}}
         \/ child[s] = "failed" /\ child' = [child EXCEPT ![s] = "running"]
  BY DEF ChildMoves, Inv, TypeOK
<1>2. End' = End /\ j.short \subseteq Segments
  BY <1>1, SameEnd DEF Inv, TypeOK, Replays
<1>3. s \notin j.short
  BY <1>1 DEF Truth, Told
<1>4. \A r \in Segments \ {s} : Stage(r)' = Stage(r)
  BY <1>1 DEF Stage
<1>5. StageOf' = [StageOf EXCEPT ![s] = Stage(s)']
  BY <1>4, OneGoes
<1>6. CASE s \in j.sealed
  <2>1. \A r \in Segments : Stage(r)' = Stage(r)
    BY <1>1, <1>4, <1>6 DEF Stage
  <2> QED
    BY <1>2, <2>1 DEF StageOf
<1>7. CASE s \notin j.sealed /\ child[s] = "running"
  <2>1. StageOf[s] = "running" /\ Stage(s)' \in {"failed", "full", "short"}
    BY <1>1, <1>3, <1>7, Staging DEF Stage
  <2>2. Plan!Fail(s) \/ Plan!Finish(s)
    BY <1>2, <1>5, <2>1 DEF Plan!Fail, Plan!Finish, Plan!Goes, StageOf
  <2> QED
    BY <2>2, PlanGoes
<1>8. CASE s \notin j.sealed /\ child[s] = "failed"
  <2>1. StageOf[s] = "failed" /\ Stage(s)' = "running"
    BY <1>1, <1>3, <1>8, Staging DEF Stage
  <2>2. Plan!GoOn(s)
    BY <1>2, <1>5, <2>1 DEF Plan!GoOn, Plan!Goes, StageOf
  <2> QED
    BY <2>2, PlanGoes
<1> QED
  BY <1>1, <1>6, <1>7, <1>8

\* Every step is one of the plan's, or nothing the plan tells has changed.
LEMMA StepRefines ==
    ASSUME Inv, Truth, [Next]_vars PROVE Plan!Next \/ UNCHANGED <<StageOf, End>>
<1>1. ASSUME j' = j, child' = child PROVE UNCHANGED <<StageOf, End>>
  BY <1>1, Same, SameEnd
<1>2. ASSUME TakePause \/ InDraft \/ InPlanned \/ InSegmentPrepare \/ InPolicyStop \/ InPolicyStart
             \/ InPolicyReady \/ Ask \/ DropAnswer \/ InEnvConfirm \/ WaitingForPerson
             \/ InArmRunning \/ InSegmentSealed \/ InAnalyzing
      PROVE  j' = j /\ child' = child
  BY <1>2 DEF Does, world, TakeAnswer, TakePause, InDraft, InPlanned, InSegmentPrepare, InPolicyStop,
     InPolicyStart, InPolicyReady, Ask, DropAnswer, InEnvConfirm, WaitingForPerson, InArmRunning,
     InSegmentSealed, InAnalyzing
<1>3. ASSUME StopPolicy \/ StartPolicy \/ WriteReport \/ Close \/ Crash \/ Attach \/ PersonAnswers
             \/ PortChanges \/ UNCHANGED vars
      PROVE  j' = j /\ child' = child
  BY <1>3 DEF world, vars, StopPolicy, StartPolicy, WriteReport, Close, Crash, Attach, PersonAnswers,
     PortChanges, Acted
<1> QED
  BY <1>1, <1>2, <1>3, CommitSteps, OtherLines, LaunchStarts, RunGoes DEF Next, Conducts
-----------------------------------------------------------------------------
\* The campaign does what its plan says, whatever crashes in between.
THEOREM Refines == Spec => ImplementsPlan
<1>1. Init => Plan!Init
  <2>1. ASSUME Init PROVE StageOf = [s \in 1..SegmentCount |-> "planned"] /\ End = "open"
    BY <2>1 DEF Init, Blank, Stage, StageOf, End, Segments
  <2> QED
    BY <2>1 DEF Plan!Init, StageOf
<1>2. Inv /\ Truth /\ [Next]_vars => [Plan!Next]_<<StageOf, End>>
  BY StepRefines
<1>3. Init => Truth
  BY InitTruth
<1>4. Inv /\ Truth /\ [Next]_vars => Truth'
  BY NextTruth
<1>5. [Plan!Next]_<<StageOf, End>> => [Plan!Next]_(Plan!vars)
  BY DEF Plan!vars, StageOf
<1> QED
  BY <1>1, <1>2, <1>3, <1>4, <1>5, Invariant, PTL DEF Spec, ImplementsPlan, Plan!Spec
=============================================================================
