---------------------------- MODULE CampaignProofs ----------------------------
(***************************************************************************)
(* Proofs about Campaign: the journal never refuses the conductor a line,  *)
(* no child run is started twice or on another arm's policy, nothing moves *)
(* before a person answers and an answer counts only for its question, for *)
(* every plan, number of segments and limit.                               *)
(*                                                                         *)
(* The parts of the invariant are operators of a journal r, the child runs *)
(* c, the arms p that may be served and an agenda q, so that a step that   *)
(* leaves some of them alone leaves what is said of them alone.            *)
(***************************************************************************)
EXTENDS Campaign, CampaignRulesProofs, SequenceTheorems

USE SegmentCountAssumption, MaxFaultsAssumption, ArmsAssumption

\* The segments are sealed in order, and where the campaign is says how many.
InOrder(r, m) ==
    /\ r.sealed = 1..m
    /\ r.state \in {"DRAFT", "PLANNED"} => m = 0
    /\ r.state \in SEGMENT_STATES \ {"SEGMENT_SEALED"} => r.segment = m + 1
    /\ r.state = "SEGMENT_SEALED" => r.segment = m /\ m # 0
    /\ r.state \in {"ANALYZING", "REPORTED"} => m = SegmentCount
    /\ \A s \in Segments : Launched(r, s) => s = r.segment /\ s = m + 1
Order(r) == \E m \in SegmentOrNone : InOrder(r, m)

\* MayPrepare, less what a launch adds: it holds of an open transaction too.
Fits(r, t) ==
    /\ Allowed(r.state, t.to)
    /\ t.kind \in ActionsOf(r.state, t.to)
    /\ MayDecide(r, t)
    /\ t.to = "ANALYZING" => r.sealed = Segments
    /\ SegmentFits(r, t)
    /\ OfSegment(t)
    /\ t.kind = "none" => t.attempt = 1
OpenFits(r) == r.open # NoTx => Fits(r, r.open)

\* A launch is closed unless it is open, and what was executed is there.
Closed(r, c) ==
    /\ \A s \in Segments : r.launches[s].n > 0 =>
          /\ r.launches[s].closed \/ (Launching(r) /\ r.open.segment = s)
          /\ r.launches[s].committed \/ r.launches[s].executed = "yes" => c[s] # "absent"
    /\ \A key \in r.attempted : key[2] <= r.launches[key[1]].n

Sound(r, c) == r \in Replays /\ Order(r) /\ OpenFits(r) /\ Closed(r, c)

\* The first thing to do suits the journal,
First(r, c, p, l) ==
    CASE l.rec = "prepared" ->
            /\ r.open = NoTx /\ Fits(r, l.tx)
            /\ l.tx.kind = "launch_run" =>
                  NotRepeated(r, l.tx) /\ c[l.tx.segment] = "absent" /\ ArmOf[l.tx.segment] \in p
      [] l.rec = "committed" ->
            MayCommit(r) /\ (Launching(r) => c[r.open.segment] # "absent")
      [] l.rec = "aborted" -> r.open # NoTx
      [] l.rec = "acknowledged" ->
            /\ r.open # NoTx /\ r.ack = "none"
            /\ l.executed = "yes" /\ Launching(r) => c[r.open.segment] # "absent"
      [] l.rec = "note" -> r.open = NoTx
      [] l.rec = "act" ->
            /\ r.open # NoTx /\ r.open.kind # "none" /\ r.ack = "none"
            /\ Launching(r) => c[r.open.segment] = "absent" /\ ArmOf[r.open.segment] \in p

\* and each thing the one before it.
IsWait(l) ==
    /\ l.rec = "prepared" /\ l.tx.kind = "none" /\ l.tx.to \in {"WAIT_HUMAN", "FAULT_LOCKED"}
    /\ l.tx.who # "operator" /\ l.tx.reason \notin {"operator_accept_short", "segment_short"}
    /\ l.tx.attempt = 1
IsPlan(l) ==
    /\ l.rec = "prepared" /\ l.tx.kind = "none" /\ l.tx.to = "PLANNED"
    /\ l.tx.who = "conductor" /\ l.tx.reason = "plan_frozen"
    /\ l.tx.attempt = 1
Follows(a, b) ==
    CASE a.rec = "prepared"     -> b.rec = IF a.tx.kind = "none" THEN "committed" ELSE "act"
      [] a.rec = "acknowledged" -> b.rec = "aborted" \/ (a.executed = "yes" /\ b.rec = "committed")
      [] a.rec = "aborted"      -> b.rec = "note" \/ IsWait(b)
      [] a.rec = "note"         -> IsWait(b) \/ IsPlan(b)
      [] a.rec = "committed"    -> IsWait(b)
      [] a.rec = "act"          -> FALSE

\* What waits further on can be prepared when it comes.
Later(r, l) ==
    /\ IsWait(l) => r.state \notin TERMINAL /\ (r.state = "FAULT_LOCKED" => l.tx.to # "WAIT_HUMAN")
    /\ IsPlan(l) => r.state = "DRAFT"
Agenda(r, c, p, q) ==
    /\ q # <<>> => First(r, c, p, q[1]) /\ q[Len(q)].rec \in {"committed", "act", "note"}
    /\ \A i \in 1..(Len(q) - 1) : Follows(q[i], q[i + 1])
    /\ \A i \in 2..Len(q) : Later(r, q[i])
    /\ Len(q) > 1 /\ q[1].rec = "committed" => r.open.to = "PLANNED"
    /\ \A i \in 2..(Len(q) - 1) : q[i].rec = "committed" => IsPlan(q[i - 1])

\* Until a person has decided the campaign rests, or comes to rest.
AtRest(r, q) ==
    LET ends == {"WAIT_HUMAN", "FAULT_LOCKED", "REPORTED"} IN
    /\ r.state \in REST_STATES \cup TERMINAL
    /\ r.open # NoTx => r.open.to \in ends
    /\ q # <<>> /\ q[1].rec = "prepared" => q[1].tx.to \in ends
ComesToRest(r, q) ==
    \/ Len(q) > 1 /\ IsWait(q[Len(q) - 1]) /\ \A i \in 1..Len(q) : q[i].rec # "act"
    \/ Len(q) = 1 /\ q[1].rec = "committed" /\ r.open.to \in {"WAIT_HUMAN", "FAULT_LOCKED"}

\* A fresh question is of the wait the campaign is in, a fresh answer to it.
FreshIsNow ==
    /\ question # Nothing /\ question.fresh =>
          up /\ ~question.moved /\ Asking /\ \A i \in 1..Len(todo) : todo[i].rec = "note"
    /\ answer # Nothing /\ answer.fresh => question # Nothing /\ question.fresh /\ ~answer.moved

\* What the port may serve when the act to come is done, for all the conductor
\* has seen: what it served at the decision, or anything.
Served == IF disturbed THEN Arms ELSE {port}

Inv ==
    /\ TypeOK
    /\ Sound(j, child)
    /\ Agenda(j, child, Served, todo)
    /\ todo = <<>> /\ up => j.open = NoTx
    /\ ~up => todo = <<>>
    /\ up /\ ~answered => AtRest(j, todo) \/ ComesToRest(j, todo)
-----------------------------------------------------------------------------
(* What the rules say where the segments are in order. *)

LEMMA NextIs ==
    ASSUME NEW r, NEW m \in SegmentOrNone, r.sealed = 1..m
    PROVE  NextSegment(r) = m + 1
<1> DEFINE P(s) == s - 1 \in r.sealed \cup {0} /\ \A x \in r.sealed : x < s
<1>1. m \in Nat /\ m + 1 \in 1..(SegmentCount + 1)
  BY DEF SegmentOrNone
<1>2. P(m + 1)
  BY <1>1
<1>3. ASSUME NEW s \in 1..(SegmentCount + 1), P(s) PROVE s = m + 1
  BY <1>1, <1>3
<1> HIDE DEF P
<1>4. (CHOOSE s \in 1..(SegmentCount + 1) : P(s)) = m + 1
  BY <1>1, <1>2, <1>3
<1> QED
  BY <1>4 DEF P, NextSegment

LEMMA LineKinds ==
    ASSUME NEW l \in Lines \cup {Act}
    PROVE  /\ l.rec = "prepared" => l.tx \in Transactions
           /\ l.rec = "acknowledged" => l.executed \in Executed
           /\ l.rec = "committed" => l.unplanned \in Nat
           /\ l.rec = "note" => l.pause \in BOOLEAN
           /\ l.rec \in {"prepared", "acknowledged", "committed", "note", "aborted", "act"}
           /\ l.rec = "act" <=> l = Act
  BY DEF Lines, Act

\* The segment of a transaction that fits.
LEMMA FitsWhere ==
    ASSUME NEW r \in Replays, Order(r), NEW t \in Transactions, Fits(r, t)
    PROVE  /\ t.to \in SEGMENT_STATES => t.segment \in Segments
           /\ t.to = "SEGMENT_PREPARE" =>
                 \A m \in SegmentOrNone : InOrder(r, m) => t.segment = m + 1
           /\ t.to \in SEGMENT_STATES \ {"SEGMENT_PREPARE"} =>
                 /\ t.segment = r.segment
                 /\ \A m \in SegmentOrNone : InOrder(r, m) => t.segment = m + 1
<1>1. t.to \in SEGMENT_STATES => t.segment \in Segments
  BY DEF Fits, OfSegment
<1>2. ASSUME t.to = "SEGMENT_PREPARE", NEW m \in SegmentOrNone, InOrder(r, m)
      PROVE  t.segment = m + 1
  BY <1>2, NextIs DEF Fits, SegmentFits, InOrder
<1>3. ASSUME t.to \in SEGMENT_STATES \ {"SEGMENT_PREPARE"}
      PROVE  t.segment = r.segment /\ t.segment \notin r.sealed
             /\ (t.to = "ARM_RUNNING" /\ r.state \in HUMAN_STATES => Launched(r, t.segment))
  BY <1>3 DEF Fits, SegmentFits, SEGMENT_STATES
<1>4. ASSUME t.to \in SEGMENT_STATES \ {"SEGMENT_PREPARE"}, NEW m \in SegmentOrNone, InOrder(r, m)
      PROVE  t.segment = m + 1
  <2>1. CASE r.state \in HUMAN_STATES
    <3>1. t.to = "ARM_RUNNING"
      BY <1>4, <2>1 DEF Fits, Allowed, FORWARD, RESUME_TARGETS, HUMAN_STATES, SEGMENT_STATES
    <3> QED
      BY <1>1, <1>3, <1>4, <2>1, <3>1 DEF InOrder
  <2>2. CASE r.state \notin HUMAN_STATES
    <3>1. r.state \in SEGMENT_STATES \ {"SEGMENT_SEALED"}
      BY <1>4, <2>2 DEF Fits, Allowed, FORWARD, RESUME_TARGETS, HUMAN_STATES, SEGMENT_STATES,
         TERMINAL, Replays, CAMPAIGN_STATES
    <3> QED
      BY <1>3, <1>4, <3>1 DEF InOrder
  <2> QED
    BY <2>1, <2>2
<1> QED
  BY <1>1, <1>2, <1>3, <1>4
-----------------------------------------------------------------------------
(* Every line keeps a sound journal sound. *)

LEMMA FitsStays ==
    ASSUME NEW r \in Replays, NEW q \in Replays, NEW t \in Transactions, Fits(r, t),
           q.state = r.state, q.sealed = r.sealed, q.segment = r.segment,
           \A s \in Segments : Launched(r, s) => Launched(q, s)
    PROVE  Fits(q, t)
<1>1. Allowed(q.state, t.to) /\ t.kind \in ActionsOf(q.state, t.to) /\ MayDecide(q, t) /\ OfSegment(t)
      /\ (t.to = "ANALYZING" => q.sealed = Segments) /\ (t.kind = "none" => t.attempt = 1)
  BY DEF Fits, MayDecide
<1>2. NextSegment(q) = NextSegment(r)
  BY DEF NextSegment
<1>3. SegmentFits(q, t)
  BY <1>2 DEF Fits, SegmentFits, OfSegment
<1> QED
  BY <1>1, <1>3 DEF Fits

LEMMA LaunchTyped ==
    ASSUME NEW r \in Replays, NEW s \in Segments
    PROVE  r.launches \in [Segments -> Launches] /\ r.launches[s].n \in Nat
  BY DEF Replays, Launches

LEMMA PrepareSound ==
    ASSUME NEW r, NEW c, Sound(r, c), r.open = NoTx, NEW t \in Transactions, Fits(r, t),
           t.kind = "launch_run" => NotRepeated(r, t)
    PROVE  Sound(AfterPrepare(r, t), c)
<1> DEFINE q == AfterPrepare(r, t)
<1>1. r \in Replays /\ q \in Replays
  BY PrepareTyped DEF Sound, Fits
<1>2. /\ q.open = t /\ q.ack = "none"
      /\ q.state = r.state /\ q.segment = r.segment /\ q.sealed = r.sealed
      /\ q.attempted = IF t.to = "ARM_RUNNING"
                        THEN r.attempted \cup {<<t.segment, t.attempt>>} ELSE r.attempted
      /\ t.kind # "launch_run" => q.launches = r.launches
      /\ t.kind = "launch_run" =>
           q.launches = [r.launches EXCEPT ![t.segment] = OneMore(r.launches[t.segment])]
  BY <1>1, PrepareFields
<1> HIDE DEF q
<1>3. t.kind = "launch_run" => t.to = "ARM_RUNNING"
  BY DEF Fits, OfSegment
<1>4. t.to = "ARM_RUNNING" => t.segment \in Segments
  BY <1>1, FitsWhere DEF Sound, SEGMENT_STATES
<1>5. \A s \in Segments : q.launches[s] =
         IF t.kind = "launch_run" /\ s = t.segment THEN OneMore(r.launches[s]) ELSE r.launches[s]
  BY <1>1, <1>2, <1>3, <1>4, LaunchTyped
<1>6. \A s \in Segments : r.launches[s].n \in Nat /\ OneMore(r.launches[s]).n = r.launches[s].n + 1
  BY <1>1, LaunchTyped DEF OneMore
<1>7. PICK m \in SegmentOrNone : InOrder(r, m)
  BY DEF Sound, Order
<1>8. \A s \in Segments : Launched(r, s) => Launched(q, s)
  BY <1>5, <1>6 DEF Launched
<1>9. ASSUME NEW s \in Segments, Launched(q, s) PROVE s = r.segment /\ s = m + 1
  <2>1. CASE t.kind = "launch_run" /\ s = t.segment
    BY <1>1, <1>3, <1>7, <2>1, FitsWhere DEF Sound, SEGMENT_STATES
  <2>2. CASE ~(t.kind = "launch_run" /\ s = t.segment)
    BY <1>5, <1>7, <1>9, <2>2 DEF Launched, InOrder
  <2> QED
    BY <2>1, <2>2
<1>10. Order(q)
  BY <1>2, <1>7, <1>9 DEF Order, InOrder
<1>11. OpenFits(q)
  BY <1>1, <1>2, <1>8, FitsStays DEF OpenFits
<1>12. ASSUME NEW s \in Segments, q.launches[s].n > 0
       PROVE  /\ q.launches[s].closed \/ (Launching(q) /\ q.open.segment = s)
              /\ q.launches[s].committed \/ q.launches[s].executed = "yes" => c[s] # "absent"
  <2>1. CASE t.kind = "launch_run" /\ s = t.segment
    <3>1. q.launches[s] = OneMore(r.launches[s])
      BY <1>5, <2>1
    <3>2. Launching(q) /\ q.open.segment = s
      BY <1>2, <2>1, SomeTx DEF Launching
    <3> QED
      BY <3>1, <3>2 DEF OneMore
  <2>2. CASE ~(t.kind = "launch_run" /\ s = t.segment)
    <3>1. q.launches[s] = r.launches[s]
      BY <1>5, <2>2
    <3> QED
      BY <1>12, <3>1 DEF Sound, Closed, Launching
  <2> QED
    BY <2>1, <2>2
<1>13. ASSUME NEW key \in q.attempted PROVE key[2] <= q.launches[key[1]].n
  <2>1. CASE key \in r.attempted
    <3>1. key[1] \in Segments /\ key[2] \in Nat /\ key[2] <= r.launches[key[1]].n
      BY <1>1, <2>1 DEF Sound, Closed, Replays
    <3> QED
      BY <1>5, <1>6, <3>1
  <2>2. CASE t.to = "ARM_RUNNING" /\ key = <<t.segment, t.attempt>>
    <3>1. CASE t.kind = "launch_run"
      BY <1>4, <1>5, <1>6, <2>2, <3>1 DEF NotRepeated
    <3>2. CASE t.kind # "launch_run"
      <4>1. t.kind = "none" /\ r.state \in HUMAN_STATES
        BY <1>1, <2>2, <3>2 DEF Fits, Allowed, ActionsOf, FORWARD, Replays, CAMPAIGN_STATES,
           RESUME_TARGETS, SEGMENT_STATES, HUMAN_STATES, TERMINAL
      <4>2. Launched(r, t.segment) /\ t.attempt = 1
        BY <2>2, <4>1 DEF Fits, SegmentFits, SEGMENT_STATES
      <4> QED
        BY <1>4, <1>5, <1>6, <2>2, <3>2, <4>2 DEF Launched
    <3> QED
      BY <3>1, <3>2
  <2> QED
    BY <1>2, <2>1, <2>2
<1>14. Closed(q, c)
  BY <1>12, <1>13 DEF Closed
<1> QED
  BY <1>1, <1>10, <1>11, <1>14 DEF Sound, q

\* A line that starts no launch and moves the campaign nowhere.
LEMMA StaysInOrder ==
    ASSUME NEW r \in Replays, NEW q \in Replays, Order(r), OpenFits(r),
           q.state = r.state, q.sealed = r.sealed, q.segment = r.segment,
           \A s \in Segments : q.launches[s].n = r.launches[s].n,
           q.open \in {r.open, NoTx}
    PROVE  Order(q) /\ OpenFits(q)
<1>1. \A s \in Segments : Launched(r, s) <=> Launched(q, s)
  BY DEF Launched
<1>2. Order(q)
  BY <1>1 DEF Order, InOrder
<1>3. ASSUME q.open # NoTx PROVE Fits(q, q.open)
  <2>1. q.open = r.open /\ q.open \in Transactions
    BY <1>3 DEF Replays
  <2> QED
    BY <1>1, <1>3, <2>1, FitsStays DEF OpenFits
<1> QED
  BY <1>2, <1>3 DEF OpenFits

\* A launch that is open is of a segment.
LEMMA LaunchWhere ==
    ASSUME NEW r \in Replays, Order(r), OpenFits(r), Launching(r)
    PROVE  /\ r.open \in Transactions /\ r.open.segment \in Segments /\ r.open.to = "ARM_RUNNING"
           /\ r.open.segment = r.segment
<1>1. r.open # NoTx /\ r.open \in Transactions /\ Fits(r, r.open)
  BY DEF Launching, OpenFits, Replays
<1>2. r.open.to = "ARM_RUNNING"
  BY <1>1 DEF Fits, OfSegment, Launching
<1> QED
  BY <1>1, <1>2, FitsWhere DEF SEGMENT_STATES

LEMMA LaunchFields ==
    ASSUME NEW last \in Launches, NEW e
    PROVE  LET acked == [last EXCEPT !.executed = e]
               over == [last EXCEPT !.closed = TRUE] IN
           /\ acked.n = last.n /\ acked.executed = e
           /\ acked.closed = last.closed /\ acked.committed = last.committed
           /\ over.n = last.n /\ over.executed = last.executed
           /\ over.closed /\ over.committed = last.committed
  BY DEF Launches

LEMMA AckSound ==
    ASSUME NEW r, NEW c, Sound(r, c), r.open # NoTx, NEW e \in Executed,
           e = "yes" /\ Launching(r) => c[r.open.segment] # "absent"
    PROVE  Sound(AfterAck(r, e), c)
<1> DEFINE q == AfterAck(r, e)
<1>1. r \in Replays /\ q \in Replays
  BY AckTyped DEF Sound, OpenFits, Fits
<1>2. /\ q.open = r.open
      /\ q.state = r.state /\ q.segment = r.segment /\ q.sealed = r.sealed
      /\ q.attempted = r.attempted
      /\ q.launches = IF Launching(r) THEN [r.launches EXCEPT ![r.open.segment].executed = e]
                      ELSE r.launches
  BY <1>1, AckFields
<1> HIDE DEF q
<1>3. \A s \in Segments : q.launches[s] =
         IF Launching(r) /\ s = r.open.segment THEN [r.launches[s] EXCEPT !.executed = e]
         ELSE r.launches[s]
  BY <1>1, <1>2, LaunchTyped
<1>4. \A s \in Segments :
         /\ q.launches[s].n = r.launches[s].n /\ q.launches[s].closed = r.launches[s].closed
         /\ q.launches[s].committed = r.launches[s].committed
         /\ q.launches[s].executed =
               IF Launching(r) /\ s = r.open.segment THEN e ELSE r.launches[s].executed
  <2> SUFFICES ASSUME NEW s \in Segments
    PROVE  /\ q.launches[s].n = r.launches[s].n /\ q.launches[s].closed = r.launches[s].closed
           /\ q.launches[s].committed = r.launches[s].committed
           /\ q.launches[s].executed =
                 IF Launching(r) /\ s = r.open.segment THEN e ELSE r.launches[s].executed
    OBVIOUS
  <2>1. r.launches[s] \in Launches
    BY <1>1, LaunchTyped
  <2>2. CASE Launching(r) /\ s = r.open.segment
    <3>1. q.launches[s] = [r.launches[s] EXCEPT !.executed = e]
      BY <1>3, <2>2
    <3> QED
      BY <2>1, <2>2, <3>1, LaunchFields
  <2>3. CASE ~(Launching(r) /\ s = r.open.segment)
    BY <1>3, <2>1, <2>3
  <2> QED
    BY <2>2, <2>3
<1>5. Order(q) /\ OpenFits(q)
  BY <1>1, <1>2, <1>4, StaysInOrder DEF Sound
<1>6. Launching(q) <=> Launching(r)
  BY <1>2 DEF Launching
<1>7. ASSUME NEW s \in Segments, q.launches[s].n > 0
      PROVE  /\ q.launches[s].closed \/ (Launching(q) /\ q.open.segment = s)
             /\ q.launches[s].committed \/ q.launches[s].executed = "yes" => c[s] # "absent"
  <2>1. q.launches[s].closed \/ (Launching(q) /\ q.open.segment = s)
    BY <1>2, <1>4, <1>6, <1>7 DEF Sound, Closed
  <2>2. ASSUME q.launches[s].committed \/ q.launches[s].executed = "yes" PROVE c[s] # "absent"
    BY <1>4, <1>7, <2>2 DEF Sound, Closed
  <2> QED
    BY <2>1, <2>2
<1>8. \A key \in q.attempted : key[2] <= q.launches[key[1]].n
  BY <1>1, <1>2, <1>4 DEF Sound, Closed, Replays
<1> QED
  BY <1>1, <1>5, <1>7, <1>8 DEF Sound, Closed, q

LEMMA AbortSound ==
    ASSUME NEW r, NEW c, Sound(r, c), r.open # NoTx
    PROVE  Sound(AfterAbort(r), c)
<1> DEFINE q == AfterAbort(r)
<1>1. r \in Replays /\ q \in Replays
  BY AbortTyped DEF Sound, OpenFits, Fits
<1>2. /\ q.open = NoTx
      /\ q.state = r.state /\ q.segment = r.segment /\ q.sealed = r.sealed
      /\ q.attempted = r.attempted
      /\ q.launches = IF Launching(r) THEN [r.launches EXCEPT ![r.open.segment].closed = TRUE]
                      ELSE r.launches
  BY <1>1, AbortFields
<1> HIDE DEF q
<1>3. \A s \in Segments : q.launches[s] =
         IF Launching(r) /\ s = r.open.segment THEN [r.launches[s] EXCEPT !.closed = TRUE]
         ELSE r.launches[s]
  BY <1>1, <1>2, LaunchTyped
<1>4. \A s \in Segments :
         /\ q.launches[s].n = r.launches[s].n
         /\ q.launches[s].committed = r.launches[s].committed
         /\ q.launches[s].executed = r.launches[s].executed
         /\ r.launches[s].closed \/ (Launching(r) /\ s = r.open.segment) => q.launches[s].closed
  <2> SUFFICES ASSUME NEW s \in Segments
    PROVE  /\ q.launches[s].n = r.launches[s].n
           /\ q.launches[s].committed = r.launches[s].committed
           /\ q.launches[s].executed = r.launches[s].executed
           /\ r.launches[s].closed \/ (Launching(r) /\ s = r.open.segment) => q.launches[s].closed
    OBVIOUS
  <2>1. r.launches[s] \in Launches
    BY <1>1, LaunchTyped
  <2>2. CASE Launching(r) /\ s = r.open.segment
    BY <1>3, <2>1, <2>2, LaunchFields
  <2>3. CASE ~(Launching(r) /\ s = r.open.segment)
    BY <1>3, <2>1, <2>3
  <2> QED
    BY <2>2, <2>3
<1>5. Order(q) /\ OpenFits(q)
  BY <1>1, <1>2, <1>4, StaysInOrder DEF Sound
<1>6. ASSUME NEW s \in Segments, q.launches[s].n > 0
      PROVE  /\ q.launches[s].closed
             /\ q.launches[s].committed \/ q.launches[s].executed = "yes" => c[s] # "absent"
  BY <1>4, <1>6 DEF Sound, Closed
<1>7. \A key \in q.attempted : key[2] <= q.launches[key[1]].n
  BY <1>1, <1>2, <1>4 DEF Sound, Closed, Replays
<1> QED
  BY <1>1, <1>5, <1>6, <1>7 DEF Sound, Closed, q

LEMMA NoteSound ==
    ASSUME NEW r, NEW c, Sound(r, c), r.open = NoTx, NEW p \in BOOLEAN
    PROVE  /\ Sound([r EXCEPT !.pause = @ \/ p], c)
           /\ [r EXCEPT !.pause = @ \/ p].open = NoTx
           /\ [r EXCEPT !.pause = @ \/ p].state = r.state
           /\ [r EXCEPT !.pause = @ \/ p].waitReason = r.waitReason
<1>1. PICK both \in BOOLEAN : both = (r.pause \/ p)
  OBVIOUS
<1> DEFINE q == [r EXCEPT !.pause = both]
<1>2. [r EXCEPT !.pause = @ \/ p] = q
  BY <1>1
<1>3. r \in Replays /\ q \in Replays
  BY DEF Sound, Replays
<1>4. /\ q.open = r.open /\ q.state = r.state /\ q.segment = r.segment /\ q.sealed = r.sealed
      /\ q.launches = r.launches /\ q.attempted = r.attempted /\ q.waitReason = r.waitReason
  BY <1>3 DEF Replays
<1> HIDE DEF q
<1>5. Order(q) /\ OpenFits(q)
  BY <1>3, <1>4, StaysInOrder DEF Sound
<1>6. Closed(q, c)
  BY <1>4 DEF Sound, Closed, Launching
<1> QED
  BY <1>2, <1>3, <1>4, <1>5, <1>6 DEF Sound

LEMMA CommittedFields ==
    ASSUME NEW last \in Launches
    PROVE  LET over == [[last EXCEPT !.committed = TRUE] EXCEPT !.closed = TRUE] IN
           /\ over.n = last.n /\ over.executed = last.executed
           /\ over.closed /\ over.committed
  BY DEF Launches

\* The launches after a commit.
LEMMA CommitLaunches ==
    ASSUME NEW r \in Replays, Order(r), OpenFits(r), r.open # NoTx, NEW n \in Nat,
           NEW s \in Segments
    PROVE  LET q == AfterCommit(r, n)  sealing == r.open.to = "SEGMENT_SEALED" /\ s = r.open.segment IN
           /\ sealing => q.launches[s].n = 0
           /\ ~sealing =>
                 /\ q.launches[s].n = r.launches[s].n
                 /\ q.launches[s].executed = r.launches[s].executed
                 /\ r.launches[s].closed \/ (Launching(r) /\ s = r.open.segment) => q.launches[s].closed
                 /\ q.launches[s].committed =>
                       r.launches[s].committed \/ (Launching(r) /\ s = r.open.segment)
<1> DEFINE t == r.open  q == AfterCommit(r, n)  m == AfterMove(r)
<1>1. r.launches \in [Segments -> Launches] /\ r.launches[s] \in Launches /\ t \in Transactions
  BY DEF Replays
<1>2. m.launches = IF Launching(r)
                   THEN [r.launches EXCEPT ![t.segment].committed = TRUE, ![t.segment].closed = TRUE]
                   ELSE r.launches
  BY MoveFields
<1>3. /\ t.to # "SEGMENT_SEALED" => q.launches = m.launches
      /\ t.to = "SEGMENT_SEALED" => q.launches = [m.launches EXCEPT ![t.segment] = NotLaunched]
  BY CommitFields
<1> HIDE DEF q, m
<1>4. m.launches \in [Segments -> Launches]
  BY MoveTyped DEF OpenFits, Fits, Replays, m
<1>5. m.launches[s] = IF Launching(r) /\ s = t.segment
                      THEN [[r.launches[s] EXCEPT !.committed = TRUE] EXCEPT !.closed = TRUE]
                      ELSE r.launches[s]
  BY <1>1, <1>2
<1>6. /\ m.launches[s].n = r.launches[s].n
      /\ m.launches[s].executed = r.launches[s].executed
      /\ r.launches[s].closed \/ (Launching(r) /\ s = t.segment) => m.launches[s].closed
      /\ m.launches[s].committed => r.launches[s].committed \/ (Launching(r) /\ s = t.segment)
  <2>1. CASE Launching(r) /\ s = t.segment
    <3>1. m.launches[s] = [[r.launches[s] EXCEPT !.committed = TRUE] EXCEPT !.closed = TRUE]
      BY <1>5, <2>1
    <3> QED
      BY <1>1, <2>1, <3>1, CommittedFields
  <2>2. CASE ~(Launching(r) /\ s = t.segment)
    BY <1>5, <2>2
  <2> QED
    BY <2>1, <2>2
<1>7. CASE t.to = "SEGMENT_SEALED" /\ s = t.segment
  BY <1>3, <1>4, <1>7 DEF NotLaunched, q
<1>8. CASE ~(t.to = "SEGMENT_SEALED" /\ s = t.segment)
  <2>1. q.launches[s] = m.launches[s]
    BY <1>3, <1>4, <1>8
  <2> QED
    BY <1>6, <1>8, <2>1 DEF q
<1> QED
  BY <1>7, <1>8

\* Where the campaign is after a commit, and what is sealed.
LEMMA CommitOrder ==
    ASSUME NEW r \in Replays, Order(r), OpenFits(r), r.open # NoTx, NEW n \in Nat
    PROVE  Order(AfterCommit(r, n))
<1> DEFINE t == r.open  q == AfterCommit(r, n)
<1>1. t \in Transactions /\ Fits(r, t)
  BY DEF Replays, OpenFits
<1>2. /\ q.state = t.to
      /\ q.segment = IF t.to \in SEGMENT_STATES THEN t.segment ELSE r.segment
      /\ t.to # "SEGMENT_SEALED" => q.sealed = r.sealed
      /\ t.to = "SEGMENT_SEALED" => q.sealed = r.sealed \cup {t.segment}
  BY CommitFields
<1>3. \A s \in Segments :
         Launched(q, s) => Launched(r, s) /\ ~(t.to = "SEGMENT_SEALED" /\ s = t.segment)
  BY CommitLaunches DEF Launched
<1> HIDE DEF q
<1>4. PICK m \in SegmentOrNone : InOrder(r, m)
  BY DEF Order
<1>5. m \in Nat /\ m <= SegmentCount
  BY DEF SegmentOrNone
<1>6. /\ t.to \in SEGMENT_STATES => t.segment = m + 1 /\ t.segment \in Segments
  BY <1>1, <1>4, FitsWhere DEF SEGMENT_STATES
<1>7. CASE t.to = "SEGMENT_SEALED"
  <2>1. m + 1 \in SegmentOrNone /\ m + 1 # 0
    BY <1>5, <1>6, <1>7 DEF SEGMENT_STATES, Segments, SegmentOrNone
  <2>2. q.state = "SEGMENT_SEALED" /\ q.segment = m + 1
    BY <1>2, <1>6, <1>7 DEF SEGMENT_STATES
  <2>3. r.segment = m + 1
    BY <1>1, <1>6, <1>7, FitsWhere DEF SEGMENT_STATES
  <2>4. q.sealed = 1..(m + 1)
    <3>1. r.sealed = 1..m /\ q.sealed = r.sealed \cup {t.segment} /\ t.segment = m + 1
      BY <1>2, <1>4, <1>6, <1>7 DEF InOrder, SEGMENT_STATES
    <3>2. 1..m \cup {m + 1} = 1..(m + 1)
      BY <1>5
    <3> QED
      BY <3>1, <3>2
  <2>5. \A s \in Segments : ~Launched(q, s)
    BY <1>3, <1>4, <1>6, <1>7 DEF InOrder, SEGMENT_STATES
  <2>6. InOrder(q, m + 1)
    BY <2>1, <2>2, <2>4, <2>5 DEF InOrder, SEGMENT_STATES
  <2> QED
    BY <2>1, <2>6 DEF Order, q
<1>8. CASE t.to # "SEGMENT_SEALED"
  <2>1. q.sealed = 1..m
    BY <1>2, <1>4, <1>8 DEF InOrder
  <2>2. q.state \in {"DRAFT", "PLANNED"} => m = 0
    BY <1>1, <1>2, <1>4 DEF Fits, Allowed, FORWARD, RESUME_TARGETS, InOrder, Replays, CAMPAIGN_STATES,
       SEGMENT_STATES, TERMINAL, HUMAN_STATES
  <2>3. q.state \in SEGMENT_STATES \ {"SEGMENT_SEALED"} => q.segment = m + 1
    BY <1>2, <1>6
  <2>4. q.state \in {"ANALYZING", "REPORTED"} => m = SegmentCount
    <3>1. t.to = "ANALYZING" => m = SegmentCount
      BY <1>1, <1>4, <1>5 DEF Fits, InOrder, Segments
    <3>2. t.to = "REPORTED" => r.state = "ANALYZING"
      BY <1>1 DEF Fits, Allowed, FORWARD, RESUME_TARGETS, Replays, CAMPAIGN_STATES,
         SEGMENT_STATES, TERMINAL, HUMAN_STATES
    <3> QED
      BY <1>2, <1>4, <3>1, <3>2 DEF InOrder
  <2>5. \A s \in Segments : Launched(q, s) => s = q.segment /\ s = m + 1
    BY <1>2, <1>3, <1>4, <1>6 DEF InOrder
  <2>6. q.state # "SEGMENT_SEALED"
    BY <1>2, <1>8
  <2>7. InOrder(q, m)
    BY <2>1, <2>2, <2>3, <2>4, <2>5, <2>6 DEF InOrder
  <2> QED
    BY <2>7 DEF Order, q
<1> QED
  BY <1>7, <1>8 DEF q

LEMMA CommitSound ==
    ASSUME NEW r, NEW c, Sound(r, c), r.open # NoTx, NEW n \in Nat,
           Launching(r) => c[r.open.segment] # "absent"
    PROVE  Sound(AfterCommit(r, n), c) /\ AfterCommit(r, n).open = NoTx
                                       /\ AfterCommit(r, n).state = r.open.to
<1> DEFINE t == r.open  q == AfterCommit(r, n)
<1>1. r \in Replays /\ Order(r) /\ OpenFits(r) /\ Closed(r, c) /\ OfSegment(t)
  BY DEF Sound, OpenFits, Fits
<1>2. q \in Replays /\ Order(q)
  BY <1>1, CommitTyped, CommitOrder
<1>3. /\ q.open = NoTx /\ q.state = t.to
      /\ t.to # "SEGMENT_SEALED" => q.attempted = r.attempted
      /\ t.to = "SEGMENT_SEALED" => q.attempted = {key \in r.attempted : key[1] # t.segment}
  BY <1>1, CommitFields
<1>4. ASSUME NEW s \in Segments
      PROVE  /\ t.to = "SEGMENT_SEALED" /\ s = t.segment => q.launches[s].n = 0
             /\ ~(t.to = "SEGMENT_SEALED" /\ s = t.segment) =>
                   /\ q.launches[s].n = r.launches[s].n
                   /\ q.launches[s].executed = r.launches[s].executed
                   /\ r.launches[s].closed \/ (Launching(r) /\ s = t.segment) => q.launches[s].closed
                   /\ q.launches[s].committed =>
                         r.launches[s].committed \/ (Launching(r) /\ s = t.segment)
  BY <1>1, CommitLaunches
<1> HIDE DEF q
<1>5. OpenFits(q)
  BY <1>3 DEF OpenFits
<1>6. ASSUME NEW s \in Segments, q.launches[s].n > 0
      PROVE  /\ q.launches[s].closed
             /\ q.launches[s].committed \/ q.launches[s].executed = "yes" => c[s] # "absent"
  <2>1. ~(t.to = "SEGMENT_SEALED" /\ s = t.segment)
    BY <1>4, <1>6
  <2>2. r.launches[s].n > 0
    BY <1>4, <1>6, <2>1
  <2>3. q.launches[s].closed
    BY <1>1, <1>4, <2>1, <2>2 DEF Closed
  <2>4. ASSUME q.launches[s].committed \/ q.launches[s].executed = "yes" PROVE c[s] # "absent"
    BY <1>1, <1>4, <2>1, <2>2, <2>4 DEF Closed
  <2> QED
    BY <2>3, <2>4
<1>7. ASSUME NEW key \in q.attempted PROVE key[2] <= q.launches[key[1]].n
  <2>1. /\ key \in r.attempted /\ key[1] \in Segments
        /\ ~(t.to = "SEGMENT_SEALED" /\ key[1] = t.segment)
    BY <1>1, <1>3, <1>7 DEF Replays
  <2> QED
    BY <1>1, <1>4, <2>1 DEF Closed
<1> QED
  BY <1>2, <1>3, <1>5, <1>6, <1>7 DEF Sound, Closed, q
-----------------------------------------------------------------------------
(* What follows the line that was written can be written, or done, next. *)

\* The campaign has not ended while an agenda or a transaction is open.
LEMMA OpenGoesOn ==
    ASSUME NEW r \in Replays, OpenFits(r), r.open # NoTx
    PROVE  r.state \notin TERMINAL /\ r.open \in Transactions
  BY DEF OpenFits, Fits, Allowed, Replays

LEMMA WaitFirst ==
    ASSUME NEW r \in Replays, NEW c, NEW p, r.open = NoTx,
           NEW l \in Lines \cup {Act}, IsWait(l), Later(r, l)
    PROVE  First(r, c, p, l)
<1> DEFINE t == l.tx
<1>1. /\ l.rec = "prepared" /\ t \in Transactions /\ t.kind = "none" /\ t.attempt = 1
      /\ t.to \in {"WAIT_HUMAN", "FAULT_LOCKED"} /\ t.who # "operator"
      /\ t.reason # "operator_accept_short"
  BY LineKinds DEF IsWait
<1>2. Allowed(r.state, t.to)
  BY <1>1 DEF Later, Allowed
<1>3. t.kind \in ActionsOf(r.state, t.to)
  BY <1>1 DEF ActionsOf
<1>4. MayDecide(r, t)
  BY <1>1 DEF Later, MayDecide, HUMAN_STATES
<1>5. SegmentFits(r, t) /\ OfSegment(t) /\ t.to # "ANALYZING"
  BY <1>1 DEF SegmentFits, OfSegment, SEGMENT_STATES
<1> QED
  BY <1>1, <1>2, <1>3, <1>4, <1>5 DEF First, Fits

LEMMA PlanFirst ==
    ASSUME NEW r \in Replays, NEW c, NEW p, r.open = NoTx,
           NEW l \in Lines \cup {Act}, IsPlan(l), Later(r, l)
    PROVE  First(r, c, p, l)
<1> DEFINE t == l.tx
<1>1. /\ l.rec = "prepared" /\ t \in Transactions /\ t.kind = "none" /\ t.attempt = 1
      /\ t.to = "PLANNED" /\ t.who = "conductor" /\ t.reason = "plan_frozen" /\ r.state = "DRAFT"
  BY LineKinds DEF IsPlan, Later
<1>2. Allowed(r.state, t.to)
  BY <1>1 DEF Allowed, FORWARD, TERMINAL
<1>3. t.kind \in ActionsOf(r.state, t.to)
  BY <1>1 DEF ActionsOf
<1>4. MayDecide(r, t)
  BY <1>1 DEF MayDecide, HUMAN_STATES
<1>5. SegmentFits(r, t) /\ OfSegment(t) /\ t.to # "ANALYZING"
  BY <1>1 DEF SegmentFits, OfSegment, SEGMENT_STATES
<1> QED
  BY <1>1, <1>2, <1>3, <1>4, <1>5 DEF First, Fits

\* What is done next suits the journal the line leaves.
LEMMA NextFirst ==
    ASSUME NEW r, NEW c, NEW p, Sound(r, c),
           NEW l \in Lines, First(r, c, p, l),
           NEW b \in Lines \cup {Act}, Follows(l, b), Later(r, b)
    PROVE  l.rec # "committed" => First(Apply(r, l), c, p, b)
<1> DEFINE q == Apply(r, l)
<1>1. r \in Replays /\ Order(r) /\ OpenFits(r) /\ l \in Lines \cup {Act} /\ l # Act
  BY DEF Sound, Lines, Act
<1>2. CASE l.rec = "prepared"
  <2>1. l.tx \in Transactions /\ q = AfterPrepare(r, l.tx)
    BY <1>1, <1>2, LineKinds DEF Apply
  <2>2. q.open = l.tx /\ q.ack = "none" /\ q.open # NoTx
    <3>1. AfterPrepare(r, l.tx).open = l.tx /\ AfterPrepare(r, l.tx).ack = "none"
      BY <1>1, <2>1, PrepareFields
    <3> QED
      BY <2>1, <3>1, SomeTx
  <2> HIDE DEF q
  <2>3. CASE l.tx.kind = "none"
    BY <1>2, <2>2, <2>3 DEF Follows, First, MayCommit, Launching, q
  <2>4. CASE l.tx.kind # "none"
    BY <1>2, <2>2, <2>4 DEF Follows, First, Launching, q
  <2> QED
    BY <2>3, <2>4
<1>3. CASE l.rec = "acknowledged"
  <2>1. l.executed \in Executed /\ q = AfterAck(r, l.executed)
    BY <1>1, <1>3, LineKinds DEF Apply
  <2>2. q.open = r.open /\ q.ack = l.executed
    <3>1. AfterAck(r, l.executed).open = r.open /\ AfterAck(r, l.executed).ack = l.executed
      BY <1>1, <2>1, AckFields
    <3> QED
      BY <2>1, <3>1
  <2> HIDE DEF q
  <2> QED
    <3>1. b.rec = "aborted" \/ (l.executed = "yes" /\ b.rec = "committed")
      BY <1>3 DEF Follows
    <3>2. r.open # NoTx /\ (l.executed = "yes" /\ Launching(r) => c[r.open.segment] # "absent")
      BY <1>3 DEF First
    <3>3. Launching(q) <=> Launching(r)
      BY <2>2 DEF Launching
    <3> QED
      BY <2>2, <3>1, <3>2, <3>3 DEF First, MayCommit, q
<1>4. CASE l.rec = "aborted"
  <2>1. q = AfterAbort(r)
    BY <1>4 DEF Apply
  <2>2. q \in Replays /\ q.open = NoTx /\ q.state = r.state
    BY <1>1, <2>1, <1>4, AbortFields, AbortTyped DEF OpenFits, Fits
  <2> HIDE DEF q
  <2>3. CASE b.rec = "note"
    BY <2>2, <2>3 DEF First, q
  <2>4. CASE IsWait(b)
    BY <2>2, <2>4, WaitFirst DEF Later, q
  <2> QED
    BY <1>4, <2>3, <2>4 DEF Follows
<1>5. CASE l.rec = "note"
  <2>1. q = [r EXCEPT !.pause = @ \/ l.pause] /\ l.pause \in BOOLEAN /\ r.open = NoTx
    BY <1>1, <1>5, LineKinds DEF Apply, First
  <2>2. q \in Replays /\ q.open = NoTx /\ q.state = r.state
    BY <2>1, NoteSound DEF Sound
  <2> HIDE DEF q
  <2>3. CASE IsWait(b)
    <3>1. Later(q, b)
      BY <2>2 DEF Later
    <3> QED
      BY <2>2, <2>3, <3>1, WaitFirst DEF q
  <2>4. CASE IsPlan(b)
    <3>1. Later(q, b)
      BY <2>2 DEF Later
    <3> QED
      BY <2>2, <2>4, <3>1, PlanFirst DEF q
  <2> QED
    BY <1>5, <2>3, <2>4 DEF Follows
<1> QED
  BY <1>1, <1>2, <1>3, <1>4, <1>5, LineKinds

LEMMA LineSound ==
    ASSUME NEW r, NEW c, NEW p, Sound(r, c), NEW l \in Lines, First(r, c, p, l)
    PROVE  /\ Sound(Apply(r, l), c)
           /\ l.rec \in {"committed", "note", "aborted"} => Apply(r, l).open = NoTx
           /\ l.rec # "committed" => Apply(r, l).state = r.state
           /\ l.rec = "committed" => Apply(r, l).state = r.open.to
           /\ l.rec = "prepared" => Apply(r, l).open = l.tx
           /\ l.rec = "acknowledged" => Apply(r, l).open = r.open
<1>1. r \in Replays /\ l \in Lines \cup {Act} /\ l # Act
  BY DEF Sound, Lines, Act
<1>2. CASE l.rec = "prepared"
  <2>1. l.tx \in Transactions /\ Apply(r, l) = AfterPrepare(r, l.tx)
    BY <1>1, <1>2, LineKinds DEF Apply
  <2>2. Sound(AfterPrepare(r, l.tx), c)
    BY <1>2, <2>1, PrepareSound DEF First
  <2>3. AfterPrepare(r, l.tx).open = l.tx /\ AfterPrepare(r, l.tx).state = r.state
    BY <1>1, <2>1, PrepareFields
  <2> QED
    BY <1>2, <2>1, <2>2, <2>3
<1>3. CASE l.rec = "acknowledged"
  <2>1. l.executed \in Executed /\ Apply(r, l) = AfterAck(r, l.executed)
    BY <1>1, <1>3, LineKinds DEF Apply
  <2>2. Sound(AfterAck(r, l.executed), c)
    BY <1>3, <2>1, AckSound DEF First
  <2>3. AfterAck(r, l.executed).open = r.open /\ AfterAck(r, l.executed).state = r.state
    BY <1>1, <2>1, AckFields
  <2> QED
    BY <1>3, <2>1, <2>2, <2>3
<1>4. CASE l.rec = "aborted"
  <2>1. Apply(r, l) = AfterAbort(r)
    BY <1>4 DEF Apply
  <2>2. Sound(AfterAbort(r), c)
    BY <1>4, AbortSound DEF First
  <2>3. AfterAbort(r).open = NoTx /\ AfterAbort(r).state = r.state
    BY <1>1, AbortFields
  <2> QED
    BY <1>4, <2>1, <2>2, <2>3
<1>5. CASE l.rec = "note"
  <2>1. l.pause \in BOOLEAN /\ Apply(r, l) = [r EXCEPT !.pause = @ \/ l.pause] /\ r.open = NoTx
    BY <1>1, <1>5, LineKinds DEF Apply, First
  <2> QED
    BY <1>5, <2>1, NoteSound
<1>6. CASE l.rec = "committed"
  <2>1. l.unplanned \in Nat /\ Apply(r, l) = AfterCommit(r, l.unplanned)
    BY <1>1, <1>6, LineKinds DEF Apply
  <2>2. r.open # NoTx /\ (Launching(r) => c[r.open.segment] # "absent")
    BY <1>6 DEF First, MayCommit
  <2> QED
    BY <1>6, <2>1, <2>2, CommitSound
<1> QED
  BY <1>1, <1>2, <1>3, <1>4, <1>5, <1>6, LineKinds

LEMMA TailIs ==
    ASSUME NEW S, NEW q \in Seq(S), q # <<>>
    PROVE  /\ Len(q) \in Nat /\ Len(q) > 0 /\ \A i \in 1..Len(q) : q[i] \in S
           /\ Tail(q) \in Seq(S) /\ Len(Tail(q)) = Len(q) - 1
           /\ \A i \in 1..(Len(q) - 1) : Tail(q)[i] = q[i + 1]
           /\ Tail(q) = <<>> <=> Len(q) = 1
           /\ Head(q) = q[1]
<1>1. Len(q) \in Nat /\ Len(q) > 0 /\ \A i \in 1..Len(q) : q[i] \in S
  OBVIOUS
<1>2. Tail(q) \in Seq(S) /\ Len(Tail(q)) = Len(q) - 1
  BY <1>1
<1>3. \A i \in 1..(Len(q) - 1) : Tail(q)[i] = q[i + 1]
  BY <1>1
<1>4. Tail(q) = <<>> <=> Len(q) = 1
  <2>1. \A x \in Seq(S) : x = <<>> <=> Len(x) = 0
    OBVIOUS
  <2>2. Tail(q) = <<>> <=> Len(Tail(q)) = 0
    BY <1>2, <2>1, Zenon
  <2>3. Len(Tail(q)) = 0 <=> Len(q) = 1
    BY <1>1, <1>2
  <2> QED
    BY <2>2, <2>3, Zenon
<1> QED
  BY <1>1, <1>2, <1>3, <1>4

LEMMA LineKeeps ==
    ASSUME NEW r, NEW c, NEW p, Sound(r, c), NEW q \in Seq(Lines \cup {Act}), q # <<>>,
           q[1] # Act, Agenda(r, c, p, q)
    PROVE  /\ Sound(Apply(r, q[1]), c)
           /\ Agenda(Apply(r, q[1]), c, p, Tail(q))
           /\ Tail(q) = <<>> => Apply(r, q[1]).open = NoTx
<1> DEFINE n == Apply(r, q[1])  T == Tail(q)
<1>1. /\ Len(q) \in Nat /\ Len(q) > 0 /\ \A i \in 1..Len(q) : q[i] \in Lines \cup {Act}
      /\ T \in Seq(Lines \cup {Act}) /\ Len(T) = Len(q) - 1
      /\ \A i \in 1..(Len(q) - 1) : T[i] = q[i + 1]
      /\ T = <<>> <=> Len(q) = 1
  BY TailIs
<1>2. q[1] \in Lines /\ First(r, c, p, q[1])
  BY <1>1 DEF Agenda
<1>3. /\ Sound(n, c)
      /\ q[1].rec \in {"committed", "note"} => n.open = NoTx
      /\ q[1].rec # "committed" => n.state = r.state
      /\ q[1].rec = "committed" => n.state = r.open.to
      /\ q[1].rec = "prepared" => n.open = q[1].tx
  BY <1>2, LineSound
<1> HIDE DEF n, T
<1>4. T = <<>> => n.open = NoTx
  <2>1. T = <<>> => q[1].rec \in {"committed", "act", "note"}
    BY <1>1 DEF Agenda
  <2>2. q[1].rec # "act"
    BY <1>1, LineKinds
  <2> QED
    BY <1>3, <2>1, <2>2
<1>5. ASSUME NEW i \in 2..Len(q) PROVE Follows(q[i - 1], q[i]) /\ Later(r, q[i])
  <2>1. i - 1 \in 1..(Len(q) - 1) /\ (i - 1) + 1 = i
    BY <1>1
  <2> QED
    BY <1>5, <2>1 DEF Agenda
<1>6. CASE q[1].rec # "committed"
  <2>1. T # <<>> => First(n, c, p, T[1])
    <3> SUFFICES ASSUME T # <<>> PROVE First(n, c, p, T[1])
      OBVIOUS
    <3>1. 2 \in 2..Len(q) /\ 1 \in 1..Len(T) /\ T[1] = q[2] /\ q[2] \in Lines \cup {Act}
      BY <1>1
    <3>2. Follows(q[1], q[2]) /\ Later(r, q[2])
      BY <1>5, <3>1
    <3> QED
      BY <1>2, <1>6, <3>1, <3>2, NextFirst DEF n
  <2>2. T # <<>> => T[Len(T)].rec \in {"committed", "act", "note"}
    BY <1>1 DEF Agenda
  <2>3. \A i \in 1..(Len(T) - 1) : Follows(T[i], T[i + 1])
    <3> SUFFICES ASSUME NEW i \in 1..(Len(T) - 1) PROVE Follows(T[i], T[i + 1])
      OBVIOUS
    <3>1. i \in Int /\ i + 1 \in 2..Len(q) /\ (i + 1) - 1 = i
      BY <1>1
    <3>2. i \in 1..(Len(q) - 1) /\ i + 1 \in 1..(Len(q) - 1) /\ i + 2 = (i + 1) + 1
      BY <1>1
    <3>3. T[i] = q[i + 1] /\ T[i + 1] = q[i + 2] /\ i + 2 \in 2..Len(q) /\ (i + 2) - 1 = i + 1
      BY <1>1, <3>2
    <3> QED
      BY <1>5, <3>3
  <2>4. \A i \in 2..Len(T) : Later(n, T[i])
    <3> SUFFICES ASSUME NEW i \in 2..Len(T) PROVE Later(n, T[i])
      OBVIOUS
    <3>1. T[i] = q[i + 1] /\ i + 1 \in 2..Len(q)
      BY <1>1
    <3>2. Later(r, q[i + 1])
      BY <1>5, <3>1
    <3> QED
      BY <1>3, <1>6, <3>1, <3>2 DEF Later
  <2>5. Len(T) > 1 /\ T[1].rec = "committed" => n.open.to = "PLANNED"
    <3> SUFFICES ASSUME Len(T) > 1, T[1].rec = "committed" PROVE n.open.to = "PLANNED"
      OBVIOUS
    <3>1. 2 \in 2..(Len(q) - 1) /\ T[1] = q[2]
      BY <1>1
    <3>2. IsPlan(q[2 - 1])
      BY <3>1 DEF Agenda
    <3> QED
      BY <1>3, <3>2 DEF IsPlan
  <2>6. \A i \in 2..(Len(T) - 1) : T[i].rec = "committed" => IsPlan(T[i - 1])
    <3> SUFFICES ASSUME NEW i \in 2..(Len(T) - 1), T[i].rec = "committed" PROVE IsPlan(T[i - 1])
      OBVIOUS
    <3>1. /\ i \in Int /\ i + 1 \in 2..(Len(q) - 1) /\ (i + 1) - 1 = i /\ (i - 1) + 1 = i
          /\ i \in 1..(Len(q) - 1) /\ i - 1 \in 1..(Len(q) - 1)
      BY <1>1
    <3>2. T[i] = q[i + 1] /\ T[i - 1] = q[i]
      BY <1>1, <3>1
    <3>3. q[i + 1].rec = "committed" => IsPlan(q[(i + 1) - 1])
      BY <3>1 DEF Agenda
    <3> QED
      BY <3>1, <3>2, <3>3
  <2> QED
    BY <1>3, <1>4, <2>1, <2>2, <2>3, <2>4, <2>5, <2>6 DEF Agenda, n, T
<1>7. CASE q[1].rec = "committed"
  <2> SUFFICES Agenda(n, c, p, T)
    BY <1>3, <1>4 DEF n, T
  <2>1. CASE Len(q) = 1
    BY <1>1, <2>1 DEF Agenda
  <2>2. CASE Len(q) > 1
    <3>1. 2 \in 2..Len(q) /\ T[1] = q[2] /\ q[2] \in Lines \cup {Act} /\ T # <<>>
      BY <1>1, <2>2
    <3>2. IsWait(q[2])
      <4>1. Follows(q[2 - 1], q[2]) /\ 2 - 1 = 1
        BY <1>5, <3>1
      <4> QED
        BY <1>7, <4>1 DEF Follows
    <3>3. n.open = NoTx /\ n.state = "PLANNED" /\ n \in Replays
      BY <1>3, <1>7, <2>2 DEF Agenda, Sound
    <3>4. Later(n, q[2])
      BY <3>2, <3>3 DEF Later, TERMINAL, IsPlan, IsWait
    <3>5. First(n, c, p, T[1])
      BY <3>1, <3>2, <3>3, <3>4, WaitFirst
    <3>6. Len(q) # 2
      BY <1>1, <3>2 DEF Agenda, IsWait
    <3>7. 3 \in 2..Len(q) /\ T[2] = q[3]
      BY <1>1, <2>2, <3>6
    <3>8. q[3].rec = "committed"
      <4>1. Follows(q[3 - 1], q[3]) /\ 3 - 1 = 2
        BY <1>5, <3>7
      <4> QED
        BY <3>2, <4>1 DEF Follows, IsWait
    <3>9. Len(q) = 3
      <4>1. ASSUME Len(q) > 3 PROVE FALSE
        <5>1. 3 \in 2..(Len(q) - 1)
          BY <1>1, <4>1
        <5>2. IsPlan(q[3 - 1])
          BY <3>8, <5>1 DEF Agenda
        <5> QED
          BY <3>2, <5>2 DEF IsPlan, IsWait
      <4> QED
        BY <1>1, <2>2, <3>6, <4>1
    <3>10. Len(T) = 2
      BY <1>1, <3>9
    <3>11. Later(n, T[2]) /\ Follows(T[1], T[2])
      BY <1>5, <3>1, <3>2, <3>7, <3>8 DEF Later, IsWait, IsPlan, Follows
    <3>12. T[1].rec = "prepared" /\ T[2].rec = "committed"
      BY <3>1, <3>2, <3>7, <3>8 DEF IsWait
    <3> QED
      BY <3>1, <3>5, <3>10, <3>11, <3>12 DEF Agenda
  <2> QED
    BY <1>1, <2>1, <2>2
<1> QED
  BY <1>6, <1>7

LEMMA LineRests ==
    ASSUME NEW r, NEW c, NEW p, Sound(r, c), NEW q \in Seq(Lines \cup {Act}), q # <<>>,
           q[1] # Act, Agenda(r, c, p, q), AtRest(r, q) \/ ComesToRest(r, q)
    PROVE  AtRest(Apply(r, q[1]), Tail(q)) \/ ComesToRest(Apply(r, q[1]), Tail(q))
<1> DEFINE n == Apply(r, q[1])  T == Tail(q)  l == q[1]
<1>1. /\ Len(q) \in Nat /\ Len(q) > 0 /\ \A i \in 1..Len(q) : q[i] \in Lines \cup {Act}
      /\ T \in Seq(Lines \cup {Act}) /\ Len(T) = Len(q) - 1
      /\ \A i \in 1..(Len(q) - 1) : T[i] = q[i + 1]
      /\ T = <<>> <=> Len(q) = 1
  BY TailIs
<1>2. l \in Lines /\ First(r, c, p, l) /\ l \in Lines \cup {Act} /\ l # Act
  BY <1>1 DEF Agenda
<1>3. /\ l.rec \in {"committed", "note", "aborted"} => n.open = NoTx
      /\ l.rec # "committed" => n.state = r.state
      /\ l.rec = "committed" => n.state = r.open.to
      /\ l.rec = "prepared" => n.open = l.tx
      /\ l.rec = "acknowledged" => n.open = r.open
  BY <1>2, LineSound
<1>4. T # <<>> => T[1] = q[2] /\ Follows(l, T[1]) /\ Later(r, T[1])
  <2> SUFFICES ASSUME T # <<>> PROVE T[1] = q[2] /\ Follows(l, T[1]) /\ Later(r, T[1])
    OBVIOUS
  <2>1. 1 \in 1..(Len(q) - 1) /\ 2 \in 2..Len(q) /\ 1 + 1 = 2
    BY <1>1
  <2> QED
    BY <1>1, <2>1 DEF Agenda
<1> HIDE DEF n, T
<1>5. CASE AtRest(r, q)
  <2> DEFINE ends == {"WAIT_HUMAN", "FAULT_LOCKED", "REPORTED"}
  <2>1. /\ r.state \in REST_STATES \cup TERMINAL
        /\ r.open # NoTx => r.open.to \in ends
        /\ l.rec = "prepared" => l.tx.to \in ends
    BY <1>5 DEF AtRest
  <2>2. n.state \in REST_STATES \cup TERMINAL
    BY <1>2, <1>3, <2>1 DEF First, MayCommit, REST_STATES, TERMINAL, HUMAN_STATES
  <2>3. n.open # NoTx => n.open.to \in ends
    BY <1>2, <1>3, <2>1, LineKinds
  <2>4. ASSUME T # <<>>, T[1].rec = "prepared" PROVE T[1].tx.to \in ends
    <3>1. r.state # "DRAFT"
      BY <2>1 DEF REST_STATES, TERMINAL, HUMAN_STATES
    <3>2. ~IsPlan(T[1])
      BY <1>4, <2>4, <3>1 DEF Later
    <3>3. IsWait(T[1])
      BY <1>2, <1>4, <2>4, <3>2, LineKinds DEF Follows
    <3> QED
      BY <3>3 DEF IsWait
  <2> QED
    BY <2>2, <2>3, <2>4 DEF AtRest, n, T
<1>6. CASE Len(q) > 1 /\ IsWait(q[Len(q) - 1]) /\ \A i \in 1..Len(q) : q[i].rec # "act"
  <2>1. CASE Len(q) > 2
    <3>1. Len(T) > 1 /\ Len(T) - 1 \in 1..(Len(q) - 1) /\ (Len(T) - 1) + 1 = Len(q) - 1
      BY <1>1, <2>1
    <3>2. IsWait(T[Len(T) - 1])
      BY <1>1, <1>6, <3>1
    <3>3. ASSUME NEW i \in 1..Len(T) PROVE T[i].rec # "act"
      <4>1. i \in 1..(Len(q) - 1) /\ i + 1 \in 1..Len(q)
        BY <1>1
      <4> QED
        BY <1>1, <1>6, <4>1
    <3> QED
      BY <3>1, <3>2, <3>3 DEF ComesToRest, n, T
  <2>2. CASE Len(q) = 2
    <3>1. IsWait(l) /\ Len(T) = 1 /\ T # <<>>
      BY <1>1, <1>6, <2>2
    <3>2. l.rec = "prepared" /\ l.tx.kind = "none" /\ l.tx.to \in {"WAIT_HUMAN", "FAULT_LOCKED"}
      BY <3>1 DEF IsWait
    <3>3. T[1].rec = "committed"
      BY <1>4, <3>1, <3>2 DEF Follows
    <3> QED
      BY <1>3, <3>1, <3>2, <3>3 DEF ComesToRest, n, T
  <2> QED
    BY <1>1, <1>6, <2>1, <2>2
<1>7. CASE Len(q) = 1 /\ q[1].rec = "committed" /\ r.open.to \in {"WAIT_HUMAN", "FAULT_LOCKED"}
  <2>1. n.state \in {"WAIT_HUMAN", "FAULT_LOCKED"} /\ n.open = NoTx /\ T = <<>>
    BY <1>1, <1>3, <1>7
  <2> QED
    BY <2>1 DEF AtRest, REST_STATES, HUMAN_STATES, n, T
<1> QED
  BY <1>5, <1>6, <1>7 DEF ComesToRest
-----------------------------------------------------------------------------
(* The agendas a step leaves. *)

Steps == Seq(Lines \cup {Act})
Whos == {"conductor", "operator", "recovery"}

LEMMA StateWords ==
    /\ "DRAFT" \in CAMPAIGN_STATES /\ "PLANNED" \in CAMPAIGN_STATES
    /\ "SEGMENT_PREPARE" \in CAMPAIGN_STATES /\ "POLICY_STOP" \in CAMPAIGN_STATES
    /\ "POLICY_START" \in CAMPAIGN_STATES /\ "POLICY_READY" \in CAMPAIGN_STATES
    /\ "ENV_CONFIRM" \in CAMPAIGN_STATES /\ "ARM_RUNNING" \in CAMPAIGN_STATES
    /\ "SEGMENT_SEALED" \in CAMPAIGN_STATES /\ "ANALYZING" \in CAMPAIGN_STATES
    /\ "REPORTED" \in CAMPAIGN_STATES /\ "ABORTED" \in CAMPAIGN_STATES
    /\ "WAIT_HUMAN" \in CAMPAIGN_STATES /\ "FAULT_LOCKED" \in CAMPAIGN_STATES
    /\ "PAUSED" \in CAMPAIGN_STATES
  BY DEF CAMPAIGN_STATES, SEGMENT_STATES, TERMINAL, HUMAN_STATES

LEMMA ReasonWords ==
    /\ "plan_frozen" \in REASONS /\ "segment_started" \in REASONS
    /\ "robot_free" \in REASONS /\ "same_arm_kept" \in REASONS
    /\ "policy_stopped" \in REASONS /\ "policy_started" \in REASONS
    /\ "policy_ready" \in REASONS /\ "run_launched" \in REASONS
    /\ "run_completed" \in REASONS /\ "campaign_complete" \in REASONS
    /\ "pause_at_boundary" \in REASONS /\ "report_written" \in REASONS
    /\ "listener_mismatch" \in REASONS /\ "policy_stop_failed" \in REASONS
    /\ "policy_start_failed" \in REASONS /\ "policy_not_ready" \in REASONS
    /\ "launch_failed" \in REASONS /\ "plan_changed" \in REASONS
    /\ "foreign_run" \in REASONS /\ "segment_short" \in REASONS
    /\ "child_missing" \in REASONS /\ "recovery_ambiguous" \in REASONS
    /\ "conductor_restarted" \in REASONS /\ "child_failed" \in REASONS
    /\ "stop_rule_faults" \in REASONS /\ "stop_rule_interventions" \in REASONS
    /\ "operator_abort" \in REASONS /\ "operator_resume" \in REASONS
    /\ "operator_accept_short" \in REASONS
  BY DEF REASONS, FAULT_REASONS, STOP_RULE_REASONS

LEMMA OtherWords ==
    /\ "policy_stop" \in SIDE_EFFECTS \cup {"none"}
    /\ "policy_start" \in SIDE_EFFECTS \cup {"none"}
    /\ "launch_run" \in SIDE_EFFECTS \cup {"none"}
    /\ "report" \in SIDE_EFFECTS \cup {"none"}
    /\ "none" \in SIDE_EFFECTS \cup {"none"}
    /\ "conductor" \in Whos /\ "operator" \in Whos /\ "recovery" \in Whos
    /\ 0 \in SegmentOrNone /\ 1 \in Nat /\ 1 \in Segments /\ \A s \in Segments : s \in SegmentOrNone
  BY DEF SIDE_EFFECTS, Whos, SegmentOrNone, Segments

LEMMA PlainLines ==
    /\ \A n \in Nat : CommitWith(n) \in Lines /\ CommitWith(n).rec = "committed"
    /\ Commit = CommitWith(0)
    /\ \A e \in Executed : Ack(e) \in Lines /\ Ack(e).rec = "acknowledged" /\ Ack(e).executed = e
    /\ Abort \in Lines /\ Abort.rec = "aborted"
    /\ Note \in Lines /\ Note.rec = "note" /\ PauseNote \in Lines /\ PauseNote.rec = "note"
    /\ Act.rec = "act"
  BY DEF CommitWith, Commit, Ack, Abort, Note, PauseNote, Act, Lines

\* Sequences joined, one by one.
LEMMA Joined ==
    ASSUME NEW S, NEW x \in Seq(S), NEW y \in Seq(S), NEW w \in Seq(S), Len(w) = Len(x) + Len(y),
           \A i \in 1..Len(x) : w[i] = x[i], \A i \in 1..Len(y) : w[Len(x) + i] = y[i]
    PROVE  x \o y = w
<1>1. /\ x \o y \in Seq(S) /\ Len(x \o y) = Len(x) + Len(y)
      /\ \A i \in 1..(Len(x) + Len(y)) :
            (x \o y)[i] = IF i <= Len(x) THEN x[i] ELSE y[i - Len(x)]
  BY ConcatProperties
<1>2. \A i \in 1..Len(w) : (x \o y)[i] = w[i]
  <2> SUFFICES ASSUME NEW i \in 1..Len(w) PROVE (x \o y)[i] = w[i]
    OBVIOUS
  <2>1. CASE i <= Len(x)
    BY <1>1, <2>1
  <2>2. CASE ~(i <= Len(x))
    <3>1. i - Len(x) \in 1..Len(y) /\ Len(x) + (i - Len(x)) = i
      BY <2>2
    <3>2. w[Len(x) + (i - Len(x))] = y[i - Len(x)]
      BY <3>1
    <3> QED
      BY <1>1, <2>2, <3>1, <3>2
  <2> QED
    BY <2>1, <2>2
<1> QED
  BY <1>1, <1>2, SeqEqual

LEMMA OneAndTwo ==
    ASSUME NEW S, NEW a \in S, NEW b \in S, NEW d \in S
    PROVE  <<a>> \o <<b, d>> = <<a, b, d>>
<1>1. /\ <<a>> \in Seq(S) /\ <<b, d>> \in Seq(S) /\ <<a, b, d>> \in Seq(S)
      /\ Len(<<a, b, d>>) = Len(<<a>>) + Len(<<b, d>>)
  OBVIOUS
<1>2. \A i \in 1..Len(<<a>>) : <<a, b, d>>[i] = <<a>>[i]
  OBVIOUS
<1>3. \A i \in 1..Len(<<b, d>>) : <<a, b, d>>[Len(<<a>>) + i] = <<b, d>>[i]
  OBVIOUS
<1> QED
  BY <1>1, <1>2, <1>3, Joined

LEMMA TwoAndTwo ==
    ASSUME NEW S, NEW a \in S, NEW b \in S, NEW d \in S, NEW e \in S
    PROVE  <<a, b>> \o <<d, e>> = <<a, b, d, e>>
<1>1. /\ <<a, b>> \in Seq(S) /\ <<d, e>> \in Seq(S) /\ <<a, b, d, e>> \in Seq(S)
      /\ Len(<<a, b, d, e>>) = Len(<<a, b>>) + Len(<<d, e>>)
  OBVIOUS
<1>2. \A i \in 1..Len(<<a, b>>) : <<a, b, d, e>>[i] = <<a, b>>[i]
  OBVIOUS
<1>3. \A i \in 1..Len(<<d, e>>) : <<a, b, d, e>>[Len(<<a, b>>) + i] = <<d, e>>[i]
  OBVIOUS
<1> QED
  BY <1>1, <1>2, <1>3, Joined

LEMMA FourAndTwo ==
    ASSUME NEW S, NEW a \in S, NEW b \in S, NEW d \in S, NEW e \in S, NEW f \in S, NEW g \in S
    PROVE  <<a, b, d, e>> \o <<f, g>> = <<a, b, d, e, f, g>>
<1>1. /\ <<a, b, d, e>> \in Seq(S) /\ <<f, g>> \in Seq(S) /\ <<a, b, d, e, f, g>> \in Seq(S)
      /\ Len(<<a, b, d, e, f, g>>) = Len(<<a, b, d, e>>) + Len(<<f, g>>)
  OBVIOUS
<1>2. \A i \in 1..Len(<<a, b, d, e>>) : <<a, b, d, e, f, g>>[i] = <<a, b, d, e>>[i]
  OBVIOUS
<1>3. \A i \in 1..Len(<<f, g>>) : <<a, b, d, e, f, g>>[Len(<<a, b, d, e>>) + i] = <<f, g>>[i]
  OBVIOUS
<1> QED
  BY <1>1, <1>2, <1>3, Joined

\* One step, and two of which the second follows the first.
LEMMA OneStep ==
    ASSUME NEW r, NEW c, NEW p, NEW a \in Lines \cup {Act}, First(r, c, p, a),
           a.rec \in {"committed", "act", "note"}
    PROVE  <<a>> \in Steps /\ Agenda(r, c, p, <<a>>)
<1>1. <<a>> \in Steps /\ <<a>> # <<>> /\ Len(<<a>>) = 1 /\ <<a>>[1] = a
  BY DEF Steps
<1> DEFINE q == <<a>>
<1> HIDE DEF q
<1> SUFFICES Agenda(r, c, p, q)
  BY <1>1 DEF q
<1>2. q # <<>> /\ Len(q) = 1 /\ q[1] = a
  BY <1>1 DEF q
<1> QED
  BY <1>2 DEF Agenda

LEMMA TwoSteps ==
    ASSUME NEW r, NEW c, NEW p, NEW a \in Lines, NEW b \in Lines \cup {Act}, First(r, c, p, a),
           a.rec # "committed", Follows(a, b), Later(r, b), b.rec \in {"committed", "act", "note"}
    PROVE  <<a, b>> \in Steps /\ Agenda(r, c, p, <<a, b>>)
<1> DEFINE q == <<a, b>>
<1>1. q \in Steps /\ q # <<>> /\ Len(q) = 2 /\ q[1] = a /\ q[2] = b
  BY DEF Steps
<1> HIDE DEF q
<1> SUFFICES Agenda(r, c, p, q)
  BY <1>1 DEF q
<1>2. (1..(Len(q) - 1) = {1}) /\ (2..Len(q) = {2}) /\ (2..(Len(q) - 1) = {}) /\ 1 + 1 = 2
  BY <1>1
<1> QED
  BY <1>1, <1>2 DEF Agenda

LEMMA ThreeSteps ==
    ASSUME NEW r, NEW c, NEW p, NEW a \in Lines, NEW b \in Lines, NEW d \in Lines,
           First(r, c, p, a), a.rec # "committed",
           Follows(a, b), Follows(b, d),
           Later(r, b), Later(r, d),
           b.rec = "committed" => IsPlan(a),
           d.rec \in {"committed", "note"}
    PROVE  <<a, b, d>> \in Steps /\ Agenda(r, c, p, <<a, b, d>>)
<1> DEFINE q == <<a, b, d>>
<1>1. /\ q \in Steps /\ q # <<>> /\ Len(q) = 3
      /\ q[1] = a /\ q[2] = b /\ q[3] = d
  BY DEF Steps
<1> HIDE DEF q
<1> SUFFICES Agenda(r, c, p, q)
  BY <1>1 DEF q
<1>2. /\ 1..(Len(q) - 1) = {1, 2}
      /\ 2..Len(q) = {2, 3}
      /\ 2..(Len(q) - 1) = {2}
  BY <1>1
<1>3. \A i \in 1..(Len(q) - 1) : Follows(q[i], q[i + 1])
  BY <1>1, <1>2
<1>4. \A i \in 2..(Len(q) - 1) : q[i].rec = "committed" => IsPlan(q[i - 1])
  BY <1>1, <1>2
<1> QED
  BY <1>1, <1>2, <1>3, <1>4 DEF Agenda

LEMMA FourSteps ==
    ASSUME NEW r, NEW c, NEW p, NEW a \in Lines, NEW b \in Lines, NEW d \in Lines, NEW e \in Lines,
           First(r, c, p, a), a.rec # "committed",
           Follows(a, b), Follows(b, d), Follows(d, e),
           Later(r, b), Later(r, d), Later(r, e),
           b.rec = "committed" => IsPlan(a), d.rec = "committed" => IsPlan(b),
           e.rec \in {"committed", "note"}
    PROVE  <<a, b, d, e>> \in Steps /\ Agenda(r, c, p, <<a, b, d, e>>)
<1> DEFINE q == <<a, b, d, e>>
<1>1. /\ q \in Steps /\ q # <<>> /\ Len(q) = 4
      /\ q[1] = a /\ q[2] = b /\ q[3] = d /\ q[4] = e
  BY DEF Steps
<1> HIDE DEF q
<1> SUFFICES Agenda(r, c, p, q)
  BY <1>1 DEF q
<1>2. /\ 1..(Len(q) - 1) = {1, 2, 3}
      /\ 2..Len(q) = {2, 3, 4}
      /\ 2..(Len(q) - 1) = {2, 3}
  BY <1>1
<1>3. \A i \in 1..(Len(q) - 1) : Follows(q[i], q[i + 1])
  BY <1>1, <1>2
<1>4. \A i \in 2..(Len(q) - 1) : q[i].rec = "committed" => IsPlan(q[i - 1])
  BY <1>1, <1>2
<1> QED
  BY <1>1, <1>2, <1>3, <1>4 DEF Agenda

LEMMA SixSteps ==
    ASSUME NEW r, NEW c, NEW p, NEW a \in Lines, NEW b \in Lines, NEW d \in Lines, NEW e \in Lines, NEW f \in Lines, NEW g \in Lines,
           First(r, c, p, a), a.rec # "committed",
           Follows(a, b), Follows(b, d), Follows(d, e), Follows(e, f), Follows(f, g),
           Later(r, b), Later(r, d), Later(r, e), Later(r, f), Later(r, g),
           b.rec = "committed" => IsPlan(a), d.rec = "committed" => IsPlan(b), e.rec = "committed" => IsPlan(d), f.rec = "committed" => IsPlan(e),
           g.rec \in {"committed", "note"}
    PROVE  <<a, b, d, e, f, g>> \in Steps /\ Agenda(r, c, p, <<a, b, d, e, f, g>>)
<1> DEFINE q == <<a, b, d, e, f, g>>
<1>1. /\ q \in Steps /\ q # <<>> /\ Len(q) = 6
      /\ q[1] = a /\ q[2] = b /\ q[3] = d /\ q[4] = e /\ q[5] = f /\ q[6] = g
  BY DEF Steps
<1> HIDE DEF q
<1> SUFFICES Agenda(r, c, p, q)
  BY <1>1 DEF q
<1>2. /\ 1..(Len(q) - 1) = {1, 2, 3, 4, 5}
      /\ 2..Len(q) = {2, 3, 4, 5, 6}
      /\ 2..(Len(q) - 1) = {2, 3, 4, 5}
  BY <1>1
<1>3. \A i \in 1..(Len(q) - 1) : Follows(q[i], q[i + 1])
  BY <1>1, <1>2
<1>4. \A i \in 2..(Len(q) - 1) : q[i].rec = "committed" => IsPlan(q[i - 1])
  BY <1>1, <1>2
<1> QED
  BY <1>1, <1>2, <1>3, <1>4 DEF Agenda
-----------------------------------------------------------------------------
(* What an advance may decide. *)

LEMMA Here ==
    ASSUME NEW r \in Replays, Order(r), r.state \in SEGMENT_STATES \ {"SEGMENT_SEALED"}
    PROVE  r.segment \in Segments /\ r.segment \notin r.sealed /\ NextSegment(r) = r.segment
<1>1. PICK m \in SegmentOrNone : InOrder(r, m)
  BY DEF Order
<1>2. r.segment = m + 1 /\ r.sealed = 1..m /\ m \in Nat
  BY <1>1 DEF InOrder, SegmentOrNone
<1>3. r.segment \in SegmentOrNone
  BY DEF Replays
<1>4. r.segment \in Segments /\ r.segment \notin r.sealed
  BY <1>2, <1>3 DEF Segments, SegmentOrNone
<1> QED
  BY <1>2, <1>4, NextIs

LEMMA HumanFits ==
    ASSUME NEW r \in Replays, r.state \notin TERMINAL \cup HUMAN_STATES, NEW t \in Transactions,
           t.to \in {"WAIT_HUMAN", "FAULT_LOCKED"}, t.kind = "none", t.attempt = 1,
           t.who = "conductor", t.reason # "operator_accept_short"
    PROVE  Fits(r, t)
<1>1. Allowed(r.state, t.to) /\ t.kind \in ActionsOf(r.state, t.to)
  BY DEF Allowed, ActionsOf
<1>2. MayDecide(r, t)
  BY DEF MayDecide, HUMAN_STATES
<1>3. SegmentFits(r, t) /\ OfSegment(t)
  BY DEF SegmentFits, OfSegment, SEGMENT_STATES
<1> QED
  BY <1>1, <1>2, <1>3 DEF Fits

\* A transaction of the segment the campaign is in.
LEMMA SegmentFitsHere ==
    ASSUME NEW r \in Replays, Order(r), r.state \in SEGMENT_STATES \ {"SEGMENT_SEALED"},
           NEW t \in Transactions, t.segment = r.segment,
           t.to \in SEGMENT_STATES \ {"SEGMENT_PREPARE"}, t.to \in FORWARD[r.state],
           t.kind \in ActionsOf(r.state, t.to), t.reason # "operator_accept_short",
           t.who \in {"conductor", "operator"}, t.kind = "launch_run" => t.who = "operator",
           t.kind = "none" => t.attempt = 1
    PROVE  Fits(r, t)
<1>1. t.segment \in Segments /\ t.segment \notin r.sealed
  BY Here
<1>2. Allowed(r.state, t.to) /\ t.kind = "launch_run" => t.to = "ARM_RUNNING"
  BY DEF Allowed, ActionsOf
<1>3. Allowed(r.state, t.to)
  BY DEF Allowed, SEGMENT_STATES, TERMINAL
<1>4. MayDecide(r, t)
  BY DEF MayDecide, HUMAN_STATES, SEGMENT_STATES
<1>5. SegmentFits(r, t) /\ OfSegment(t) /\ t.to # "ANALYZING"
  BY <1>1, <1>2, <1>3 DEF SegmentFits, OfSegment, SEGMENT_STATES, HUMAN_STATES
<1> QED
  BY <1>3, <1>4, <1>5 DEF Fits

\* The agenda of a transaction without a side effect, and with one.
LEMMA MoveSteps ==
    ASSUME NEW r \in Replays, NEW c, NEW p, r.open = NoTx, NEW n \in Nat,
           NEW l \in Lines, l.rec = "prepared", l.tx.kind = "none", Fits(r, l.tx)
    PROVE  <<l, CommitWith(n)>> \in Steps /\ Agenda(r, c, p, <<l, CommitWith(n)>>)
<1>1. First(r, c, p, l)
  BY DEF First
<1>2. CommitWith(n) \in Lines \cup {Act} /\ CommitWith(n).rec = "committed"
  BY PlainLines
<1>3. Follows(l, CommitWith(n)) /\ Later(r, CommitWith(n))
  BY <1>2 DEF Follows, Later, IsWait, IsPlan
<1> QED
  BY <1>1, <1>2, <1>3, TwoSteps

LEMMA ActSteps ==
    ASSUME NEW r \in Replays, NEW c, NEW p, r.open = NoTx,
           NEW l \in Lines, l.rec = "prepared", l.tx.kind # "none", Fits(r, l.tx),
           l.tx.kind = "launch_run" =>
              NotRepeated(r, l.tx) /\ c[l.tx.segment] = "absent" /\ ArmOf[l.tx.segment] \in p
    PROVE  <<l, Act>> \in Steps /\ Agenda(r, c, p, <<l, Act>>)
<1>1. First(r, c, p, l)
  BY DEF First
<1>2. Act \in Lines \cup {Act} /\ Act.rec = "act"
  BY PlainLines
<1>3. Follows(l, Act) /\ Later(r, Act)
  BY <1>2 DEF Follows, Later, IsWait, IsPlan
<1> QED
  BY <1>1, <1>2, <1>3, TwoSteps

LEMMA NoteSteps ==
    ASSUME NEW r, NEW c, NEW p, r.open = NoTx
    PROVE  /\ <<Note>> \in Steps /\ Agenda(r, c, p, <<Note>>)
           /\ <<PauseNote>> \in Steps /\ Agenda(r, c, p, <<PauseNote>>)
<1>1. First(r, c, p, Note) /\ First(r, c, p, PauseNote)
  BY PlainLines DEF First
<1> QED
  BY <1>1, PlainLines, OneStep
-----------------------------------------------------------------------------
(* The steps of the conductor that decide. *)

LEMMA RestUnlessAnswered ==
    ASSUME Inv, Advancing, ~answered
    PROVE  j.state \in REST_STATES \cup TERMINAL
<1>1. todo = <<>> /\ Len(todo) = 0
  BY DEF Advancing
<1>2. AtRest(j, todo) \/ ComesToRest(j, todo)
  BY DEF Inv, Advancing
<1> QED
  BY <1>1, <1>2 DEF AtRest, ComesToRest

LEMMA AtHand ==
    ASSUME Inv, Advancing
    PROVE  /\ j \in Replays /\ Order(j) /\ OpenFits(j) /\ Closed(j, child) /\ j.open = NoTx
           /\ Sound(j, child)
           /\ question \in Questions \cup {Nothing} /\ answer \in Questions \cup {Nothing}
           /\ answered \in BOOLEAN
  BY DEF Inv, Advancing, Sound, TypeOK

LEMMA Decided ==
    ASSUME Inv, Advancing, NEW q \in Steps, q # <<>>, Agenda(j, child, {port}, q), Does(q),
           question' \in Questions \cup {Nothing}, answer' \in Questions \cup {Nothing},
           answered' \in BOOLEAN,
           ~answered' => ~answered /\
              (q[1].rec = "prepared" => q[1].tx.to \in {"WAIT_HUMAN", "FAULT_LOCKED", "REPORTED"})
    PROVE  Inv'
<1>1. /\ j' = j /\ up' = up /\ up = TRUE /\ child' = child /\ port' = port /\ todo' = q
      /\ disturbed' = FALSE
  BY DEF Does, world, Advancing, Inv, TypeOK
<1>2. TypeOK'
  BY <1>1 DEF Inv, TypeOK, Steps
<1>3. Sound(j, child)' /\ Agenda(j, child, Served, todo)'
  BY <1>1 DEF Inv, Served
<1>4. ASSUME ~answered' PROVE AtRest(j, q)
  <2>1. j.state \in REST_STATES \cup TERMINAL /\ j.open = NoTx
    BY <1>4, RestUnlessAnswered, AtHand
  <2> QED
    BY <1>4, <2>1 DEF AtRest
<1>5. (up /\ ~answered => AtRest(j, todo) \/ ComesToRest(j, todo))'
  BY <1>1, <1>4
<1> QED
  BY <1>1, <1>2, <1>3, <1>5 DEF Inv

\* Without a question or an answer, from a state that is not a rest.
LEMMA DecidedOnTheWay ==
    ASSUME Inv, Advancing, j.state \notin REST_STATES \cup TERMINAL, NEW q \in Steps, q # <<>>,
           Agenda(j, child, {port}, q), Does(q), Quiet
    PROVE  Inv'
<1>1. answered
  BY RestUnlessAnswered
<1>2. answered' /\ answered' \in BOOLEAN
  BY <1>1, AtHand DEF Quiet, inbox
<1>3. question' \in Questions \cup {Nothing} /\ answer' \in Questions \cup {Nothing}
  BY AtHand DEF Quiet, inbox
<1> QED
  BY <1>2, <1>3, Decided

LEMMA PairIsSome == \A a, b : <<a, b>> # <<>> /\ <<a, b>>[1] = a /\ <<a>> # <<>> /\ <<a>>[1] = a
  OBVIOUS

\* A whole transaction without a side effect.
LEMMA DecidedMove ==
    ASSUME Inv, Advancing, j.state \notin REST_STATES \cup TERMINAL, Quiet, NEW n \in Nat,
           NEW l \in Lines, l.rec = "prepared", l.tx.kind = "none", Fits(j, l.tx),
           Does(<<l, CommitWith(n)>>)
    PROVE  Inv'
<1>1. <<l, CommitWith(n)>> \in Steps /\ Agenda(j, child, {port}, <<l, CommitWith(n)>>)
  BY AtHand, MoveSteps
<1> QED
  BY <1>1, PairIsSome, DecidedOnTheWay

LEMMA DecidedAct ==
    ASSUME Inv, Advancing, j.state \notin REST_STATES \cup TERMINAL, Quiet,
           NEW l \in Lines, l.rec = "prepared", l.tx.kind \notin {"none", "launch_run"},
           Fits(j, l.tx), Does(<<l, Act>>)
    PROVE  Inv'
<1>1. <<l, Act>> \in Steps /\ Agenda(j, child, {port}, <<l, Act>>)
  BY AtHand, ActSteps
<1> QED
  BY <1>1, PairIsSome, DecidedOnTheWay

LEMMA InDraftStep == ASSUME Inv, InDraft PROVE Inv'
<1> DEFINE l == Prepare("PLANNED", "plan_frozen", "none", "conductor", 0, 1)  t == l.tx
<1>1. Advancing /\ j.state = "DRAFT" /\ Quiet /\ Does(<<l, CommitWith(0)>>)
  BY PlainLines DEF InDraft, Move
<1>2. /\ t \in Transactions /\ t.to = "PLANNED" /\ t.reason = "plan_frozen" /\ t.kind = "none"
      /\ t.who = "conductor" /\ t.attempt = 1 /\ l.rec = "prepared" /\ l \in Lines
  BY StateWords, ReasonWords, OtherWords DEF Prepare, Transactions, Lines, Whos
<1> HIDE DEF l, t
<1>3. Fits(j, t)
  <2>1. Allowed(j.state, t.to) /\ t.kind \in ActionsOf(j.state, t.to)
    BY <1>1, <1>2 DEF Allowed, ActionsOf, FORWARD, TERMINAL
  <2>2. MayDecide(j, t) /\ SegmentFits(j, t) /\ OfSegment(t)
    BY <1>1, <1>2 DEF MayDecide, SegmentFits, OfSegment, HUMAN_STATES, SEGMENT_STATES
  <2> QED
    BY <1>2, <2>1, <2>2 DEF Fits
<1>4. j.state \notin REST_STATES \cup TERMINAL
  BY <1>1 DEF REST_STATES, HUMAN_STATES, TERMINAL
<1> QED
  BY <1>1, <1>2, <1>3, <1>4, DecidedMove DEF t

LEMMA InPlannedStep == ASSUME Inv, InPlanned PROVE Inv'
<1>1. Advancing /\ j.state = "PLANNED" /\ Quiet
  BY DEF InPlanned
<1>2. j.state \notin REST_STATES \cup TERMINAL
  BY <1>1 DEF REST_STATES, HUMAN_STATES, TERMINAL
<1>3. CASE j.pause
  <2> DEFINE l == Prepare("PAUSED", "pause_at_boundary", "none", "conductor", 0, 1)  t == l.tx
  <2>1. Does(<<l, CommitWith(0)>>)
    BY <1>3, PlainLines DEF InPlanned, Move
  <2>2. /\ t \in Transactions /\ t.to = "PAUSED" /\ t.reason = "pause_at_boundary" /\ t.kind = "none"
        /\ t.who = "conductor" /\ t.attempt = 1 /\ l.rec = "prepared" /\ l \in Lines
    BY StateWords, ReasonWords, OtherWords DEF Prepare, Transactions, Lines, Whos
  <2> HIDE DEF l, t
  <2>3. Allowed(j.state, t.to) /\ t.kind \in ActionsOf(j.state, t.to)
    BY <1>1, <2>2 DEF Allowed, ActionsOf, FORWARD, TERMINAL
  <2>4. MayDecide(j, t) /\ SegmentFits(j, t) /\ OfSegment(t)
    BY <1>1, <2>2 DEF MayDecide, SegmentFits, OfSegment, HUMAN_STATES, SEGMENT_STATES
  <2>5. Fits(j, t)
    BY <2>2, <2>3, <2>4 DEF Fits
  <2> QED
    BY <1>1, <1>2, <2>1, <2>2, <2>5, DecidedMove DEF t
<1>4. CASE ~j.pause
  <2> DEFINE l == Prepare("SEGMENT_PREPARE", "segment_started", "none", "conductor", 1, 1)  t == l.tx
  <2>1. Does(<<l, CommitWith(0)>>)
    BY <1>4, PlainLines DEF InPlanned, Move
  <2>2. 1 \in Segments /\ 1 \in SegmentOrNone
    BY DEF Segments, SegmentOrNone
  <2>3. /\ t \in Transactions /\ t.to = "SEGMENT_PREPARE" /\ t.reason = "segment_started" /\ t.kind = "none"
        /\ t.who = "conductor" /\ t.segment = 1 /\ t.attempt = 1 /\ l.rec = "prepared" /\ l \in Lines
    BY <2>2, StateWords, ReasonWords, OtherWords DEF Prepare, Transactions, Lines, Whos
  <2> HIDE DEF l, t
  <2>4. Allowed(j.state, t.to) /\ t.kind \in ActionsOf(j.state, t.to)
    BY <1>1, <2>3 DEF Allowed, ActionsOf, FORWARD, TERMINAL
  <2>5. NextSegment(j) = 1
    <3>1. PICK m \in SegmentOrNone : InOrder(j, m)
      BY <1>1, AtHand DEF Order
    <3>2. m = 0 /\ j.sealed = 1..m
      BY <1>1, <3>1 DEF InOrder
    <3>3. NextSegment(j) = m + 1
      BY <3>2, NextIs
    <3> QED
      BY <3>2, <3>3
  <2>6. MayDecide(j, t) /\ SegmentFits(j, t) /\ OfSegment(t)
    BY <1>1, <2>2, <2>3, <2>5 DEF MayDecide, SegmentFits, OfSegment, HUMAN_STATES, Segments
  <2>7. Fits(j, t)
    BY <2>3, <2>4, <2>6 DEF Fits
  <2> QED
    BY <1>1, <1>2, <2>1, <2>3, <2>7, DecidedMove DEF t
<1> QED
  BY <1>3, <1>4

LEMMA InSegmentPrepareStep == ASSUME Inv, InSegmentPrepare PROVE Inv'
<1>1. Advancing /\ j.state = "SEGMENT_PREPARE" /\ Quiet
  BY DEF InSegmentPrepare
<1>2. /\ j.state \notin REST_STATES \cup TERMINAL /\ j.state \notin TERMINAL \cup HUMAN_STATES
      /\ j \in Replays /\ Order(j) /\ j.segment \in SegmentOrNone
  BY <1>1, AtHand DEF REST_STATES, HUMAN_STATES, TERMINAL, Replays
<1> DEFINE l == Prepare("POLICY_STOP", "robot_free", "none", "conductor", j.segment, 1)  t == l.tx
<1>3. Does(<<l, CommitWith(0)>>)
  BY PlainLines DEF InSegmentPrepare, Move
<1>4. /\ t \in Transactions /\ t.to = "POLICY_STOP" /\ t.reason = "robot_free" /\ t.kind = "none"
      /\ t.who = "conductor" /\ t.segment = j.segment /\ t.attempt = 1
      /\ l.rec = "prepared" /\ l \in Lines
  BY <1>2, StateWords, ReasonWords, OtherWords DEF Prepare, Transactions, Lines, Whos
<1> HIDE DEF l, t
<1>5. Fits(j, t)
  BY <1>1, <1>2, <1>4, SegmentFitsHere DEF FORWARD, ActionsOf, SEGMENT_STATES
<1> QED
  BY <1>1, <1>2, <1>3, <1>4, <1>5, DecidedMove DEF t

LEMMA InPolicyStopStep == ASSUME Inv, InPolicyStop PROVE Inv'
<1>1. Advancing /\ j.state = "POLICY_STOP" /\ Quiet
  BY DEF InPolicyStop
<1>2. /\ j.state \notin REST_STATES \cup TERMINAL /\ j.state \notin TERMINAL \cup HUMAN_STATES
      /\ j \in Replays /\ Order(j) /\ j.segment \in SegmentOrNone
  BY <1>1, AtHand DEF REST_STATES, HUMAN_STATES, TERMINAL, Replays
<1>3. CASE SameArmServes
  <2> DEFINE l == Prepare("POLICY_START", "same_arm_kept", "none", "conductor", j.segment, 1)  t == l.tx
  <2>1. Does(<<l, CommitWith(0)>>)
    BY <1>3, PlainLines DEF InPolicyStop, Move
  <2>2. /\ t \in Transactions /\ t.to = "POLICY_START" /\ t.reason = "same_arm_kept" /\ t.kind = "none"
        /\ t.who = "conductor" /\ t.segment = j.segment /\ t.attempt = 1
        /\ l.rec = "prepared" /\ l \in Lines
    BY <1>2, StateWords, ReasonWords, OtherWords DEF Prepare, Transactions, Lines, Whos
  <2> HIDE DEF l, t
  <2>3. Fits(j, t)
    BY <1>1, <1>2, <2>2, SegmentFitsHere DEF FORWARD, ActionsOf, SEGMENT_STATES
  <2> QED
    BY <1>1, <1>2, <2>1, <2>2, <2>3, DecidedMove DEF t
<1>4. CASE ~SameArmServes
  <2> DEFINE l == Prepare("POLICY_START", "policy_stopped", "policy_stop", "conductor", j.segment, 1)  t == l.tx
  <2>1. Does(<<l, Act>>)
    BY <1>4, PlainLines DEF InPolicyStop, WithAct
  <2>2. /\ t \in Transactions /\ t.to = "POLICY_START" /\ t.reason = "policy_stopped" /\ t.kind = "policy_stop"
        /\ t.who = "conductor" /\ t.segment = j.segment /\ t.attempt = 1
        /\ l.rec = "prepared" /\ l \in Lines
    BY <1>2, StateWords, ReasonWords, OtherWords DEF Prepare, Transactions, Lines, Whos
  <2> HIDE DEF l, t
  <2>3. Fits(j, t)
    BY <1>1, <1>2, <2>2, SegmentFitsHere DEF FORWARD, ActionsOf, SEGMENT_STATES
  <2> QED
    BY <1>1, <1>2, <2>1, <2>2, <2>3, DecidedAct DEF t
<1> QED
  BY <1>3, <1>4

LEMMA InPolicyStartStep == ASSUME Inv, InPolicyStart PROVE Inv'
<1>1. Advancing /\ j.state = "POLICY_START" /\ Quiet
  BY DEF InPolicyStart
<1>2. /\ j.state \notin REST_STATES \cup TERMINAL /\ j.state \notin TERMINAL \cup HUMAN_STATES
      /\ j \in Replays /\ Order(j) /\ j.segment \in SegmentOrNone
  BY <1>1, AtHand DEF REST_STATES, HUMAN_STATES, TERMINAL, Replays
<1>3. CASE j.kept
  <2> DEFINE l == Prepare("POLICY_READY", "same_arm_kept", "none", "conductor", j.segment, 1)  t == l.tx
  <2>1. Does(<<l, CommitWith(0)>>)
    BY <1>3, PlainLines DEF InPolicyStart, Move
  <2>2. /\ t \in Transactions /\ t.to = "POLICY_READY" /\ t.reason = "same_arm_kept" /\ t.kind = "none"
        /\ t.who = "conductor" /\ t.segment = j.segment /\ t.attempt = 1
        /\ l.rec = "prepared" /\ l \in Lines
    BY <1>2, StateWords, ReasonWords, OtherWords DEF Prepare, Transactions, Lines, Whos
  <2> HIDE DEF l, t
  <2>3. Fits(j, t)
    BY <1>1, <1>2, <2>2, SegmentFitsHere DEF FORWARD, ActionsOf, SEGMENT_STATES
  <2> QED
    BY <1>1, <1>2, <2>1, <2>2, <2>3, DecidedMove DEF t
<1>4. CASE ~j.kept
  <2> DEFINE l == Prepare("POLICY_READY", "policy_started", "policy_start", "conductor", j.segment, 1)  t == l.tx
  <2>1. Does(<<l, Act>>)
    BY <1>4, PlainLines DEF InPolicyStart, WithAct
  <2>2. /\ t \in Transactions /\ t.to = "POLICY_READY" /\ t.reason = "policy_started" /\ t.kind = "policy_start"
        /\ t.who = "conductor" /\ t.segment = j.segment /\ t.attempt = 1
        /\ l.rec = "prepared" /\ l \in Lines
    BY <1>2, StateWords, ReasonWords, OtherWords DEF Prepare, Transactions, Lines, Whos
  <2> HIDE DEF l, t
  <2>3. Fits(j, t)
    BY <1>1, <1>2, <2>2, SegmentFitsHere DEF FORWARD, ActionsOf, SEGMENT_STATES
  <2> QED
    BY <1>1, <1>2, <2>1, <2>2, <2>3, DecidedAct DEF t
<1> QED
  BY <1>3, <1>4

LEMMA InPolicyReadyStep == ASSUME Inv, InPolicyReady PROVE Inv'
<1>1. Advancing /\ j.state = "POLICY_READY" /\ Quiet
  BY DEF InPolicyReady
<1>2. /\ j.state \notin REST_STATES \cup TERMINAL /\ j.state \notin TERMINAL \cup HUMAN_STATES
      /\ j \in Replays /\ Order(j) /\ j.segment \in SegmentOrNone
  BY <1>1, AtHand DEF REST_STATES, HUMAN_STATES, TERMINAL, Replays
<1>3. PICK status \in Readiness(ArmOf[j.segment]) :
          Does(CASE status = "ready"    -> Move("ENV_CONFIRM", "policy_ready", "conductor", j.segment)
                 [] status = "mismatch" -> ToHuman("FAULT_LOCKED", "listener_mismatch")
                 [] OTHER               -> ToHuman("WAIT_HUMAN", "policy_not_ready"))
  BY DEF InPolicyReady
<1>4. CASE status = "ready"
  <2> DEFINE l == Prepare("ENV_CONFIRM", "policy_ready", "none", "conductor", j.segment, 1)  t == l.tx
  <2>1. Does(<<l, CommitWith(0)>>)
    BY <1>3, <1>4, PlainLines DEF Move
  <2>2. /\ t \in Transactions /\ t.to = "ENV_CONFIRM" /\ t.reason = "policy_ready" /\ t.kind = "none"
        /\ t.who = "conductor" /\ t.segment = j.segment /\ t.attempt = 1
        /\ l.rec = "prepared" /\ l \in Lines
    BY <1>2, StateWords, ReasonWords, OtherWords DEF Prepare, Transactions, Lines, Whos
  <2> HIDE DEF l, t
  <2>3. Fits(j, t)
    BY <1>1, <1>2, <2>2, SegmentFitsHere DEF FORWARD, ActionsOf, SEGMENT_STATES
  <2> QED
    BY <1>1, <1>2, <2>1, <2>2, <2>3, DecidedMove DEF t
<1>5. CASE status = "mismatch"
  <2> DEFINE l == Prepare("FAULT_LOCKED", "listener_mismatch", "none", "conductor", j.segment, 1)  t == l.tx
  <2>1. Does(<<l, CommitWith(0)>>)
    BY <1>3, <1>5, PlainLines DEF ToHuman, Move
  <2>2. /\ t \in Transactions /\ t.to = "FAULT_LOCKED" /\ t.reason = "listener_mismatch" /\ t.kind = "none"
        /\ t.who = "conductor" /\ t.attempt = 1 /\ l.rec = "prepared" /\ l \in Lines
    BY <1>2, StateWords, ReasonWords, OtherWords DEF Prepare, Transactions, Lines, Whos
  <2> HIDE DEF l, t
  <2>3. Fits(j, t)
    BY <1>1, <1>2, <2>2, HumanFits
  <2> QED
    BY <1>1, <1>2, <2>1, <2>2, <2>3, DecidedMove DEF t
<1>6. CASE status \notin {"ready", "mismatch"}
  <2> DEFINE l == Prepare("WAIT_HUMAN", "policy_not_ready", "none", "conductor", j.segment, 1)  t == l.tx
  <2>1. Does(<<l, CommitWith(0)>>)
    BY <1>3, <1>6, PlainLines DEF ToHuman, Move
  <2>2. /\ t \in Transactions /\ t.to = "WAIT_HUMAN" /\ t.reason = "policy_not_ready" /\ t.kind = "none"
        /\ t.who = "conductor" /\ t.attempt = 1 /\ l.rec = "prepared" /\ l \in Lines
    BY <1>2, StateWords, ReasonWords, OtherWords DEF Prepare, Transactions, Lines, Whos
  <2> HIDE DEF l, t
  <2>3. Fits(j, t)
    BY <1>1, <1>2, <2>2, HumanFits
  <2> QED
    BY <1>1, <1>2, <2>1, <2>2, <2>3, DecidedMove DEF t
<1> QED
  BY <1>4, <1>5, <1>6

LEMMA InArmRunningStep == ASSUME Inv, InArmRunning PROVE Inv'
<1>1. Advancing /\ j.state = "ARM_RUNNING" /\ Quiet
  BY DEF InArmRunning
<1>2. /\ j.state \notin REST_STATES \cup TERMINAL /\ j.state \notin TERMINAL \cup HUMAN_STATES
      /\ j \in Replays /\ Order(j) /\ j.segment \in SegmentOrNone
  BY <1>1, AtHand DEF REST_STATES, HUMAN_STATES, TERMINAL, Replays
<1>3. CASE child[j.segment] = "absent"
  <2> DEFINE l == Prepare("WAIT_HUMAN", "child_missing", "none", "conductor", j.segment, 1)  t == l.tx
  <2>1. Does(<<l, CommitWith(0)>>)
    BY <1>3, PlainLines DEF InArmRunning, ToHuman, Move
  <2>2. /\ t \in Transactions /\ t.to = "WAIT_HUMAN" /\ t.reason = "child_missing" /\ t.kind = "none"
        /\ t.who = "conductor" /\ t.attempt = 1 /\ l.rec = "prepared" /\ l \in Lines
    BY <1>2, StateWords, ReasonWords, OtherWords DEF Prepare, Transactions, Lines, Whos
  <2> HIDE DEF l, t
  <2>3. Fits(j, t)
    BY <1>1, <1>2, <2>2, HumanFits
  <2> QED
    BY <1>1, <1>2, <2>1, <2>2, <2>3, DecidedMove DEF t
<1>4. CASE child[j.segment] = "failed"
  <2> DEFINE why == IF j.faults + 1 >= MaxFaults THEN "stop_rule_faults" ELSE "child_failed"
           l == Prepare("WAIT_HUMAN", why, "none", "conductor", j.segment, 1)  t == l.tx
  <2>1. Does(<<l, CommitWith(0)>>)
    BY <1>4, PlainLines DEF InArmRunning, ToHuman, Move
  <2>2. why \in REASONS /\ why # "operator_accept_short"
    BY ReasonWords
  <2> HIDE DEF why
  <2>3. /\ t \in Transactions /\ t.to = "WAIT_HUMAN" /\ t.reason = why /\ t.kind = "none"
        /\ t.who = "conductor" /\ t.attempt = 1 /\ l.rec = "prepared" /\ l \in Lines
    BY <1>2, <2>2, StateWords, ReasonWords, OtherWords DEF Prepare, Transactions, Lines, Whos
  <2> HIDE DEF l, t
  <2>4. Fits(j, t)
    BY <1>1, <1>2, <2>2, <2>3, HumanFits
  <2> QED
    BY <1>1, <1>2, <2>1, <2>3, <2>4, DecidedMove DEF t
<1>5. CASE child[j.segment] = "short" /\ ~MaySeal(j.segment)
  <2> DEFINE l == Prepare("WAIT_HUMAN", "segment_short", "none", "conductor", j.segment, 1)  t == l.tx
  <2>1. Does(<<l, CommitWith(0)>>)
    BY <1>5, PlainLines DEF InArmRunning, ToHuman, Move
  <2>2. /\ t \in Transactions /\ t.to = "WAIT_HUMAN" /\ t.reason = "segment_short" /\ t.kind = "none"
        /\ t.who = "conductor" /\ t.attempt = 1 /\ l.rec = "prepared" /\ l \in Lines
    BY <1>2, StateWords, ReasonWords, OtherWords DEF Prepare, Transactions, Lines, Whos
  <2> HIDE DEF l, t
  <2>3. Fits(j, t)
    BY <1>1, <1>2, <2>2, HumanFits
  <2> QED
    BY <1>1, <1>2, <2>1, <2>2, <2>3, DecidedMove DEF t
<1>6. CASE /\ child[j.segment] # "absent" /\ child[j.segment] # "failed"
            /\ ~(child[j.segment] = "short" /\ ~MaySeal(j.segment))
  <2> DEFINE l == Prepare("SEGMENT_SEALED", "run_completed", "none", "conductor", j.segment, 1)  t == l.tx
  <2>1. PICK n \in 0..MaxUnplanned : Does(<<l, CommitWith(n)>>)
    BY <1>6 DEF InArmRunning
  <2>2. /\ t \in Transactions /\ t.to = "SEGMENT_SEALED" /\ t.reason = "run_completed" /\ t.kind = "none"
        /\ t.who = "conductor" /\ t.segment = j.segment /\ t.attempt = 1
        /\ l.rec = "prepared" /\ l \in Lines
    BY <1>2, StateWords, ReasonWords, OtherWords DEF Prepare, Transactions, Lines, Whos
  <2> HIDE DEF l, t
  <2>3. Fits(j, t)
    BY <1>1, <1>2, <2>2, SegmentFitsHere DEF FORWARD, ActionsOf, SEGMENT_STATES
  <2>4. n \in Nat
    BY CampaignBoundsAssumption
  <2> QED
    BY <1>1, <1>2, <2>1, <2>2, <2>3, <2>4, DecidedMove DEF t
<1> QED
  BY <1>3, <1>4, <1>5, <1>6

LEMMA InSegmentSealedStep == ASSUME Inv, InSegmentSealed PROVE Inv'
<1>1. Advancing /\ j.state = "SEGMENT_SEALED" /\ Quiet
  BY DEF InSegmentSealed
<1>2. /\ j.state \notin REST_STATES \cup TERMINAL /\ j.state \notin TERMINAL \cup HUMAN_STATES
      /\ j \in Replays /\ Order(j) /\ j.segment \in SegmentOrNone
  BY <1>1, AtHand DEF REST_STATES, HUMAN_STATES, TERMINAL, Replays
<1>3. PICK m \in SegmentOrNone : InOrder(j, m)
  BY <1>2 DEF Order
<1>4. /\ j.segment = m /\ m # 0 /\ m \in Nat /\ m <= SegmentCount /\ j.sealed = 1..m
      /\ NextSegment(j) = m + 1
  BY <1>1, <1>3, NextIs DEF InOrder, SegmentOrNone, SEGMENT_STATES
<1>5. CASE PassesLimit
  <2> DEFINE l == Prepare("WAIT_HUMAN", "stop_rule_interventions", "none", "conductor", j.segment, 1)  t == l.tx
  <2>1. Does(<<l, CommitWith(0)>>)
    BY <1>5, PlainLines DEF InSegmentSealed, ToHuman, Move
  <2>2. /\ t \in Transactions /\ t.to = "WAIT_HUMAN" /\ t.reason = "stop_rule_interventions" /\ t.kind = "none"
        /\ t.who = "conductor" /\ t.attempt = 1 /\ l.rec = "prepared" /\ l \in Lines
    BY <1>2, StateWords, ReasonWords, OtherWords DEF Prepare, Transactions, Lines, Whos
  <2> HIDE DEF l, t
  <2>3. Fits(j, t)
    BY <1>1, <1>2, <2>2, HumanFits
  <2> QED
    BY <1>1, <1>2, <2>1, <2>2, <2>3, DecidedMove DEF t
<1>6. CASE ~PassesLimit /\ j.pause
  <2> DEFINE l == Prepare("PAUSED", "pause_at_boundary", "none", "conductor", 0, 1)  t == l.tx
  <2>1. Does(<<l, CommitWith(0)>>)
    BY <1>6, PlainLines DEF InSegmentSealed, Move
  <2>2. 0 \in SegmentOrNone
    BY <1>4 DEF SegmentOrNone
  <2>3. /\ t \in Transactions /\ t.to = "PAUSED" /\ t.reason = "pause_at_boundary" /\ t.kind = "none"
        /\ t.who = "conductor" /\ t.segment = 0 /\ t.attempt = 1
        /\ l.rec = "prepared" /\ l \in Lines
    BY <2>2, StateWords, ReasonWords, OtherWords DEF Prepare, Transactions, Lines, Whos
  <2> HIDE DEF l, t
  <2>4. Allowed(j.state, t.to) /\ t.kind \in ActionsOf(j.state, t.to) /\ MayDecide(j, t)
    BY <1>1, <2>3 DEF Allowed, ActionsOf, FORWARD, TERMINAL, MayDecide, HUMAN_STATES
  <2>5. SegmentFits(j, t) /\ OfSegment(t)
    BY <2>3 DEF SegmentFits, OfSegment, SEGMENT_STATES
  <2>6. Fits(j, t)
    BY <2>3, <2>4, <2>5 DEF Fits
  <2> QED
    BY <1>1, <1>2, <2>1, <2>3, <2>6, DecidedMove DEF t
<1>7. CASE ~PassesLimit /\ ~j.pause /\ j.segment >= SegmentCount
  <2> DEFINE l == Prepare("ANALYZING", "campaign_complete", "none", "conductor", 0, 1)  t == l.tx
  <2>1. Does(<<l, CommitWith(0)>>)
    BY <1>7, PlainLines DEF InSegmentSealed, Move
  <2>2. 0 \in SegmentOrNone
    BY <1>4 DEF SegmentOrNone
  <2>3. /\ t \in Transactions /\ t.to = "ANALYZING" /\ t.reason = "campaign_complete" /\ t.kind = "none"
        /\ t.who = "conductor" /\ t.segment = 0 /\ t.attempt = 1
        /\ l.rec = "prepared" /\ l \in Lines
    BY <2>2, StateWords, ReasonWords, OtherWords DEF Prepare, Transactions, Lines, Whos
  <2> HIDE DEF l, t
  <2>4. Allowed(j.state, t.to) /\ t.kind \in ActionsOf(j.state, t.to) /\ MayDecide(j, t)
    BY <1>1, <2>3 DEF Allowed, ActionsOf, FORWARD, TERMINAL, MayDecide, HUMAN_STATES
  <2>5. SegmentFits(j, t) /\ OfSegment(t) /\ j.sealed = Segments
    BY <1>4, <1>7, <2>3 DEF SegmentFits, OfSegment, SEGMENT_STATES, Segments
  <2>6. Fits(j, t)
    BY <2>3, <2>4, <2>5 DEF Fits
  <2> QED
    BY <1>1, <1>2, <2>1, <2>3, <2>6, DecidedMove DEF t
<1>8. CASE ~PassesLimit /\ ~j.pause /\ ~(j.segment >= SegmentCount)
  <2> DEFINE l == Prepare("SEGMENT_PREPARE", "segment_started", "none", "conductor", j.segment + 1, 1)  t == l.tx
  <2>1. Does(<<l, CommitWith(0)>>)
    BY <1>8, PlainLines DEF InSegmentSealed, Move
  <2>2. j.segment + 1 \in SegmentOrNone
    BY <1>4, <1>8 DEF SegmentOrNone
  <2>3. /\ t \in Transactions /\ t.to = "SEGMENT_PREPARE" /\ t.reason = "segment_started" /\ t.kind = "none"
        /\ t.who = "conductor" /\ t.segment = j.segment + 1 /\ t.attempt = 1
        /\ l.rec = "prepared" /\ l \in Lines
    BY <2>2, StateWords, ReasonWords, OtherWords DEF Prepare, Transactions, Lines, Whos
  <2> HIDE DEF l, t
  <2>4. Allowed(j.state, t.to) /\ t.kind \in ActionsOf(j.state, t.to) /\ MayDecide(j, t)
    BY <1>1, <2>3 DEF Allowed, ActionsOf, FORWARD, TERMINAL, MayDecide, HUMAN_STATES
  <2>5. SegmentFits(j, t) /\ OfSegment(t)
    BY <1>4, <1>8, <2>3 DEF SegmentFits, OfSegment, Segments
  <2>6. Fits(j, t)
    BY <2>3, <2>4, <2>5 DEF Fits
  <2> QED
    BY <1>1, <1>2, <2>1, <2>3, <2>6, DecidedMove DEF t
<1> QED
  BY <1>5, <1>6, <1>7, <1>8

LEMMA InAnalyzingStep == ASSUME Inv, InAnalyzing PROVE Inv'
<1> DEFINE l == Prepare("REPORTED", "report_written", "report", "conductor", 0, 1)  t == l.tx
<1>1. Advancing /\ j.state = "ANALYZING" /\ Quiet /\ Does(<<l, Act>>)
  BY DEF InAnalyzing
<1>2. /\ t \in Transactions /\ t.to = "REPORTED" /\ t.reason = "report_written" /\ t.kind = "report"
      /\ t.who = "conductor" /\ t.attempt = 1 /\ l.rec = "prepared" /\ l \in Lines
  BY StateWords, ReasonWords, OtherWords DEF Prepare, Transactions, Lines, Whos
<1> HIDE DEF l, t
<1>3. Allowed(j.state, t.to) /\ t.kind \in ActionsOf(j.state, t.to) /\ MayDecide(j, t)
  BY <1>1, <1>2 DEF Allowed, ActionsOf, FORWARD, TERMINAL, MayDecide, HUMAN_STATES
<1>4. Fits(j, t)
  BY <1>2, <1>3 DEF Fits, SegmentFits, OfSegment, SEGMENT_STATES
<1>5. <<l, Act>> \in Steps /\ Agenda(j, child, {port}, <<l, Act>>)
  BY <1>1, <1>2, <1>4, AtHand, ActSteps DEF t
<1>6. /\ question' \in Questions \cup {Nothing} /\ answer' \in Questions \cup {Nothing}
      /\ answered' \in BOOLEAN /\ (~answered' => ~answered)
  BY <1>1, AtHand DEF Quiet, inbox
<1> QED
  BY <1>1, <1>2, <1>5, <1>6, PairIsSome, Decided DEF t

LEMMA TakePauseStep == ASSUME Inv, TakePause PROVE Inv'
<1>1. Advancing /\ Quiet /\ Does(<<PauseNote>>)
  BY DEF TakePause
<1>2. <<PauseNote>> \in Steps /\ Agenda(j, child, {port}, <<PauseNote>>)
  BY <1>1, AtHand, NoteSteps
<1>3. /\ question' \in Questions \cup {Nothing} /\ answer' \in Questions \cup {Nothing}
      /\ answered' \in BOOLEAN /\ (~answered' => ~answered)
  BY <1>1, AtHand DEF Quiet, inbox
<1>4. <<PauseNote>> # <<>> /\ <<PauseNote>>[1].rec # "prepared"
  BY PairIsSome, PlainLines
<1> QED
  BY <1>1, <1>2, <1>3, <1>4, Decided

LEMMA StaleTyped ==
    \A x \in Questions \cup {Nothing} : Stale(x) \in Questions \cup {Nothing}
                                      /\ Moved(x) \in Questions \cup {Nothing}
  BY DEF Stale, Moved, Questions

LEMMA DropAnswerStep == ASSUME Inv, DropAnswer PROVE Inv'
<1>1. Advancing /\ Does(<<Note>>) /\ answer' = Nothing /\ question' = question /\ answered' = answered
  BY DEF DropAnswer
<1>2. <<Note>> \in Steps /\ Agenda(j, child, {port}, <<Note>>)
  BY <1>1, AtHand, NoteSteps
<1>3. /\ question' \in Questions \cup {Nothing} /\ answer' \in Questions \cup {Nothing}
      /\ answered' \in BOOLEAN /\ (~answered' => ~answered)
  BY <1>1, AtHand
<1>4. <<Note>> # <<>> /\ <<Note>>[1].rec # "prepared"
  BY PairIsSome, PlainLines
<1> QED
  BY <1>1, <1>2, <1>3, <1>4, Decided

LEMMA AskStep == ASSUME Inv, Ask PROVE Inv'
<1>1. /\ Advancing /\ question' = [fresh |-> TRUE, moved |-> FALSE]
      /\ j' = j /\ up' = up /\ todo' = todo /\ answer' = answer /\ child' = child /\ port' = port
      /\ answered' = answered /\ disturbed' = disturbed
  BY DEF Ask, world, ghosts
<1>2. question' \in Questions \cup {Nothing}
  BY <1>1 DEF Questions
<1>3. TypeOK'
  BY <1>1, <1>2 DEF Inv, TypeOK
<1> QED
  BY <1>1, <1>3 DEF Inv, Served

LEMMA Taken ==
    ASSUME Inv, NEW q \in Steps, q # <<>>, TakeAnswer(q), Agenda(j, child, {port}, q)
    PROVE  Inv'
<1>1. Advancing /\ Does(q) /\ answer' \in {Nothing, Stale(answer)} /\ question' = Nothing
      /\ answered' = TRUE
  BY DEF TakeAnswer
<1>2. question' \in Questions \cup {Nothing} /\ answer' \in Questions \cup {Nothing}
      /\ answered' \in BOOLEAN
  BY <1>1, AtHand, StaleTyped
<1> QED
  BY <1>1, <1>2, Decided

LEMMA TakenMove ==
    ASSUME Inv, NEW l \in Lines, l.rec = "prepared", l.tx.kind = "none", Fits(j, l.tx),
           TakeAnswer(<<l, CommitWith(0)>>)
    PROVE  Inv'
<1>1. Advancing
  BY DEF TakeAnswer
<1>2. <<l, CommitWith(0)>> \in Steps /\ Agenda(j, child, {port}, <<l, CommitWith(0)>>)
  BY <1>1, AtHand, MoveSteps
<1> QED
  BY <1>2, PairIsSome, Taken

LEMMA TakenNote == ASSUME Inv, TakeAnswer(<<Note>>) PROVE Inv'
<1>1. Advancing
  BY DEF TakeAnswer
<1>2. <<Note>> \in Steps /\ Agenda(j, child, {port}, <<Note>>)
  BY <1>1, AtHand, NoteSteps
<1> QED
  BY <1>2, PairIsSome, Taken

LEMMA TakenAbort ==
    ASSUME Inv, j.state \notin TERMINAL,
           TakeAnswer(Move("ABORTED", "operator_abort", "operator", 0))
    PROVE  Inv'
<1> DEFINE l == Prepare("ABORTED", "operator_abort", "none", "operator", 0, 1)  t == l.tx
<1>1. TakeAnswer(<<l, CommitWith(0)>>)
  BY PlainLines DEF Move
<1>2. /\ t \in Transactions /\ t.to = "ABORTED" /\ t.reason = "operator_abort" /\ t.kind = "none"
      /\ t.who = "operator" /\ t.attempt = 1 /\ l.rec = "prepared" /\ l \in Lines
  BY StateWords, ReasonWords, OtherWords DEF Prepare, Transactions, Lines, Whos
<1> HIDE DEF l, t
<1>3. Allowed(j.state, t.to) /\ t.kind \in ActionsOf(j.state, t.to) /\ MayDecide(j, t)
  BY <1>2 DEF Allowed, ActionsOf, MayDecide
<1>4. Fits(j, t)
  BY <1>2, <1>3 DEF Fits, SegmentFits, OfSegment, SEGMENT_STATES
<1> QED
  BY <1>1, <1>2, <1>4, TakenMove DEF t

LEMMA TripleIsSome == \A a, b, d : <<a, b, d>> # <<>>
  OBVIOUS

\* The launch itself: the run is not there and its own policy listens.
LEMMA TakenLaunch ==
    ASSUME Inv, j.state = "ENV_CONFIRM", NotThere(j.segment), port = ArmOf[j.segment],
           TakeAnswer(WithAct("ARM_RUNNING", "run_launched", "launch_run", "operator",
                              NextAttempt(j.segment)))
    PROVE  Inv'
<1> DEFINE s == j.segment  last == j.launches[s]
           l == Prepare("ARM_RUNNING", "run_launched", "launch_run", "operator", s, last.n + 1)
           t == l.tx
<1>1. TakeAnswer(<<l, Act>>) /\ Advancing
  BY DEF WithAct, NextAttempt, TakeAnswer
<1>2. j \in Replays /\ Order(j) /\ Closed(j, child) /\ j.open = NoTx
  BY <1>1, AtHand
<1>3. s \in Segments /\ s \in SegmentOrNone
  BY <1>2, Here, OtherWords DEF SEGMENT_STATES
<1>4. last.n \in Nat /\ last.n + 1 \in Nat
  BY <1>2, <1>3, LaunchTyped
<1>5. /\ t \in Transactions /\ t.to = "ARM_RUNNING" /\ t.reason = "run_launched"
      /\ t.kind = "launch_run" /\ t.who = "operator" /\ t.segment = s /\ t.attempt = last.n + 1
      /\ l.rec = "prepared" /\ l \in Lines
  BY <1>3, <1>4, StateWords, ReasonWords, OtherWords DEF Prepare, Transactions, Lines, Whos
<1> HIDE DEF l, t
<1>6. Fits(j, t)
  BY <1>2, <1>5, SegmentFitsHere DEF FORWARD, ActionsOf, SEGMENT_STATES
<1>7. NotRepeated(j, t)
  <2>1. <<s, last.n + 1>> \notin j.attempted
    <3> SUFFICES ASSUME <<s, last.n + 1>> \in j.attempted PROVE FALSE
      OBVIOUS
    <3>1. <<s, last.n + 1>>[2] <= j.launches[<<s, last.n + 1>>[1]].n
      BY <1>2 DEF Closed
    <3> QED
      BY <1>4, <3>1
  <2>2. child[s] = "absent" /\ ~Launching(j)
    BY <1>2 DEF NotThere, Launching
  <2>3. last.n > 0 => last.closed /\ ~last.committed /\ last.executed # "yes"
    BY <1>2, <1>3, <2>2 DEF Closed
  <2> QED
    BY <1>5, <2>1, <2>3 DEF NotRepeated
<1>8. <<l, Act>> \in Steps /\ Agenda(j, child, {port}, <<l, Act>>)
  BY <1>2, <1>5, <1>6, <1>7, ActSteps DEF t, NotThere
<1> QED
  BY <1>1, <1>8, PairIsSome, Taken

LEMMA InEnvConfirmStep == ASSUME Inv, InEnvConfirm PROVE Inv'
<1>1. j.state = "ENV_CONFIRM" /\ Advancing
  BY DEF InEnvConfirm, TakeAnswer
<1>2. /\ j.state \notin TERMINAL /\ j.state \notin TERMINAL \cup HUMAN_STATES
      /\ j \in Replays /\ j.segment \in SegmentOrNone /\ j.open = NoTx
  BY <1>1, AtHand DEF HUMAN_STATES, TERMINAL, Replays
<1>3. CASE TakeAnswer(Move("ABORTED", "operator_abort", "operator", 0))
  BY <1>2, <1>3, TakenAbort
<1>4. CASE TakeAnswer(<<Note>>)
  BY <1>4, TakenNote
<1>5. ASSUME NEW status \in Readiness(ArmOf[j.segment]), NEW verified \in BOOLEAN,
             TakeAnswer(AfterConfirm(status, verified))
      PROVE  Inv'
  <2>1. CASE status = "mismatch"
    <3> DEFINE l == Prepare("FAULT_LOCKED", "listener_mismatch", "none", "conductor", j.segment, 1)  t == l.tx
    <3>1. TakeAnswer(<<l, CommitWith(0)>>)
      BY <1>5, <2>1, PlainLines DEF AfterConfirm, ToHuman, Move
    <3>2. /\ t \in Transactions /\ t.to = "FAULT_LOCKED" /\ t.reason = "listener_mismatch" /\ t.kind = "none"
          /\ t.who = "conductor" /\ t.attempt = 1 /\ l.rec = "prepared" /\ l \in Lines
      BY <1>2, StateWords, ReasonWords, OtherWords DEF Prepare, Transactions, Lines, Whos
    <3> HIDE DEF l, t
    <3>3. Fits(j, t)
      BY <1>2, <3>2, HumanFits
    <3> QED
      BY <3>1, <3>2, <3>3, TakenMove DEF t
  <2>2. CASE status = "not_ready"
    <3> DEFINE l == Prepare("WAIT_HUMAN", "policy_not_ready", "none", "conductor", j.segment, 1)  t == l.tx
    <3>1. TakeAnswer(<<l, CommitWith(0)>>)
      BY <1>5, <2>2, PlainLines DEF AfterConfirm, ToHuman, Move
    <3>2. /\ t \in Transactions /\ t.to = "WAIT_HUMAN" /\ t.reason = "policy_not_ready" /\ t.kind = "none"
          /\ t.who = "conductor" /\ t.attempt = 1 /\ l.rec = "prepared" /\ l \in Lines
      BY <1>2, StateWords, ReasonWords, OtherWords DEF Prepare, Transactions, Lines, Whos
    <3> HIDE DEF l, t
    <3>3. Fits(j, t)
      BY <1>2, <3>2, HumanFits
    <3> QED
      BY <3>1, <3>2, <3>3, TakenMove DEF t
  <2>3. CASE status = "ready" /\ ~verified
    <3> DEFINE l == Prepare("FAULT_LOCKED", "plan_changed", "none", "conductor", j.segment, 1)  t == l.tx
               d == CommitWith(0)
    <3>1. TakeAnswer(<<Note>> \o <<l, d>>)
      BY <1>5, <2>3, PlainLines DEF AfterConfirm, ToHuman, Move
    <3>2. /\ t \in Transactions /\ t.to = "FAULT_LOCKED" /\ t.reason = "plan_changed" /\ t.kind = "none"
          /\ t.who = "conductor" /\ t.attempt = 1 /\ l.rec = "prepared" /\ l \in Lines
      BY <1>2, StateWords, ReasonWords, OtherWords DEF Prepare, Transactions, Lines, Whos
    <3>3. d \in Lines /\ d.rec = "committed" /\ Note \in Lines /\ Note.rec = "note"
      BY PlainLines
    <3> HIDE DEF l, t, d
    <3>4. IsWait(l) /\ ~IsPlan(l)
      BY <3>2 DEF IsWait, IsPlan, t
    <3>5. First(j, child, {port}, Note)
      BY <1>2, <3>3 DEF First
    <3>6. Follows(Note, l) /\ Follows(l, d) /\ Later(j, l) /\ Later(j, d)
      BY <1>1, <1>2, <3>2, <3>3, <3>4 DEF Follows, Later, IsWait, IsPlan, t
    <3>7. <<Note, l, d>> \in Steps /\ Agenda(j, child, {port}, <<Note, l, d>>)
      BY <3>2, <3>3, <3>5, <3>6, ThreeSteps
    <3>8. <<Note>> \o <<l, d>> = <<Note, l, d>>
      BY <3>2, <3>3, OneAndTwo
    <3> QED
      BY <3>1, <3>7, <3>8, TripleIsSome, Taken
  <2>4. CASE status = "ready" /\ verified /\ ~NotThere(j.segment)
    <3> DEFINE l == Prepare("FAULT_LOCKED", "foreign_run", "none", "conductor", j.segment, 1)  t == l.tx
    <3>1. TakeAnswer(<<l, CommitWith(0)>>)
      BY <1>5, <2>4, PlainLines DEF AfterConfirm, ToHuman, Move
    <3>2. /\ t \in Transactions /\ t.to = "FAULT_LOCKED" /\ t.reason = "foreign_run" /\ t.kind = "none"
          /\ t.who = "conductor" /\ t.attempt = 1 /\ l.rec = "prepared" /\ l \in Lines
      BY <1>2, StateWords, ReasonWords, OtherWords DEF Prepare, Transactions, Lines, Whos
    <3> HIDE DEF l, t
    <3>3. Fits(j, t)
      BY <1>2, <3>2, HumanFits
    <3> QED
      BY <3>1, <3>2, <3>3, TakenMove DEF t
  <2>5. CASE status = "ready" /\ verified /\ NotThere(j.segment)
    <3>1. TakeAnswer(WithAct("ARM_RUNNING", "run_launched", "launch_run", "operator",
                             NextAttempt(j.segment)))
      BY <1>5, <2>5 DEF AfterConfirm
    <3>2. port = ArmOf[j.segment]
      BY <2>5 DEF Readiness
    <3> QED
      BY <1>1, <2>5, <3>1, <3>2, TakenLaunch
  <2>6. status \in {"ready", "not_ready", "mismatch"}
    BY DEF Readiness
  <2> QED
    BY <2>1, <2>2, <2>3, <2>4, <2>5, <2>6
<1> QED
  BY <1>3, <1>4, <1>5 DEF InEnvConfirm

LEMMA WaitingForPersonStep == ASSUME Inv, WaitingForPerson PROVE Inv'
<1>1. j.state \in HUMAN_STATES /\ Advancing
  BY DEF WaitingForPerson, TakeAnswer
<1>2. j.state \notin TERMINAL /\ j \in Replays /\ Order(j) /\ j.open = NoTx
  BY <1>1, AtHand DEF HUMAN_STATES, TERMINAL
<1>3. CASE TakeAnswer(Move("ABORTED", "operator_abort", "operator", 0))
  BY <1>2, <1>3, TakenAbort
<1>4. CASE TakeAnswer(<<Note>>)
  BY <1>4, TakenNote
<1>5. ASSUME NEW relaunch \in BOOLEAN, NEW accept \in BOOLEAN, TakeAnswer(Resume(relaunch, accept))
      PROVE  Inv'
  <2> DEFINE to == ResumeTarget(relaunch)
             s == NextSegment(j)
             g == IF to = "ANALYZING" THEN 0 ELSE s
             why == IF j.waitReason = "segment_short" /\ to = "ARM_RUNNING" /\ accept
                    THEN "operator_accept_short" ELSE "operator_resume"
             l == Prepare(to, why, "none", "operator", g, 1)  t == l.tx
  <2>1. TakeAnswer(<<l, CommitWith(0)>>)
    BY <1>5, PlainLines DEF Resume, Move
  <2>2. PICK m \in SegmentOrNone : InOrder(j, m)
    BY <1>2 DEF Order
  <2>3. m \in Nat /\ m <= SegmentCount /\ j.sealed = 1..m /\ s = m + 1
    BY <2>2, NextIs DEF InOrder, SegmentOrNone
  <2>4. /\ to \in RESUME_TARGETS
        /\ to = "ANALYZING" <=> s > SegmentCount
        /\ to = "ARM_RUNNING" => Launched(j, s)
    BY <2>3 DEF ResumeTarget, RESUME_TARGETS
  <2>5. /\ why \in REASONS /\ (why = "operator_accept_short" => to = "ARM_RUNNING")
        /\ to \in CAMPAIGN_STATES /\ g \in SegmentOrNone
        /\ (to # "ANALYZING" => g = s /\ s \in Segments /\ s \notin j.sealed)
    BY <2>3, <2>4, ReasonWords, StateWords DEF RESUME_TARGETS, SegmentOrNone, Segments
  <2> HIDE DEF to, s, g, why
  <2>6. /\ t \in Transactions /\ t.to = to /\ t.reason = why /\ t.kind = "none"
        /\ t.who = "operator" /\ t.segment = g /\ t.attempt = 1
        /\ l.rec = "prepared" /\ l \in Lines
    BY <2>5, OtherWords DEF Prepare, Transactions, Lines, Whos
  <2> HIDE DEF l, t
  <2>7. Allowed(j.state, t.to) /\ t.kind \in ActionsOf(j.state, t.to) /\ MayDecide(j, t)
    BY <1>1, <1>2, <2>4, <2>6 DEF Allowed, ActionsOf, FORWARD, MayDecide, HUMAN_STATES, RESUME_TARGETS
  <2>8. t.to = "ANALYZING" => j.sealed = Segments
    BY <2>3, <2>4, <2>6 DEF Segments
  <2>9. OfSegment(t)
    BY <2>4, <2>5, <2>6 DEF OfSegment, SEGMENT_STATES, RESUME_TARGETS
  <2>10. SegmentFits(j, t)
    <3>1. CASE to = "SEGMENT_PREPARE"
      BY <2>5, <2>6, <3>1 DEF SegmentFits, Segments, s
    <3>2. CASE to = "ARM_RUNNING"
      <4>1. s \in Segments /\ Launched(j, s) /\ s = j.segment
        BY <2>2, <2>4, <2>5, <3>2 DEF InOrder
      <4> QED
        BY <2>5, <2>6, <3>2, <4>1 DEF SegmentFits, SEGMENT_STATES
    <3>3. CASE to = "ANALYZING"
      BY <2>6, <3>3 DEF SegmentFits, SEGMENT_STATES
    <3> QED
      BY <2>4, <3>1, <3>2, <3>3 DEF RESUME_TARGETS
  <2>11. Fits(j, t)
    BY <2>6, <2>7, <2>8, <2>9, <2>10 DEF Fits
  <2> QED
    BY <2>1, <2>6, <2>11, TakenMove DEF t
<1> QED
  BY <1>3, <1>4, <1>5 DEF WaitingForPerson
-----------------------------------------------------------------------------
(* The side effects. *)

LEMMA ActingIs ==
    ASSUME Inv, Acting
    PROVE  /\ j \in Replays /\ Sound(j, child) /\ up = TRUE
           /\ j.open # NoTx /\ j.open \in Transactions /\ Fits(j, j.open) /\ Kind # "none"
           /\ j.ack = "none" /\ j.segment \in SegmentOrNone
           /\ j.state \in {"POLICY_STOP", "POLICY_START", "ENV_CONFIRM", "ANALYZING"}
           /\ Launching(j) => /\ child[j.segment] = "absent" /\ ArmOf[j.segment] \in Served
                              /\ j.open.segment = j.segment /\ j.segment \in Segments
           /\ ~answered => Kind = "report" /\ AtRest(j, <<>>)
<1>1. /\ todo \in Seq(Lines \cup {Act}) /\ todo # <<>> /\ Len(todo) \in Nat /\ Len(todo) > 0
      /\ Head(todo) = todo[1] /\ todo[1] = Act /\ todo[1].rec = "act" /\ up = TRUE
  BY TailIs, PlainLines DEF Inv, TypeOK, Acting
<1>2. /\ j \in Replays /\ Sound(j, child) /\ Order(j) /\ OpenFits(j) /\ j.segment \in SegmentOrNone
  BY DEF Inv, Sound, Replays
<1>3. First(j, child, Served, todo[1])
  BY <1>1 DEF Inv, Agenda
<1>4. /\ j.open # NoTx /\ Kind # "none" /\ j.ack = "none"
      /\ Launching(j) => child[j.open.segment] = "absent" /\ ArmOf[j.open.segment] \in Served
  BY <1>1, <1>3 DEF First, Kind
<1>5. j.open \in Transactions /\ Fits(j, j.open)
  BY <1>2, <1>4 DEF OpenFits, Replays
<1>6. /\ j.state \in {"POLICY_STOP", "POLICY_START", "ENV_CONFIRM", "ANALYZING"}
      /\ Kind # "report" => j.open.to \notin {"WAIT_HUMAN", "FAULT_LOCKED", "REPORTED"}
  BY <1>4, <1>5 DEF Fits, ActionsOf, Kind
<1>7. Launching(j) => j.open.segment = j.segment /\ j.segment \in Segments
  BY <1>2, LaunchWhere
<1>8. ASSUME ~answered PROVE Kind = "report" /\ AtRest(j, <<>>)
  <2>1. ~ComesToRest(j, todo)
    BY <1>1 DEF ComesToRest
  <2>2. AtRest(j, todo)
    BY <1>1, <1>8, <2>1 DEF Inv
  <2> QED
    BY <1>4, <1>6, <2>2 DEF AtRest
<1> QED
  BY <1>1, <1>2, <1>4, <1>5, <1>6, <1>7, <1>8

LEMMA Resulted ==
    ASSUME Inv, Acting, NEW q \in Steps, q # <<>>, todo' = q, Agenda(j, child', Served', q),
           j' = j, up' = up, question' = question, answer' = answer, answered' = answered,
           disturbed' = FALSE, child' \in [Segments -> ChildStates], port' \in Arms \cup {Nobody, Foreign},
           \A s \in Segments : child[s] # "absent" => child'[s] # "absent",
           Kind = "report" => q[1].rec # "prepared"
    PROVE  Inv'
<1>1. TypeOK'
  BY DEF Inv, TypeOK, Steps
<1>2. Sound(j, child)'
  <2>1. Closed(j, child')
    BY DEF Inv, Sound, Closed
  <2> QED
    BY <2>1 DEF Inv, Sound
<1>3. Agenda(j, child, Served, todo)'
  OBVIOUS
<1>4. (up /\ ~answered => AtRest(j, todo) \/ ComesToRest(j, todo))'
  <2> SUFFICES ASSUME ~answered PROVE AtRest(j, q)
    OBVIOUS
  <2>1. Kind = "report" /\ AtRest(j, <<>>)
    BY ActingIs
  <2> QED
    BY <2>1 DEF AtRest
<1>5. up' /\ todo' # <<>>
  BY ActingIs
<1> QED
  BY <1>1, <1>2, <1>3, <1>4, <1>5 DEF Inv

\* It was done; it was not or nobody knows.
LEMMA DoneSteps ==
    ASSUME Inv, Acting, NEW c, NEW p, Launching(j) => c[j.open.segment] # "absent"
    PROVE  /\ <<Ack("yes"), Commit>> \in Steps /\ Agenda(j, c, p, <<Ack("yes"), Commit>>)
           /\ <<Ack("yes"), Commit>> # <<>> /\ <<Ack("yes"), Commit>>[1].rec # "prepared"
<1>1. /\ Ack("yes") \in Lines /\ Ack("yes").rec = "acknowledged" /\ Ack("yes").executed = "yes"
      /\ Commit \in Lines /\ Commit.rec = "committed"
  BY PlainLines DEF Executed
<1>2. First(j, c, p, Ack("yes"))
  BY <1>1, ActingIs DEF First
<1>3. Follows(Ack("yes"), Commit) /\ Later(j, Commit)
  BY <1>1 DEF Follows, Later, IsWait, IsPlan
<1>4. <<Ack("yes"), Commit>> \in Steps /\ Agenda(j, c, p, <<Ack("yes"), Commit>>)
  BY <1>1, <1>2, <1>3, TwoSteps
<1> QED
  BY <1>1, <1>4, PairIsSome

LEMMA GivenUpSteps ==
    ASSUME Inv, Acting, NEW c, NEW p, NEW e \in Executed,
           e = "yes" /\ Launching(j) => c[j.open.segment] # "absent",
           NEW to \in {"WAIT_HUMAN", "FAULT_LOCKED"}, NEW reason \in REASONS,
           reason \notin {"operator_accept_short", "segment_short"}
    PROVE  LET q == <<Ack(e), Abort>> \o ToHuman(to, reason) IN
           q \in Steps /\ q # <<>> /\ q[1].rec # "prepared" /\ Agenda(j, c, p, q)
<1> DEFINE l == Prepare(to, reason, "none", "conductor", j.segment, 1)  t == l.tx
           a == Ack(e)  d == CommitWith(0)
<1>1. /\ a \in Lines /\ a.rec = "acknowledged" /\ a.executed = e
      /\ Abort \in Lines /\ Abort.rec = "aborted" /\ d \in Lines /\ d.rec = "committed"
  BY PlainLines
<1>2. /\ j.segment \in SegmentOrNone /\ to \in CAMPAIGN_STATES
  BY ActingIs, StateWords
<1>3. /\ t \in Transactions /\ t.to = to /\ t.reason = reason /\ t.kind = "none"
      /\ t.who = "conductor" /\ t.attempt = 1 /\ l.rec = "prepared" /\ l \in Lines
  BY <1>2, OtherWords DEF Prepare, Transactions, Lines, Whos
<1>4. ToHuman(to, reason) = <<l, d>>
  BY PlainLines DEF ToHuman, Move
<1> HIDE DEF l, t, a, d
<1>5. <<a, Abort>> \o <<l, d>> = <<a, Abort, l, d>>
  BY <1>1, <1>3, TwoAndTwo
<1>6. First(j, c, p, a)
  BY <1>1, ActingIs DEF First
<1>7. IsWait(l) /\ ~IsPlan(l)
  BY <1>3 DEF IsWait, IsPlan, t
<1>8. Follows(a, Abort) /\ Follows(Abort, l) /\ Follows(l, d)
  BY <1>1, <1>3, <1>7 DEF Follows, t
<1>9. Later(j, Abort) /\ Later(j, l) /\ Later(j, d)
  BY <1>1, <1>7, ActingIs DEF Later, IsWait, IsPlan, TERMINAL
<1>10. <<a, Abort, l, d>> \in Steps /\ Agenda(j, c, p, <<a, Abort, l, d>>)
  BY <1>1, <1>3, <1>6, <1>8, <1>9, FourSteps
<1>11. <<a, Abort, l, d>> # <<>> /\ <<a, Abort, l, d>>[1] = a
  OBVIOUS
<1> QED
  BY <1>1, <1>4, <1>5, <1>10, <1>11 DEF a

LEMMA HostSteps ==
    ASSUME Inv, Acting, Kind # "launch_run", NEW c, NEW p, NEW e \in Executed, NEW mismatch \in BOOLEAN,
           NEW failed \in {"policy_stop_failed", "policy_start_failed"}
    PROVE  LET q == AfterHost(e, mismatch, failed) IN
           q \in Steps /\ q # <<>> /\ q[1].rec # "prepared" /\ Agenda(j, c, p, q)
<1>1. ~Launching(j)
  BY DEF Launching, Kind
<1>2. CASE mismatch
  <2> DEFINE q == <<Ack(e), Abort>> \o ToHuman("FAULT_LOCKED", "listener_mismatch")
  <2>1. AfterHost(e, mismatch, failed) = q
    BY <1>2 DEF AfterHost
  <2>2. q \in Steps /\ q # <<>> /\ q[1].rec # "prepared" /\ Agenda(j, c, p, q)
    BY <1>1, GivenUpSteps, ReasonWords
  <2> QED
    BY <2>1, <2>2
<1>3. CASE ~mismatch /\ e = "yes"
  <2>1. AfterHost(e, mismatch, failed) = <<Ack("yes"), Commit>>
    BY <1>3 DEF AfterHost
  <2> QED
    BY <1>1, <2>1, DoneSteps
<1>4. CASE ~mismatch /\ e # "yes"
  <2> DEFINE q == <<Ack(e), Abort>> \o ToHuman("WAIT_HUMAN", failed)
  <2>1. AfterHost(e, mismatch, failed) = q
    BY <1>4 DEF AfterHost
  <2>2. failed \in REASONS /\ failed \notin {"operator_accept_short", "segment_short"}
    BY ReasonWords
  <2>3. q \in Steps /\ q # <<>> /\ q[1].rec # "prepared" /\ Agenda(j, c, p, q)
    BY <1>1, <2>2, GivenUpSteps
  <2> QED
    BY <2>1, <2>3
<1> QED
  BY <1>2, <1>3, <1>4

LEMMA StopPolicyStep == ASSUME Inv, StopPolicy PROVE Inv'
<1>1. Acting /\ Kind = "policy_stop"
  BY DEF StopPolicy
<1>2. PICK a \in HostAnswers(Arms) :
         /\ port' \in {port, Nobody}
         /\ todo' = AfterHost(a.executed, a.mismatch, "policy_stop_failed")
  BY DEF StopPolicy
<1>3. port' \in Arms \cup {Nobody, Foreign}
  BY <1>2 DEF Inv, TypeOK
<1>4. /\ todo' \in Steps /\ todo' # <<>> /\ todo'[1].rec # "prepared"
      /\ Agenda(j, child, Served', todo')
  BY <1>1, <1>2, HostSteps DEF HostAnswers
<1>5. /\ j' = j /\ up' = up /\ question' = question /\ answer' = answer /\ answered' = answered
      /\ child' = child /\ child' \in [Segments -> ChildStates] /\ disturbed' = FALSE
  BY DEF StopPolicy, Acted, inbox, Inv, TypeOK
<1> QED
  BY <1>1, <1>3, <1>4, <1>5, Resulted

LEMMA StartPolicyStep == ASSUME Inv, StartPolicy PROVE Inv'
<1>1. Acting /\ Kind = "policy_start"
  BY DEF StartPolicy
<1> DEFINE arm == ArmOf[j.segment]
<1>2. PICK a \in HostAnswers({arm}) :
         /\ port' \in {port, arm, Nobody}
         /\ todo' = AfterHost(a.executed, a.mismatch, "policy_start_failed")
  BY DEF StartPolicy
<1>3. arm \in Arms
  <2>1. j.state = "POLICY_START" /\ j \in Replays /\ Order(j)
    BY <1>1, ActingIs DEF Sound, Fits, ActionsOf, Kind
  <2>2. j.segment \in Segments
    BY <2>1, Here DEF SEGMENT_STATES
  <2> QED
    BY <2>2
<1>4. port' \in Arms \cup {Nobody, Foreign}
  BY <1>2, <1>3 DEF Inv, TypeOK
<1>5. /\ todo' \in Steps /\ todo' # <<>> /\ todo'[1].rec # "prepared"
      /\ Agenda(j, child, Served', todo')
  BY <1>1, <1>2, HostSteps DEF HostAnswers
<1>6. /\ j' = j /\ up' = up /\ question' = question /\ answer' = answer /\ answered' = answered
      /\ child' = child /\ child' \in [Segments -> ChildStates] /\ disturbed' = FALSE
  BY DEF StartPolicy, Acted, inbox, Inv, TypeOK
<1> QED
  BY <1>1, <1>4, <1>5, <1>6, Resulted

LEMMA LaunchRunStep == ASSUME Inv, LaunchRun PROVE Inv'
<1>1. Acting /\ Kind = "launch_run" /\ Launching(j)
  BY ActingIs DEF LaunchRun, Launching, Kind
<1>2. j.open.segment = j.segment /\ j.segment \in Segments /\ child \in [Segments -> ChildStates]
      /\ port \in Arms \cup {Nobody, Foreign}
  BY <1>1, ActingIs DEF Inv, TypeOK
<1>3. PICK e \in Executed :
         /\ \/ child' = [child EXCEPT ![j.segment] = "running"]
            \/ e # "yes" /\ UNCHANGED child
         /\ todo' = IF e = "yes" THEN <<Ack("yes"), Commit>>
                     ELSE <<Ack(e), Abort>> \o ToHuman("WAIT_HUMAN", "launch_failed")
  BY DEF LaunchRun
<1>4. /\ child' \in [Segments -> ChildStates]
      /\ \A s \in Segments : child[s] # "absent" => child'[s] # "absent"
      /\ e = "yes" => child'[j.open.segment] # "absent"
  BY <1>2, <1>3 DEF ChildStates
<1>5. /\ todo' \in Steps /\ todo' # <<>> /\ todo'[1].rec # "prepared"
      /\ Agenda(j, child', Served', todo')
  <2>1. CASE e = "yes"
    <3>1. todo' = <<Ack("yes"), Commit>>
      BY <1>3, <2>1
    <3> QED
      BY <1>1, <1>4, <2>1, <3>1, DoneSteps
  <2>2. CASE e # "yes"
    <3>1. todo' = <<Ack(e), Abort>> \o ToHuman("WAIT_HUMAN", "launch_failed")
      BY <1>3, <2>2
    <3> QED
      BY <1>1, <2>2, <3>1, GivenUpSteps, ReasonWords
  <2> QED
    BY <2>1, <2>2
<1>6. /\ j' = j /\ up' = up /\ question' = question /\ answer' = answer /\ answered' = answered
      /\ port' = port /\ disturbed' = FALSE
  BY DEF LaunchRun, Acted, inbox
<1> QED
  BY <1>1, <1>2, <1>4, <1>5, <1>6, Resulted

LEMMA WriteReportStep == ASSUME Inv, WriteReport PROVE Inv'
<1>1. Acting /\ Kind = "report" /\ ~Launching(j)
  BY DEF WriteReport, Launching, Kind
<1>2. /\ j' = j /\ up' = up /\ question' = question /\ answer' = answer /\ answered' = answered
      /\ port' = port /\ child' = child /\ disturbed' = FALSE
      /\ port \in Arms \cup {Nobody, Foreign} /\ child \in [Segments -> ChildStates]
  BY DEF WriteReport, Acted, inbox, world, Inv, TypeOK
<1>3. /\ todo' \in Steps /\ todo' # <<>> /\ todo'[1].rec # "prepared"
      /\ Agenda(j, child, Served', todo')
  <2>1. CASE todo' = <<Ack("yes"), Commit>>
    BY <1>1, <2>1, DoneSteps
  <2>2. CASE todo' = <<Ack("no"), Abort, Note>>
    <3> DEFINE a == Ack("no")
    <3>1. /\ a \in Lines /\ a.rec = "acknowledged" /\ a.executed = "no"
          /\ Abort \in Lines /\ Abort.rec = "aborted" /\ Note \in Lines /\ Note.rec = "note"
      BY PlainLines DEF Executed
    <3> HIDE DEF a
    <3>2. First(j, child, Served', a)
      BY <1>1, <3>1, ActingIs DEF First
    <3>3. Follows(a, Abort) /\ Follows(Abort, Note) /\ Later(j, Abort) /\ Later(j, Note)
      BY <3>1 DEF Follows, Later, IsWait, IsPlan
    <3>4. <<a, Abort, Note>> \in Steps /\ Agenda(j, child, Served', <<a, Abort, Note>>)
      BY <3>1, <3>2, <3>3, ThreeSteps
    <3>5. <<a, Abort, Note>> # <<>> /\ <<a, Abort, Note>>[1] = a
      OBVIOUS
    <3> QED
      BY <2>2, <3>1, <3>4, <3>5 DEF a
  <2> QED
    BY <2>1, <2>2 DEF WriteReport
<1> QED
  BY <1>1, <1>2, <1>3, Resulted
-----------------------------------------------------------------------------
(* Writing, dying, attaching, and the world outside. *)

LEMMA AppendLineStep == ASSUME Inv, AppendLine PROVE Inv'
<1>1. /\ todo \in Seq(Lines \cup {Act}) /\ todo # <<>> /\ Head(todo) = todo[1] /\ todo[1] # Act
      /\ Tail(todo) \in Seq(Lines \cup {Act})
  BY TailIs DEF Inv, TypeOK, AppendLine
<1>2. /\ j' = Apply(j, todo[1]) /\ todo' = Tail(todo) /\ up = TRUE /\ up' = up
      /\ child' = child /\ port' = port /\ answered' = answered /\ disturbed' = disturbed
  BY <1>1 DEF AppendLine, world, ghosts, Inv, TypeOK
<1>3. /\ Sound(j', child) /\ Agenda(j', child, Served, Tail(todo))
      /\ Tail(todo) = <<>> => j'.open = NoTx
  BY <1>1, <1>2, LineKeeps DEF Inv
<1>4. question' \in Questions \cup {Nothing} /\ answer' \in Questions \cup {Nothing}
  <2>1. question \in Questions \cup {Nothing} /\ answer \in Questions \cup {Nothing}
    BY DEF Inv, TypeOK
  <2>2. (question' = question /\ answer' = answer)
        \/ (question' = Moved(question) /\ answer' = Moved(answer))
    BY DEF AppendLine, inbox
  <2> QED
    BY <2>1, <2>2, StaleTyped
<1>5. TypeOK'
  BY <1>1, <1>2, <1>3, <1>4 DEF Inv, TypeOK, Sound
<1>6. (up /\ ~answered => AtRest(j, todo) \/ ComesToRest(j, todo))'
  BY <1>1, <1>2, LineRests DEF Inv
<1> QED
  BY <1>2, <1>3, <1>5, <1>6 DEF Inv, Served

LEMMA NothingToDo == \A r, c, p : Agenda(r, c, p, <<>>) /\ <<>> \in Seq(Lines \cup {Act})
  BY DEF Agenda

LEMMA CloseStep == ASSUME Inv, Close PROVE Inv'
<1>1. /\ up' = FALSE /\ todo = <<>> /\ j' = j /\ todo' = todo /\ child' = child /\ port' = port
      /\ answered' = answered /\ question' = (IF Asked THEN Nothing ELSE question)
      /\ answer' = Stale(answer) /\ disturbed' = disturbed
  BY DEF Close, world, ghosts
<1>2. TypeOK'
  BY <1>1, StaleTyped DEF Inv, TypeOK
<1> QED
  BY <1>1, <1>2 DEF Inv, Served

LEMMA CrashStep == ASSUME Inv, Crash PROVE Inv'
<1>1. /\ up' = FALSE /\ todo' = <<>> /\ j' = j /\ child' = child /\ port' = port
      /\ answered' = answered /\ question' = Stale(question) /\ answer' = Stale(answer)
      /\ disturbed' = FALSE
  BY DEF Crash, world
<1>2. TypeOK'
  BY <1>1, StaleTyped, NothingToDo DEF Inv, TypeOK
<1> QED
  BY <1>1, <1>2, NothingToDo DEF Inv

\* Every agenda of the recovery can be done and ends in a wait.
LEMMA RecoverySteps ==
    ASSUME j \in Replays, OpenFits(j), j.state \notin TERMINAL
    PROVE  /\ Recovery \in Steps /\ Recovery # <<>> /\ Agenda(j, child, Served, Recovery)
           /\ AtRest(j, Recovery) \/ ComesToRest(j, Recovery)
           /\ Recovery[1].rec = "prepared" => IsWait(Recovery[1]) \/ IsPlan(Recovery[1])
<1> DEFINE S == Lines \cup {Act}
           dangling == j.open # NoTx
           state == IF j.state = "DRAFT" THEN "PLANNED" ELSE j.state
           locked == dangling /\ (j.open.kind \in SIDE_EFFECTS \/ state = "FAULT_LOCKED")
           to == IF locked THEN "FAULT_LOCKED" ELSE "WAIT_HUMAN"
           why == IF locked THEN "recovery_ambiguous" ELSE "conductor_restarted"
           l == Prepare(to, why, "none", "recovery", j.segment, 1)  t == l.tx
           f == Prepare("PLANNED", "plan_frozen", "none", "conductor", 0, 1)  g == f.tx
           d == CommitWith(0)
           A == IF dangling THEN <<Abort, Note>> ELSE <<>>
           B == IF j.state = "DRAFT" THEN <<f, d>> ELSE <<>>
           C == IF ~locked /\ ~dangling /\ Rests(state) THEN <<Note>> ELSE <<l, d>>
<1>1. Recovery = A \o B \o C
  <2>1. (CASE locked                     -> Move("FAULT_LOCKED", "recovery_ambiguous", "recovery", j.segment)
           [] ~dangling /\ Rests(state)  -> <<Note>>
           [] OTHER                      -> Move("WAIT_HUMAN", "conductor_restarted", "recovery", j.segment)) = C
    BY PlainLines DEF Move
  <2>2. (IF j.state = "DRAFT" THEN Move("PLANNED", "plan_frozen", "conductor", 0) ELSE <<>>) = B
    BY PlainLines DEF Move
  <2> HIDE DEF B, C
  <2> QED
    BY <2>1, <2>2, Zenon DEF Recovery
<1>2. /\ to \in {"WAIT_HUMAN", "FAULT_LOCKED"} /\ why \in REASONS
      /\ why \notin {"operator_accept_short", "segment_short"}
      /\ to \in CAMPAIGN_STATES /\ j.segment \in SegmentOrNone
  BY StateWords, ReasonWords DEF Replays
<1>3. /\ d \in Lines /\ d.rec = "committed" /\ Abort \in Lines /\ Abort.rec = "aborted"
      /\ Note \in Lines /\ Note.rec = "note"
  BY PlainLines
<1>4. /\ dangling => (state = "FAULT_LOCKED" => to = "FAULT_LOCKED")
      /\ ~dangling => to = "WAIT_HUMAN" /\ ~locked
  BY Zenon
<1> HIDE DEF to, why, locked
<1>5. /\ t \in Transactions /\ t.to = to /\ t.reason = why /\ t.kind = "none"
      /\ t.who = "recovery" /\ t.attempt = 1 /\ l.rec = "prepared" /\ l \in Lines
  BY <1>2, OtherWords DEF Prepare, Transactions, Lines, Whos
<1>6. /\ g \in Transactions /\ g.to = "PLANNED" /\ g.reason = "plan_frozen" /\ g.kind = "none"
      /\ g.who = "conductor" /\ g.attempt = 1 /\ f.rec = "prepared" /\ f \in Lines
  BY StateWords, ReasonWords, OtherWords DEF Prepare, Transactions, Lines, Whos
<1> HIDE DEF l, t, f, g, d
<1>7. IsWait(l) /\ ~IsPlan(l) /\ IsPlan(f) /\ ~IsWait(f)
  BY <1>2, <1>5, <1>6 DEF IsWait, IsPlan, t, g
<1>8. /\ Follows(l, d) /\ Follows(f, d) /\ Follows(d, l) /\ Follows(Abort, Note)
      /\ Follows(Note, l) /\ Follows(Note, f)
  BY <1>3, <1>5, <1>6, <1>7 DEF Follows, t, g
<1>9. /\ Later(j, d) /\ Later(j, Note) /\ Later(j, Abort)
      /\ j.state = "DRAFT" => Later(j, f)
      /\ (j.state = "FAULT_LOCKED" => to # "WAIT_HUMAN") => Later(j, l)
  BY <1>3, <1>5, <1>6, <1>7 DEF Later, IsWait, IsPlan, t, g
<1>10. l \in S /\ f \in S /\ d \in S /\ Abort \in S /\ Note \in S
  BY <1>3, <1>5, <1>6
<1>11. CASE dangling /\ j.state # "DRAFT"
  <2> DEFINE q == <<Abort, Note, l, d>>
  <2>1. Recovery = <<Abort, Note>> \o <<>> \o <<l, d>>
    BY <1>1, <1>11
  <2>2. <<Abort, Note>> \o <<>> = <<Abort, Note>>
    BY <1>10, ConcatEmptySeq
  <2>3. <<Abort, Note>> \o <<l, d>> = q
    BY <1>3, <1>5, <1>6, TwoAndTwo
  <2>4. First(j, child, Served, Abort)
    BY <1>3, <1>11 DEF First
  <2>5. Later(j, l)
    BY <1>4, <1>9, <1>11
  <2>6. q \in Steps /\ Agenda(j, child, Served, q)
    BY <1>3, <1>5, <1>8, <1>9, <2>4, <2>5, FourSteps
  <2>7. /\ q # <<>> /\ Len(q) = 4 /\ q[1] = Abort /\ q[2] = Note /\ q[3] = l /\ q[4] = d
    OBVIOUS
  <2> HIDE DEF q
  <2>8. \A i \in 1..Len(q) : q[i].rec # "act"
    BY <1>3, <1>5, <2>7
  <2>9. ComesToRest(j, q)
    BY <1>7, <2>7, <2>8 DEF ComesToRest
  <2> QED
    BY <1>3, <1>7, <2>1, <2>2, <2>3, <2>6, <2>7, <2>9
<1>12. CASE dangling /\ j.state = "DRAFT"
  <2> DEFINE q == <<Abort, Note, f, d, l, d>>
  <2>1. Recovery = <<Abort, Note>> \o <<f, d>> \o <<l, d>>
    BY <1>1, <1>12
  <2>2. <<Abort, Note>> \o <<f, d>> = <<Abort, Note, f, d>>
    BY <1>3, <1>5, <1>6, TwoAndTwo
  <2>3. <<Abort, Note, f, d>> \o <<l, d>> = q
    BY <1>3, <1>5, <1>6, FourAndTwo
  <2>4. First(j, child, Served, Abort)
    BY <1>3, <1>12 DEF First
  <2>5. Later(j, l) /\ Later(j, f)
    BY <1>9, <1>12
  <2>6. q \in Steps /\ Agenda(j, child, Served, q)
    BY <1>3, <1>5, <1>6, <1>7, <1>8, <1>9, <2>4, <2>5, SixSteps
  <2>7. /\ q # <<>> /\ Len(q) = 6 /\ q[1] = Abort /\ q[2] = Note /\ q[3] = f /\ q[4] = d /\ q[5] = l
        /\ q[6] = d
    OBVIOUS
  <2> HIDE DEF q
  <2>8. \A i \in 1..Len(q) : q[i].rec # "act"
    BY <1>3, <1>5, <1>6, <2>7
  <2>9. ComesToRest(j, q)
    BY <1>7, <2>7, <2>8 DEF ComesToRest
  <2> QED
    BY <1>3, <1>7, <2>1, <2>2, <2>3, <2>6, <2>7, <2>9
<1>13. CASE ~dangling /\ j.state = "DRAFT"
  <2> DEFINE q == <<f, d, l, d>>
  <2>1. Recovery = <<>> \o <<f, d>> \o <<l, d>>
    <3>1. ~Rests(state)
      BY <1>13 DEF Rests, REST_STATES, HUMAN_STATES
    <3> QED
      BY <1>1, <1>13, <3>1
  <2>2. <<>> \o <<f, d>> = <<f, d>>
    BY <1>10, ConcatEmptySeq
  <2>3. <<f, d>> \o <<l, d>> = q
    BY <1>3, <1>5, <1>6, TwoAndTwo
  <2>4. Later(j, l) /\ Later(j, f)
    BY <1>9, <1>13
  <2>5. First(j, child, Served, f)
    BY <1>6, <1>7, <1>10, <1>13, <2>4, PlanFirst
  <2>6. q \in Steps /\ Agenda(j, child, Served, q)
    BY <1>3, <1>5, <1>6, <1>7, <1>8, <1>9, <2>4, <2>5, FourSteps
  <2>7. /\ q # <<>> /\ Len(q) = 4 /\ q[1] = f /\ q[2] = d /\ q[3] = l /\ q[4] = d
    OBVIOUS
  <2> HIDE DEF q
  <2>8. \A i \in 1..Len(q) : q[i].rec # "act"
    BY <1>3, <1>5, <1>6, <2>7
  <2>9. ComesToRest(j, q)
    BY <1>7, <2>7, <2>8 DEF ComesToRest
  <2> QED
    BY <1>3, <1>7, <2>1, <2>2, <2>3, <2>6, <2>7, <2>9
<1>14. CASE ~dangling /\ j.state # "DRAFT" /\ Rests(j.state)
  <2>1. Recovery = <<>> \o <<>> \o <<Note>>
    BY <1>1, <1>4, <1>14
  <2>2. <<>> \o <<>> = <<>> /\ <<>> \o <<Note>> = <<Note>>
    BY <1>10, ConcatEmptySeq, EmptySeq
  <2>3. <<Note>> \in Steps /\ Agenda(j, child, Served, <<Note>>)
    BY <1>14, NoteSteps
  <2>4. <<Note>> # <<>> /\ <<Note>>[1].rec # "prepared"
    BY <1>3, PairIsSome
  <2>5. AtRest(j, <<Note>>)
    BY <1>14, <2>4 DEF AtRest, Rests
  <2> QED
    BY <2>1, <2>2, <2>3, <2>4, <2>5
<1>15. CASE ~dangling /\ j.state # "DRAFT" /\ ~Rests(j.state)
  <2> DEFINE q == <<l, d>>
  <2>1. Recovery = <<>> \o <<>> \o <<l, d>>
    BY <1>1, <1>15
  <2>2. <<>> \o <<>> = <<>> /\ <<>> \o <<l, d>> = <<l, d>>
    BY <1>10, ConcatEmptySeq, EmptySeq
  <2>3. Later(j, l)
    BY <1>9, <1>15 DEF Rests, REST_STATES, HUMAN_STATES
  <2>4. First(j, child, Served, l)
    BY <1>7, <1>10, <1>15, <2>3, WaitFirst
  <2>5. q \in Steps /\ Agenda(j, child, Served, q)
    BY <1>3, <1>5, <1>8, <1>9, <2>4, TwoSteps
  <2>6. q # <<>> /\ Len(q) = 2 /\ q[1] = l /\ q[2] = d
    OBVIOUS
  <2> HIDE DEF q
  <2>7. \A i \in 1..Len(q) : q[i].rec # "act"
    BY <1>3, <1>5, <2>6
  <2>8. ComesToRest(j, q)
    BY <1>7, <2>6, <2>7 DEF ComesToRest
  <2> QED
    BY <1>7, <2>1, <2>2, <2>5, <2>6, <2>8 DEF q
<1> QED
  BY <1>11, <1>12, <1>13, <1>14, <1>15

LEMMA AttachStep == ASSUME Inv, Attach PROVE Inv'
<1>1. /\ up' = TRUE /\ todo' = Recovery /\ answered' = FALSE /\ j.state \notin TERMINAL
      /\ j' = j /\ question' = question /\ answer' = answer /\ child' = child /\ port' = port
      /\ disturbed' = disturbed
  BY DEF Attach, inbox, world
<1>2. /\ Recovery \in Steps /\ Recovery # <<>> /\ Agenda(j, child, Served, Recovery)
      /\ AtRest(j, Recovery) \/ ComesToRest(j, Recovery)
  BY <1>1, RecoverySteps DEF Inv, Sound
<1>3. TypeOK'
  BY <1>1, <1>2 DEF Inv, TypeOK, Steps
<1>4. (up /\ ~answered => AtRest(j, todo) \/ ComesToRest(j, todo))'
  BY <1>1, <1>2
<1> QED
  BY <1>1, <1>2, <1>3, <1>4 DEF Inv, Served

LEMMA PersonAnswersStep == ASSUME Inv, PersonAnswers PROVE Inv'
<1>1. /\ j' = j /\ up' = up /\ todo' = todo /\ child' = child /\ port' = port /\ answered' = answered
      /\ question' = question /\ answer' = question /\ disturbed' = disturbed
  BY DEF PersonAnswers, world, ghosts
<1>2. TypeOK'
  BY <1>1 DEF Inv, TypeOK
<1> QED
  BY <1>1, <1>2 DEF Inv, Served

LEMMA ChildMovesStep == ASSUME Inv, NEW s \in Segments, ChildMoves(s) PROVE Inv'
<1>1. /\ j' = j /\ up' = up /\ todo' = todo /\ port' = port /\ answered' = answered
      /\ question' = question /\ answer' = answer /\ todo = <<>> /\ disturbed' = disturbed
      /\ child \in [Segments -> ChildStates] /\ child[s] # "absent"
      /\ child' \in {[child EXCEPT ![s] = c] : c \in {"failed", "completed", "short", "running"}}
  BY DEF ChildMoves, inbox, ghosts, Inv, TypeOK
<1>2. child' \in [Segments -> ChildStates] /\ \A x \in Segments : child[x] # "absent" => child'[x] # "absent"
  BY <1>1 DEF ChildStates
<1>3. TypeOK'
  BY <1>1, <1>2 DEF Inv, TypeOK
<1>4. Closed(j, child')
  BY <1>2 DEF Inv, Sound, Closed
<1>5. Sound(j, child)'
  BY <1>1, <1>4 DEF Inv, Sound
<1>6. Agenda(j, child, Served, todo)'
  BY <1>1, NothingToDo
<1> QED
  BY <1>1, <1>3, <1>5, <1>6 DEF Inv

\* What First says of the port is all it says of it.
LEMMA FirstElsewhere ==
    ASSUME NEW r, NEW c, NEW p, NEW o, NEW l, First(r, c, p, l),
           l.rec \in {"prepared", "acknowledged", "committed", "note", "aborted", "act"},
           l.rec = "prepared" /\ l.tx.kind = "launch_run" => ArmOf[l.tx.segment] \in o,
           l.rec = "act" /\ Launching(r) => ArmOf[r.open.segment] \in o
    PROVE  First(r, c, o, l)
<1>1. CASE l.rec = "prepared"
  BY <1>1 DEF First
<1>2. CASE l.rec = "act"
  BY <1>2 DEF First
<1>3. CASE l.rec \in {"acknowledged", "committed", "note", "aborted"}
  BY <1>3 DEF First
<1> QED
  BY <1>1, <1>2, <1>3

LEMMA OneFurther ==
    ASSUME NEW n \in Nat, NEW i \in 1..n, n # i
    PROVE  i \in 1..(n - 1) /\ i + 1 \in 1..n
  OBVIOUS

\* Where a launch is to come the agenda ends in it, and nothing is said of the
\* port any more.
LEMMA PortChangesStep == ASSUME Inv, PortChanges PROVE Inv'
<1>1. /\ j' = j /\ up' = up /\ todo' = todo /\ child' = child /\ answered' = answered
      /\ question' = question /\ answer' = answer /\ port' \in Arms \cup {Foreign, Nobody}
      /\ disturbed' = (todo # <<>> /\ todo[Len(todo)] = Act)
  BY DEF PortChanges, inbox
<1>2. TypeOK'
  BY <1>1 DEF Inv, TypeOK
<1>3. Sound(j, child) /\ j \in Replays /\ Order(j) /\ OpenFits(j) /\ Agenda(j, child, Served, todo)
      /\ todo \in Seq(Lines \cup {Act})
  BY DEF Inv, Sound, TypeOK
<1>4. /\ Len(todo) \in Nat /\ \A i \in 1..Len(todo) : todo[i] \in Lines \cup {Act}
      /\ todo # <<>> => Len(todo) > 0
  BY <1>3
<1>5. \A i \in 1..(Len(todo) - 1) : Follows(todo[i], todo[i + 1])
  BY <1>3 DEF Agenda
<1>6. ASSUME todo # <<>> PROVE First(j, child, Served', todo[1])
  <2> DEFINE l == todo[1]
  <2>1. First(j, child, Served, l) /\ l \in Lines \cup {Act} /\ 1 \in 1..Len(todo)
    BY <1>3, <1>4, <1>6 DEF Agenda
  <2>2. ASSUME l.rec = "prepared", l.tx.kind = "launch_run" PROVE ArmOf[l.tx.segment] \in Served'
    <3>1. l.tx \in Transactions /\ Fits(j, l.tx)
      BY <2>1, <2>2, LineKinds DEF First
    <3>2. l.tx.to = "ARM_RUNNING" /\ l.tx.segment \in Segments
      BY <2>2, <3>1 DEF Fits, OfSegment, SEGMENT_STATES
    <3>3. Len(todo) # 1
      BY <1>3, <1>6, <2>2 DEF Agenda
    <3>4. 1 + 1 = 2
      OBVIOUS
    <3>5. 2 \in 1..Len(todo) /\ Follows(todo[1], todo[2]) /\ todo[2] \in Lines \cup {Act}
      BY <1>4, <1>5, <2>1, <3>3, <3>4, OneFurther
    <3>6. todo[2].rec = "act"
      BY <2>2, <3>5 DEF Follows
    <3>7. todo[2] = Act
      BY <3>5, <3>6, LineKinds
    <3>8. ASSUME Len(todo) # 2 PROVE FALSE
      <4>1. 2 + 1 = 3
        OBVIOUS
      <4>2. Follows(todo[2], todo[3])
        BY <1>4, <1>5, <3>5, <3>8, <4>1, OneFurther
      <4> QED
        BY <3>6, <4>2 DEF Follows
    <3>9. todo[Len(todo)] = Act
      BY <3>7, <3>8
    <3> QED
      BY <1>1, <1>6, <3>2, <3>9, ArmsAssumption DEF Served
  <2>3. ASSUME l.rec = "act", Launching(j) PROVE ArmOf[j.open.segment] \in Served'
    <3>1. j.open.segment \in Segments
      BY <1>3, <2>3, LaunchWhere
    <3>2. l = Act
      BY <2>1, <2>3, LineKinds
    <3>3. ASSUME Len(todo) # 1 PROVE FALSE
      <4>1. 1 + 1 = 2
        OBVIOUS
      <4>2. Follows(todo[1], todo[2])
        BY <1>4, <1>5, <2>1, <3>3, <4>1, OneFurther
      <4> QED
        BY <2>3, <4>2 DEF Follows
    <3>4. todo[Len(todo)] = Act
      BY <3>2, <3>3
    <3> QED
      BY <1>1, <1>6, <3>1, <3>4, ArmsAssumption DEF Served
  <2>4. l.rec \in {"prepared", "acknowledged", "committed", "note", "aborted", "act"}
    BY <2>1, LineKinds
  <2> QED
    BY <2>1, <2>2, <2>3, <2>4, FirstElsewhere
<1>7. Agenda(j, child, Served', todo)
  BY <1>3, <1>6 DEF Agenda
<1> QED
  BY <1>1, <1>2, <1>7 DEF Inv

LEMMA StutterStep == ASSUME Inv, UNCHANGED vars PROVE Inv'
<1>1. /\ j' = j /\ up' = up /\ todo' = todo /\ question' = question /\ answer' = answer
      /\ child' = child /\ port' = port /\ answered' = answered /\ disturbed' = disturbed
  BY DEF vars, inbox, world, ghosts
<1>2. TypeOK'
  BY <1>1 DEF Inv, TypeOK
<1> QED
  BY <1>1, <1>2 DEF Inv, Served

LEMMA InitInv == ASSUME Init PROVE Inv
<1>1. /\ j = Blank /\ up = TRUE /\ todo = <<>> /\ question = Nothing /\ answer = Nothing
      /\ child = [s \in Segments |-> "absent"] /\ port \in {Nobody, Foreign} /\ answered = TRUE
      /\ disturbed = FALSE
  BY DEF Init
<1>2. /\ j.state = "DRAFT" /\ j.open = NoTx /\ j.sealed = {} /\ j.attempted = {}
      /\ \A s \in Segments : j.launches[s] = NotLaunched
  BY <1>1 DEF Blank
<1>3. j \in Replays
  <2>1. /\ "DRAFT" \in CAMPAIGN_STATES /\ 0 \in SegmentOrNone /\ "none" \in REASONS
        /\ NotLaunched \in Launches /\ 0 \in 0..MaxFaults
    BY Words, StateWords, OtherWords DEF REASONS
  <2> QED
    BY <1>1, <2>1 DEF Blank, Replays
<1>4. InOrder(j, 0)
  BY <1>2 DEF InOrder, Launched, NotLaunched, SEGMENT_STATES
<1>5. Order(j)
  BY <1>4, OtherWords DEF Order
<1>6. Closed(j, child)
  BY <1>2 DEF Closed, NotLaunched
<1>7. Sound(j, child)
  BY <1>2, <1>3, <1>5, <1>6 DEF Sound, OpenFits
<1>8. TypeOK
  BY <1>1, <1>3, NothingToDo DEF TypeOK, ChildStates
<1> QED
  BY <1>1, <1>2, <1>7, <1>8, NothingToDo DEF Inv

LEMMA NextInv == ASSUME Inv, [Next]_vars PROVE Inv'
  BY AppendLineStep, TakePauseStep, InDraftStep, InPlannedStep, InSegmentPrepareStep, InPolicyStopStep,
     InPolicyStartStep, InPolicyReadyStep, AskStep, DropAnswerStep, InEnvConfirmStep,
     WaitingForPersonStep, InArmRunningStep, InSegmentSealedStep, InAnalyzingStep, StopPolicyStep,
     StartPolicyStep, LaunchRunStep, WriteReportStep, CloseStep, CrashStep, AttachStep,
     PersonAnswersStep, ChildMovesStep, PortChangesStep, StutterStep DEF Next, Conducts

\* Every state keeps the invariant.
THEOREM Invariant == Spec => []Inv
  BY InitInv, NextInv, PTL DEF Spec
-----------------------------------------------------------------------------
(* Questions and answers. *)

LEMMA StaleIsNotFresh ==
    /\ \A x \in Questions \cup {Nothing} : Stale(x) # Nothing => ~Stale(x).fresh
    /\ \A x \in Questions \cup {Nothing} :
          /\ Moved(x) = Nothing <=> x = Nothing
          /\ x # Nothing => Moved(x).fresh = x.fresh
  BY DEF Stale, Moved, Questions

Fresh(x) == x # Nothing /\ x.fresh

\* An answer is fresh only where the question is.
LEMMA NothingFresh ==
    ASSUME ~Fresh(question'), ~Fresh(answer') PROVE FreshIsNow'
  BY DEF Fresh, FreshIsNow

LEMMA NobodyAsked ==
    ASSUME FreshIsNow, ~up \/ ~Asking \/ Acting \/ (todo # <<>> /\ Head(todo).rec # "note"), TypeOK
    PROVE  ~Fresh(question) /\ ~Fresh(answer)
<1>1. todo # <<>> => /\ 1 \in 1..Len(todo) /\ Head(todo) = todo[1]
  BY TailIs DEF TypeOK
<1>2. Act.rec # "note"
  BY DEF Act
<1> QED
  BY <1>1, <1>2 DEF Fresh, FreshIsNow, Acting

LEMMA AppendFresh == ASSUME TypeOK, FreshIsNow, AppendLine PROVE FreshIsNow'
<1>1. /\ todo \in Seq(Lines \cup {Act}) /\ todo # <<>> /\ Head(todo) = todo[1] /\ up' = up
      /\ j' = Apply(j, todo[1]) /\ todo' = Tail(todo) /\ todo[1] # Act /\ todo[1] \in Lines \cup {Act}
      /\ Len(Tail(todo)) = Len(todo) - 1 /\ Len(todo) \in Nat
      /\ \A i \in 1..(Len(todo) - 1) : Tail(todo)[i] = todo[i + 1]
  BY TailIs DEF TypeOK, AppendLine, world
<1>2. CASE todo[1].rec = "note"
  <2>1. j' = [j EXCEPT !.pause = @ \/ todo[1].pause]
    BY <1>1, <1>2 DEF Apply
  <2>2. j'.state = j.state /\ j'.waitReason = j.waitReason
    BY <2>1 DEF TypeOK, Replays
  <2>3. question' = question /\ answer' = answer
    BY <2>2 DEF AppendLine, inbox
  <2>4. Asking' <=> Asking
    BY <2>2 DEF Asking
  <2>5. (\A i \in 1..Len(todo) : todo[i].rec = "note") => \A i \in 1..Len(todo') : todo'[i].rec = "note"
    BY <1>1
  <2> QED
    BY <1>1, <2>3, <2>4, <2>5 DEF FreshIsNow
<1>3. CASE todo[1].rec # "note"
  <2>1. ~Fresh(question) /\ ~Fresh(answer)
    BY <1>1, <1>3, NobodyAsked
  <2>2. question \in Questions \cup {Nothing} /\ answer \in Questions \cup {Nothing}
    BY DEF TypeOK
  <2>3. (question' = question /\ answer' = answer)
        \/ (question' = Moved(question) /\ answer' = Moved(answer))
    BY DEF AppendLine, inbox
  <2> QED
    BY <2>1, <2>2, <2>3, StaleIsNotFresh, NothingFresh DEF Fresh
<1> QED
  BY <1>2, <1>3

\* Where the question is answered the campaign is no longer asking it.
LEMMA TakenFresh ==
    ASSUME TypeOK, NEW q, TakeAnswer(q) PROVE FreshIsNow'
<1>1. question' = Nothing /\ answer' \in {Nothing, Stale(answer)} /\ answer \in Questions \cup {Nothing}
  BY DEF TakeAnswer, TypeOK
<1> QED
  BY <1>1, StaleIsNotFresh, NothingFresh DEF Fresh

LEMMA FreshStays ==
    ASSUME FreshIsNow, question' = question, answer' = answer, up' = up, j' = j,
           \A i \in 1..Len(todo') : todo'[i].rec = "note"
    PROVE  FreshIsNow'
  BY NothingFresh DEF FreshIsNow, Asking, Fresh

LEMMA DecidesFresh ==
    ASSUME TypeOK, FreshIsNow,
           TakePause \/ InDraft \/ InPlanned \/ InSegmentPrepare \/ InPolicyStop \/ InPolicyStart
           \/ InPolicyReady \/ InArmRunning \/ InSegmentSealed \/ InAnalyzing
           \/ StopPolicy \/ StartPolicy \/ LaunchRun \/ WriteReport
    PROVE  FreshIsNow'
<1>1. ASSUME NEW q, Does(q), Quiet PROVE up' = up /\ j' = j /\ question' = question /\ answer' = answer
  BY <1>1 DEF Does, Quiet, inbox
<1>2. CASE TakePause
  <2>1. todo' = <<PauseNote>> /\ <<PauseNote>>[1].rec = "note" /\ Len(<<PauseNote>>) = 1
    BY <1>2 DEF TakePause, Does, PauseNote
  <2>2. \A i \in 1..Len(todo') : todo'[i].rec = "note"
    BY <2>1
  <2> QED
    BY <1>1, <1>2, <2>2, FreshStays DEF TakePause
<1>3. CASE InDraft \/ InPlanned \/ InSegmentPrepare \/ InPolicyStop \/ InPolicyStart
           \/ InPolicyReady \/ InArmRunning \/ InSegmentSealed \/ InAnalyzing
  <2>1. ~Asking
    BY <1>3 DEF Asking, HUMAN_STATES, InDraft, InPlanned, InSegmentPrepare, InPolicyStop,
       InPolicyStart, InPolicyReady, InArmRunning, InSegmentSealed, InAnalyzing
  <2>2. up' = up /\ j' = j /\ question' = question /\ answer' = answer
    BY <1>3 DEF Does, Quiet, inbox, InDraft, InPlanned, InSegmentPrepare, InPolicyStop,
       InPolicyStart, InPolicyReady, InArmRunning, InSegmentSealed, InAnalyzing
  <2>3. ~Fresh(question) /\ ~Fresh(answer)
    BY <2>1, NobodyAsked, Zenon
  <2> QED
    BY <2>2, <2>3, NothingFresh DEF Fresh
<1>4. CASE StopPolicy \/ StartPolicy \/ LaunchRun \/ WriteReport
  <2>1. Acting /\ up' = up /\ j' = j /\ question' = question /\ answer' = answer
    BY <1>4 DEF StopPolicy, StartPolicy, LaunchRun, WriteReport, Acted, inbox
  <2>2. ~Fresh(question) /\ ~Fresh(answer)
    BY <2>1, NobodyAsked, Zenon
  <2> QED
    BY <2>1, <2>2, NothingFresh DEF Fresh
<1> QED
  BY <1>2, <1>3, <1>4

LEMMA FreshInv == ASSUME TypeOK, FreshIsNow, [Next]_vars PROVE FreshIsNow'
<1> USE StaleIsNotFresh, NothingFresh
<1>1. question \in Questions \cup {Nothing} /\ answer \in Questions \cup {Nothing}
  BY DEF TypeOK
<1>2. CASE Ask
  <2>1. /\ question' = [fresh |-> TRUE, moved |-> FALSE] /\ answer' = answer /\ up' = up /\ up
        /\ j' = j /\ Asking /\ todo' = <<>> /\ ~Fresh(question)
    BY <1>2 DEF Ask, Advancing, Asked, Fresh
  <2>2. ~Fresh(answer)
    BY <2>1 DEF FreshIsNow, Fresh
  <2> QED
    BY <2>1, <2>2 DEF FreshIsNow, Fresh, Asking
<1>3. CASE DropAnswer
  <2>1. /\ question' = question /\ answer' = Nothing /\ todo' = <<Note>> /\ up' = up /\ j' = j
    BY <1>3 DEF DropAnswer, Does
  <2>2. <<Note>>[1].rec = "note" /\ Len(<<Note>>) = 1
    BY DEF Note
  <2>3. \A i \in 1..Len(todo') : todo'[i].rec = "note"
    BY <2>1, <2>2
  <2> QED
    BY <2>1, <2>3 DEF FreshIsNow, Asking
<1>4. CASE InEnvConfirm \/ WaitingForPerson
  BY <1>4, TakenFresh DEF InEnvConfirm, WaitingForPerson
<1>5. CASE Close
  <2>1. /\ answer' = Stale(answer)
        /\ question' = Nothing \/ (question' = question /\ ~(question # Nothing /\ question.fresh))
    BY <1>5, Zenon DEF Close, Asked
  <2> QED
    BY <1>1, <2>1 DEF Fresh
<1>6. CASE Crash
  BY <1>1, <1>6 DEF Crash, Fresh
<1>7. CASE Attach
  <2>1. ~up /\ question' = question /\ answer' = answer
    BY <1>7 DEF Attach, inbox
  <2>2. ~Fresh(question) /\ ~Fresh(answer)
    BY <2>1, NobodyAsked, Zenon
  <2> QED
    BY <2>1, <2>2 DEF Fresh
<1>8. CASE PersonAnswers
  BY <1>8 DEF PersonAnswers, FreshIsNow, Asking
<1>9. ASSUME NEW s \in Segments, ChildMoves(s) PROVE FreshIsNow'
  BY <1>9 DEF ChildMoves, inbox, FreshIsNow, Asking
<1>10. CASE PortChanges
  BY <1>10 DEF PortChanges, inbox, FreshIsNow, Asking
<1>11. CASE UNCHANGED vars
  BY <1>11 DEF vars, inbox, FreshIsNow, Asking
<1> QED
  BY <1>2, <1>3, <1>4, <1>5, <1>6, <1>7, <1>8, <1>9, <1>10, <1>11, AppendFresh, DecidesFresh
     DEF Next, Conducts

\* A question goes away where it is answered, or with the conductor.
LEMMA QuestionGoes ==
    ASSUME TypeOK, [Next]_vars, question # Nothing, question' = Nothing
    PROVE  ~up' \/ answer.fresh
<1>1. question \in Questions \cup {Nothing} /\ Moved(question) # Nothing
  BY StaleIsNotFresh DEF TypeOK
<1>2. ~AppendLine
  BY <1>1 DEF AppendLine, inbox
<1>3. ~Ask
  <2>1. [fresh |-> TRUE, moved |-> FALSE] \in [fresh : BOOLEAN, moved : BOOLEAN]
    OBVIOUS
  <2>2. [fresh |-> TRUE, moved |-> FALSE] # Nothing
    BY <2>1, ArmsAssumption, Zenon
  <2> QED
    BY <2>2 DEF Ask
<1>4. ASSUME NEW q, TakeAnswer(q) PROVE answer.fresh
  BY <1>4 DEF TakeAnswer, Answers
<1>5. ~TakePause /\ ~InDraft /\ ~InPlanned /\ ~InSegmentPrepare /\ ~InPolicyStop /\ ~InPolicyStart
      /\ ~InPolicyReady /\ ~InArmRunning /\ ~InSegmentSealed /\ ~InAnalyzing
  BY DEF Quiet, inbox, TakePause, InDraft, InPlanned, InSegmentPrepare, InPolicyStop,
     InPolicyStart, InPolicyReady, InArmRunning, InSegmentSealed, InAnalyzing
<1>6. ~StopPolicy /\ ~StartPolicy /\ ~LaunchRun /\ ~WriteReport /\ ~DropAnswer /\ ~Attach
      /\ ~PersonAnswers /\ ~PortChanges /\ ~UNCHANGED vars
  BY DEF StopPolicy, StartPolicy, LaunchRun, WriteReport, DropAnswer, Attach, PersonAnswers,
     PortChanges, inbox, vars
<1>7. \A s \in Segments : ~ChildMoves(s)
  BY DEF ChildMoves, inbox
<1>8. Close \/ Crash => ~up'
  BY DEF Close, Crash
<1>9. InEnvConfirm \/ WaitingForPerson => answer.fresh
  BY <1>4 DEF InEnvConfirm, WaitingForPerson
<1> QED
  BY <1>2, <1>3, <1>5, <1>6, <1>7, <1>8, <1>9 DEF Next, Conducts
-----------------------------------------------------------------------------
(* The theorems. *)

\* The variables keep to their types.
THEOREM Typed == Spec => []TypeOK
<1>1. Inv => TypeOK
  BY DEF Inv
<1> QED
  BY <1>1, Invariant, PTL

\* The journal never refuses a line the conductor writes.
THEOREM Accepted == Spec => []NeverRefused
<1>1. ASSUME Inv PROVE NeverRefused
  <2> SUFFICES ASSUME todo # <<>>, Head(todo) # Act PROVE Accepts(j, Head(todo))
    BY DEF NeverRefused
  <2> DEFINE l == Head(todo)
  <2>1. l = todo[1] /\ l \in Lines \cup {Act}
    BY <1>1, TailIs DEF Inv, TypeOK
  <2>2. First(j, child, Served, l)
    BY <1>1, <2>1 DEF Inv, Agenda
  <2>3. l.rec \in {"prepared", "acknowledged", "committed", "note", "aborted"}
    BY <2>1, LineKinds
  <2> HIDE DEF l
  <2>4. l.rec = "prepared" => MayPrepare(j, l.tx)
    BY <2>2 DEF First, Fits, MayPrepare
  <2> QED
    BY <2>2, <2>3, <2>4 DEF First, Accepts, l
<1> QED
  BY <1>1, Invariant, PTL

\* After an attach no policy is switched and no run launched before a person
\* has decided.
THEOREM Still == Spec => []NothingMovesUnanswered
<1>1. ASSUME Inv PROVE NothingMovesUnanswered
  BY <1>1, ActingIs DEF NothingMovesUnanswered
<1> QED
  BY <1>1, Invariant, PTL

\* No segment is started twice, whatever a crash left of an earlier launch.
THEOREM Once == Spec => []StartedOnce
<1>1. ASSUME Inv PROVE StartedOnce
  BY <1>1, ActingIs DEF StartedOnce, Launching, Kind
<1> QED
  BY <1>1, Invariant, PTL

\* A launch is decided on while the policy of the segment's own arm serves;
\* only what happens to the port after that is not seen.
THEOREM OwnPolicy == Spec => []RightPolicy
<1>1. ASSUME Inv PROVE RightPolicy
  BY <1>1, ActingIs DEF RightPolicy, Launching, Kind, Served
<1> QED
  BY <1>1, Invariant, PTL

\* An answer counts only for the wait it was given to.
THEOREM Answered == Spec => AnswersTheQuestion
<1>1. Init => FreshIsNow
  BY DEF Init, FreshIsNow
<1>2. TypeOK /\ FreshIsNow /\ [Next]_vars => FreshIsNow'
  BY FreshInv
<1>3. ASSUME TypeOK, FreshIsNow, [Next]_vars
      PROVE  [answer # Nothing /\ answer' # answer /\ up' /\ question # Nothing /\ question' = Nothing
                => ~answer.moved]_vars
  BY <1>3, QuestionGoes DEF FreshIsNow
<1> QED
  BY <1>1, <1>2, <1>3, Typed, PTL DEF Spec, AnswersTheQuestion
=============================================================================
