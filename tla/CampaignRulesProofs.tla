------------------------- MODULE CampaignRulesProofs -------------------------
(***************************************************************************)
(* Lemmas about CampaignRules: what each line changes of the replay, and   *)
(* that it stays a replay.                                                 *)
(***************************************************************************)
EXTENDS CampaignRules, TLAPS

USE SegmentCountAssumption, MaxFaultsAssumption

LEMMA SomeTx == \A t \in Transactions : t # NoTx
<1> SUFFICES ASSUME NEW t \in Transactions PROVE t.to # NoTx.to
  OBVIOUS
<1> QED
  BY DEF NoTx, Transactions, CAMPAIGN_STATES, SEGMENT_STATES, TERMINAL, HUMAN_STATES

LEMMA PrepareFields ==
    ASSUME NEW r \in Replays, NEW t \in Transactions
    PROVE  LET q == AfterPrepare(r, t) IN
           /\ q.open = t /\ q.ack = "none"
           /\ q.state = r.state /\ q.segment = r.segment /\ q.sealed = r.sealed
           /\ q.unplanned = r.unplanned /\ q.faults = r.faults /\ q.short = r.short
           /\ q.waitReason = r.waitReason /\ q.kept = r.kept /\ q.serving = r.serving
           /\ q.pause = r.pause
           /\ q.attempted = IF t.to = "ARM_RUNNING"
                            THEN r.attempted \cup {<<t.segment, t.attempt>>} ELSE r.attempted
           /\ t.kind # "launch_run" => q.launches = r.launches
           /\ t.kind = "launch_run" =>
                q.launches = [r.launches EXCEPT ![t.segment] = OneMore(r.launches[t.segment])]
<1> DEFINE q == AfterPrepare(r, t)
<1>1. /\ q.open = t /\ q.ack = "none"
      /\ q.state = r.state /\ q.segment = r.segment /\ q.sealed = r.sealed
      /\ q.unplanned = r.unplanned /\ q.faults = r.faults /\ q.short = r.short
      /\ q.waitReason = r.waitReason /\ q.kept = r.kept /\ q.serving = r.serving
      /\ q.pause = r.pause
  BY DEF AfterPrepare, Replays
<1>2. /\ q.attempted = IF t.to = "ARM_RUNNING"
                        THEN r.attempted \cup {<<t.segment, t.attempt>>} ELSE r.attempted
  BY DEF AfterPrepare, Replays
<1>3. t.kind # "launch_run" => q.launches = r.launches
  BY DEF AfterPrepare, Replays
<1>4. ASSUME t.kind = "launch_run"
      PROVE  q.launches = [r.launches EXCEPT ![t.segment] = OneMore(r.launches[t.segment])]
  BY <1>4 DEF AfterPrepare, Replays
<1> QED
  BY <1>1, <1>2, <1>3, <1>4

LEMMA AckFields ==
    ASSUME NEW r \in Replays, NEW e \in Executed
    PROVE  LET q == AfterAck(r, e) IN
           /\ q.open = r.open /\ q.ack = e
           /\ q.state = r.state /\ q.segment = r.segment /\ q.sealed = r.sealed
           /\ q.unplanned = r.unplanned /\ q.faults = r.faults /\ q.short = r.short
           /\ q.waitReason = r.waitReason /\ q.kept = r.kept /\ q.serving = r.serving
           /\ q.pause = r.pause /\ q.attempted = r.attempted
           /\ q.launches = IF Launching(r) THEN [r.launches EXCEPT ![r.open.segment].executed = e]
                           ELSE r.launches
  BY DEF AfterAck, Replays

LEMMA AbortFields ==
    ASSUME NEW r \in Replays
    PROVE  LET q == AfterAbort(r) IN
           /\ q.open = NoTx /\ q.ack = "none"
           /\ q.state = r.state /\ q.segment = r.segment /\ q.sealed = r.sealed
           /\ q.unplanned = r.unplanned /\ q.faults = r.faults /\ q.short = r.short
           /\ q.waitReason = r.waitReason /\ q.kept = r.kept /\ q.serving = r.serving
           /\ q.pause = r.pause /\ q.attempted = r.attempted
           /\ q.launches = IF Launching(r) THEN [r.launches EXCEPT ![r.open.segment].closed = TRUE]
                           ELSE r.launches
  BY DEF AfterAbort, Replays

LEMMA MoveFields ==
    ASSUME NEW r \in Replays
    PROVE  LET q == AfterMove(r)  t == r.open IN
           /\ q.open = NoTx /\ q.ack = "none"
           /\ q.state = t.to /\ q.sealed = r.sealed /\ q.unplanned = r.unplanned
           /\ q.attempted = r.attempted
           /\ q.segment = IF t.to \in SEGMENT_STATES THEN t.segment ELSE r.segment
           /\ q.faults = Faults(r, t) /\ q.serving = Serving(r, t)
           /\ q.kept = (t.reason = "same_arm_kept")
           /\ q.short = IF t.reason = "operator_accept_short" THEN r.short \cup {t.segment}
                        ELSE r.short
           /\ q.waitReason = IF t.to \in HUMAN_STATES THEN t.reason ELSE "none"
           /\ q.pause = (r.pause /\ t.to \notin {"PAUSED"} \cup TERMINAL)
           /\ q.launches = IF Launching(r)
                           THEN [r.launches EXCEPT ![t.segment].committed = TRUE,
                                                   ![t.segment].closed = TRUE]
                           ELSE r.launches
  BY DEF AfterMove, Replays

LEMMA CommitFields ==
    ASSUME NEW r \in Replays, NEW n \in Nat
    PROVE  LET q == AfterCommit(r, n)  t == r.open IN
           /\ q.open = NoTx /\ q.ack = "none"
           /\ q.state = t.to
           /\ q.segment = IF t.to \in SEGMENT_STATES THEN t.segment ELSE r.segment
           /\ q.short = IF t.reason = "operator_accept_short" THEN r.short \cup {t.segment}
                        ELSE r.short
           /\ q.waitReason = IF t.to \in HUMAN_STATES THEN t.reason ELSE "none"
           /\ t.to # "SEGMENT_SEALED" =>
                 q.sealed = r.sealed /\ q.attempted = r.attempted
                 /\ q.launches = AfterMove(r).launches
           /\ t.to = "SEGMENT_SEALED" =>
                 /\ q.sealed = r.sealed \cup {t.segment}
                 /\ q.attempted = {key \in r.attempted : key[1] # t.segment}
                 /\ q.launches = [AfterMove(r).launches EXCEPT ![t.segment] = NotLaunched]
<1> DEFINE m == AfterMove(r)
<1>1. DOMAIN m = DOMAIN r
  BY DEF AfterMove
<1>2. CASE r.open.to # "SEGMENT_SEALED"
  BY <1>2, MoveFields DEF AfterCommit
<1>3. CASE r.open.to = "SEGMENT_SEALED"
  <2> DEFINE s == r.open.segment
             q == [m EXCEPT !.sealed = @ \cup {s}, !.unplanned[s] = n,
                            !.launches[s] = NotLaunched,
                            !.attempted = {key \in @ : key[1] # s}]
  <2>1. AfterCommit(r, n) = q
    BY <1>3 DEF AfterCommit
  <2>2. DOMAIN m = {"state", "segment", "open", "ack", "attempted", "sealed", "unplanned",
                    "launches", "faults", "short", "waitReason", "kept", "serving", "pause"}
    BY <1>1 DEF Replays
  <2>3. /\ q.open = m.open /\ q.ack = m.ack /\ q.state = m.state /\ q.segment = m.segment
        /\ q.short = m.short /\ q.waitReason = m.waitReason
        /\ q.sealed = m.sealed \cup {s}
        /\ q.attempted = {key \in m.attempted : key[1] # s}
        /\ q.launches = [m.launches EXCEPT ![s] = NotLaunched]
    BY <2>2
  <2> HIDE DEF q, m
  <2> QED
    BY <1>3, <2>1, <2>3, MoveFields DEF m
<1> QED
  BY <1>2, <1>3
-----------------------------------------------------------------------------
(* Types. *)

LEMMA Words ==
    /\ NotLaunched \in Launches
    /\ 0 \in SegmentOrNone /\ Segments \subseteq SegmentOrNone
    /\ \A last \in Launches : OneMore(last) \in Launches
    /\ \A t \in Transactions : /\ t.to \in CAMPAIGN_STATES /\ t.segment \in SegmentOrNone
                               /\ t.reason \in REASONS
<1>1. NotLaunched \in Launches /\ \A last \in Launches : OneMore(last) \in Launches
  BY DEF NotLaunched, Launches, OneMore
<1>2. 0 \in SegmentOrNone /\ Segments \subseteq SegmentOrNone
  BY DEF Segments, SegmentOrNone
<1>3. ASSUME NEW t \in Transactions
      PROVE  t.to \in CAMPAIGN_STATES /\ t.segment \in SegmentOrNone /\ t.reason \in REASONS
  BY DEF Transactions
<1> QED
  BY <1>1, <1>2, <1>3

\* What a transaction of a segment needs besides.
OfSegment(t) ==
    /\ t.to \in SEGMENT_STATES => t.segment \in Segments
    /\ t.kind = "launch_run" => t.to = "ARM_RUNNING"
    /\ t.reason = "operator_accept_short" => t.to = "ARM_RUNNING"

LEMMA PrepareTyped ==
    ASSUME NEW r \in Replays, NEW t \in Transactions, OfSegment(t)
    PROVE  AfterPrepare(r, t) \in Replays
<1> DEFINE A == IF t.to = "ARM_RUNNING" THEN r.attempted \cup {<<t.segment, t.attempt>>}
                ELSE r.attempted
           L == IF t.kind = "launch_run"
                THEN [r.launches EXCEPT ![t.segment] = OneMore(r.launches[t.segment])]
                ELSE r.launches
<1>1. A \in SUBSET (Segments \X Nat)
  BY DEF OfSegment, SEGMENT_STATES, Replays, Transactions
<1>2. L \in [Segments -> Launches]
  <2>1. r.launches \in [Segments -> Launches]
    BY DEF Replays
  <2>2. CASE t.kind = "launch_run"
    BY <2>1, <2>2, Words DEF OfSegment, SEGMENT_STATES
  <2> QED
    BY <2>1, <2>2
<1>3. AfterPrepare(r, t) = [r EXCEPT !.open = t, !.ack = "none", !.attempted = A, !.launches = L]
  BY DEF AfterPrepare
<1> HIDE DEF A, L
<1> QED
  BY <1>1, <1>2, <1>3 DEF Replays

LEMMA AckTyped ==
    ASSUME NEW r \in Replays, NEW e \in Executed, r.open # NoTx => OfSegment(r.open)
    PROVE  AfterAck(r, e) \in Replays
<1> DEFINE L == IF Launching(r) THEN [r.launches EXCEPT ![r.open.segment].executed = e]
                ELSE r.launches
<1>1. L \in [Segments -> Launches]
  <2>1. r.launches \in [Segments -> Launches]
    BY DEF Replays
  <2>2. \A last \in Launches : [last EXCEPT !.executed = e] \in Launches
    BY DEF Launches, Executed
  <2>3. CASE Launching(r)
    <3>1. r.open.segment \in Segments
      BY <2>3 DEF Launching, OfSegment, SEGMENT_STATES
    <3> QED
      BY <2>1, <2>2, <2>3, <3>1
  <2> QED
    BY <2>1, <2>3
<1>2. AfterAck(r, e) = [r EXCEPT !.ack = e, !.launches = L]
  BY DEF AfterAck
<1> HIDE DEF L
<1> QED
  BY <1>1, <1>2 DEF Replays

LEMMA AbortTyped ==
    ASSUME NEW r \in Replays, r.open # NoTx => OfSegment(r.open)
    PROVE  AfterAbort(r) \in Replays
<1> DEFINE L == IF Launching(r) THEN [r.launches EXCEPT ![r.open.segment].closed = TRUE]
                ELSE r.launches
<1>1. L \in [Segments -> Launches]
  <2>1. r.launches \in [Segments -> Launches]
    BY DEF Replays
  <2>2. \A last \in Launches : [last EXCEPT !.closed = TRUE] \in Launches
    BY DEF Launches
  <2>3. CASE Launching(r)
    <3>1. r.open.segment \in Segments
      BY <2>3 DEF Launching, OfSegment, SEGMENT_STATES
    <3> QED
      BY <2>1, <2>2, <2>3, <3>1
  <2> QED
    BY <2>1, <2>3
<1>2. AfterAbort(r) = [r EXCEPT !.open = NoTx, !.ack = "none", !.launches = L]
  BY DEF AfterAbort
<1> HIDE DEF L
<1> QED
  BY <1>1, <1>2 DEF Replays

LEMMA MoveTyped ==
    ASSUME NEW r \in Replays, r.open # NoTx, OfSegment(r.open)
    PROVE  AfterMove(r) \in Replays
<1> DEFINE t == r.open
           L == IF Launching(r)
                THEN [r.launches EXCEPT ![t.segment].committed = TRUE, ![t.segment].closed = TRUE]
                ELSE r.launches
           F == Faults(r, t)
           S == IF t.reason = "operator_accept_short" THEN r.short \cup {t.segment} ELSE r.short
           V == Serving(r, t)
           W == IF t.to \in HUMAN_STATES THEN t.reason ELSE "none"
           G == IF t.to \in SEGMENT_STATES THEN t.segment ELSE r.segment
<1>1. t \in Transactions
  BY DEF Replays
<1>2. L \in [Segments -> Launches]
  <2>1. r.launches \in [Segments -> Launches]
    BY DEF Replays
  <2>2. \A last \in Launches : [[last EXCEPT !.committed = TRUE] EXCEPT !.closed = TRUE] \in Launches
    BY DEF Launches
  <2>3. CASE Launching(r)
    <3>1. r.open.segment \in Segments
      BY <2>3 DEF Launching, OfSegment, SEGMENT_STATES
    <3> QED
      BY <2>1, <2>2, <2>3, <3>1
  <2> QED
    BY <2>1, <2>3
<1>3. F \in 0..MaxFaults
  BY DEF Faults, Replays
<1>4. S \in SUBSET Segments
  BY DEF OfSegment, SEGMENT_STATES, Replays
<1>5. V \in SegmentOrNone /\ G \in SegmentOrNone
  BY <1>1, Words DEF Serving, Replays
<1>6. W \in REASONS /\ t.to \in CAMPAIGN_STATES
  BY <1>1, Words DEF REASONS
<1>7. PICK kept \in BOOLEAN : kept = (t.reason = "same_arm_kept")
  OBVIOUS
<1>8. PICK pause \in BOOLEAN : pause = (r.pause /\ t.to \notin {"PAUSED"} \cup TERMINAL)
  OBVIOUS
<1> DEFINE q == [r EXCEPT !.state = t.to, !.kept = kept, !.open = NoTx, !.ack = "none",
                          !.segment = G, !.launches = L, !.faults = F, !.short = S,
                          !.serving = V, !.waitReason = W, !.pause = pause]
<1>9. AfterMove(r) = q
  BY <1>7, <1>8 DEF AfterMove
<1>10. q \in Replays
  <2> HIDE DEF t, L, F, S, V, W, G
  <2> QED
    BY <1>2, <1>3, <1>4, <1>5, <1>6 DEF Replays
<1> QED
  BY <1>9, <1>10

LEMMA CommitTyped ==
    ASSUME NEW r \in Replays, r.open # NoTx, OfSegment(r.open), NEW n \in Nat
    PROVE  AfterCommit(r, n) \in Replays
<1> DEFINE m == AfterMove(r)  s == r.open.segment
<1>1. m \in Replays
  BY MoveTyped
<1>2. CASE r.open.to # "SEGMENT_SEALED"
  BY <1>1, <1>2 DEF AfterCommit
<1>3. CASE r.open.to = "SEGMENT_SEALED"
  <2>1. AfterCommit(r, n) = [m EXCEPT !.sealed = @ \cup {s}, !.unplanned[s] = n,
                            !.launches[s] = NotLaunched,
                            !.attempted = {key \in @ : key[1] # s}]
    BY <1>3 DEF AfterCommit
  <2>2. s \in Segments
    BY <1>3 DEF OfSegment, SEGMENT_STATES
  <2>3. /\ m.sealed \cup {s} \in SUBSET Segments
        /\ [m.unplanned EXCEPT ![s] = n] \in [Segments -> Nat]
        /\ [m.launches EXCEPT ![s] = NotLaunched] \in [Segments -> Launches]
        /\ {key \in m.attempted : key[1] # s} \in SUBSET (Segments \X Nat)
    BY <1>1, <2>2, Words DEF Replays
  <2> HIDE DEF m, s
  <2> QED
    BY <1>1, <2>1, <2>3 DEF Replays
<1> QED
  BY <1>2, <1>3
=============================================================================
