------------------------ MODULE CommandChannelProofs ------------------------
(***************************************************************************)
(* Proofs of the four safety properties of the command channel, for any    *)
(* commands, any number of runners and any results lost:                   *)
(*                                                                         *)
(*   ResumedOnce      a resume takes the run on at most once;              *)
(*   CarriedOutOnce   a runner carries a command out at most once;         *)
(*   OldStopsStayOld  a stop sent before a resume does not stop the run    *)
(*                    that resume took on;                                 *)
(*   AnswersTrue      a result says what became of its command.            *)
(*                                                                         *)
(* None is inductive. ResumedOnce needs that a runner that takes the file  *)
(* again finds the command's line in the journal (OnRecord), and that      *)
(* between the line and its commit the transition was not made (InHand).   *)
(* CarriedOutOnce needs that the listing names each open file once, which  *)
(* is about the places of the inbox (Rank), and that what is listed stays  *)
(* to be dealt with until it is taken (Queue). OldStopsStayOld follows     *)
(* from the order in which the listing was worked off (Order), and         *)
(* AnswersTrue from where each code comes from (Told).                     *)
(***************************************************************************)
EXTENDS CommandChannel, FiniteSetTheorems, SequenceTheorems, TLAPS

Typed ==
    /\ made \in [Ids -> Nat]
    /\ used \in [Ids -> {"none", "human_resumed", "operator_stop"}]

\* What was made has its line in the journal.
OnRecord == \A c \in Ids : made[c] > 0 => used[c] # "none"

\* The resume between its line and its commit.
InHand == pump = "commit" /\ cur \in Ids => made[cur] = 0 /\ used[cur] # "none"

IInv == Typed /\ ResumedOnce /\ OnRecord /\ InHand

\* An action that makes nothing, forgets no line and prepares no resume.
Quiet ==
    /\ made' = made
    /\ used' \in [Ids -> {"none", "human_resumed", "operator_stop"}]
    /\ \A c \in Ids : used[c] # "none" => used'[c] # "none"
    /\ pump' = "commit" => pump = "commit" /\ cur' = cur

LEMMA QuietKeeps == ASSUME IInv, Quiet PROVE IInv'
BY DEF IInv, Quiet, Typed, ResumedOnce, OnRecord, InHand

LEMMA InitHolds == Init => IInv
BY DEF Init, IInv, Typed, ResumedOnce, OnRecord, InHand

\* Only a command with no line at all is not refused.
LEMMA NotRefused ==
    ASSUME Typed, NEW c \in Ids, ResumeRefusal(c) = "none"
    PROVE  used[c] = "none"
BY DEF Typed, ResumeRefusal

LEMMA Prepares == ASSUME IInv, PreparesResume PROVE IInv'
<1>1. CASE ResumeRefusal(cur) # "none"
  <2>1. Quiet
    BY <1>1 DEF PreparesResume, Answers, Quiet, IInv, Typed, ghosts
  <2> QED BY <2>1, QuietKeeps
<1>2. CASE ResumeRefusal(cur) = "none"
  <2>1. /\ made' = made /\ cur' = cur
        /\ used' = [used EXCEPT ![cur] = "human_resumed"]
    BY <1>2 DEF PreparesResume, ghosts
  <2>2. Typed' /\ ResumedOnce' /\ OnRecord'
    BY <2>1 DEF IInv, Typed, ResumedOnce, OnRecord
  <2>3. InHand'
    <3> SUFFICES ASSUME cur \in Ids PROVE made[cur] = 0 /\ used'[cur] # "none"
      BY <2>1 DEF InHand
    <3>1. used[cur] = "none"
      BY <1>2, NotRefused DEF IInv
    <3> QED BY <2>1, <3>1 DEF IInv, Typed, OnRecord
  <2> QED BY <2>2, <2>3 DEF IInv
<1> QED BY <1>1, <1>2

LEMMA CommitsOne == ASSUME IInv, CommitsResume PROVE IInv'
<1>1. /\ made' = [made EXCEPT ![cur] = @ + 1] /\ used' = used
      /\ pump = "commit" /\ pump' = "finish"
  BY DEF CommitsResume, Answers, At
<1>2. \A c \in Ids : made'[c] = IF c = cur THEN made[c] + 1 ELSE made[c]
  BY <1>1 DEF IInv, Typed
<1>3. Typed'
  <2>1. DOMAIN made' = Ids /\ \A c \in Ids : made'[c] \in Nat
    BY <1>1, <1>2 DEF IInv, Typed
  <2>2. made' = [c \in Ids |-> made'[c]]
    BY <1>1 DEF IInv, Typed
  <2> QED BY <1>1, <2>1, <2>2 DEF IInv, Typed
<1>4. ResumedOnce' /\ OnRecord'
  BY <1>1, <1>2 DEF IInv, Typed, ResumedOnce, OnRecord, InHand
<1>5. InHand'
  BY <1>1 DEF InHand
<1> QED BY <1>3, <1>4, <1>5 DEF IInv

\* Every other action is quiet.
LEMMA StopIsQuiet == ASSUME Typed, StopsNow PROVE Quiet
BY DEF StopsNow, Answers, At, Quiet, Typed, ghosts

LEMMA RunIsQuiet == ASSUME Typed, Run PROVE Quiet
<1>1. CASE ReachesPerson
  BY <1>1 DEF ReachesPerson, Quiet, Typed, ghosts
<1>2. CASE Ends
  BY <1>2 DEF Ends, Quiet, Typed, pumpvars, ghosts
<1> QED BY <1>1, <1>2 DEF Run

LEMMA DriverIsQuiet == ASSUME Typed, Driver PROVE Quiet
<1> USE DEF Quiet, Typed, durable, pumpvars, ghosts, Drives
<1>1. CASE LoopReturns BY <1>1 DEF LoopReturns
<1>2. CASE Reads BY <1>2 DEF Reads
<1>3. CASE Turns BY <1>3 DEF Turns
<1>4. CASE ClosesPump BY <1>4 DEF ClosesPump
<1>5. CASE Joins BY <1>5 DEF Joins
<1>6. CASE LastTick BY <1>6 DEF LastTick
<1>7. CASE Exits BY <1>7 DEF Exits, Forgotten
<1> QED BY <1>1, <1>2, <1>3, <1>4, <1>5, <1>6, <1>7 DEF Driver

LEMMA OutsideIsQuiet ==
    ASSUME Typed, (\E c \in Ids : Sends(c)) \/ Signal \/ GoesOn \/ Crash \/ Attach
    PROVE  Quiet
<1> USE DEF Quiet, Typed, durable, drvars, pumpvars, ghosts
<1>1. CASE \E c \in Ids : Sends(c) BY <1>1 DEF Sends
<1>2. CASE Signal BY <1>2 DEF Signal
<1>3. CASE GoesOn BY <1>3 DEF GoesOn
<1>4. CASE Crash BY <1>4 DEF Crash, Forgotten
<1>5. CASE Attach BY <1>5 DEF Attach
<1> QED BY <1>1, <1>2, <1>3, <1>4, <1>5

LEMMA Step == ASSUME IInv, Next PROVE IInv'
<1>1. CASE Pump
  <2>1. CASE PreparesResume BY <2>1, Prepares
  <2>2. CASE CommitsResume BY <2>2, CommitsOne
  <2>3. CASE StopsNow BY <2>3, StopIsQuiet, QuietKeeps DEF IInv
  <2>4. CASE Takes
    <3>1. Quiet
      BY <2>4 DEF Takes, Quiet, IInv, Typed, durable
    <3> QED BY <3>1, QuietKeeps
  <2>5. CASE Polls \/ LooksAtSignal \/ Lists \/ RegistersStop \/ WritesResult \/ EndsTick
             \/ \E c \in Ids : Retries(c)
    <3>1. Quiet
      BY <2>5 DEF Polls, LooksAtSignal, Lists, RegistersStop, Answers, WritesResult, EndsTick,
                  Retries, Goes, At, Quiet, IInv, Typed, durable, ghosts
    <3> QED BY <3>1, QuietKeeps
  <2> QED BY <1>1, <2>1, <2>2, <2>3, <2>4, <2>5 DEF Pump
<1>2. CASE Run BY <1>2, RunIsQuiet, QuietKeeps DEF IInv
<1>3. CASE Driver BY <1>3, DriverIsQuiet, QuietKeeps DEF IInv
<1>4. CASE (\E c \in Ids : Sends(c)) \/ Signal \/ GoesOn \/ Crash \/ Attach
  BY <1>4, OutsideIsQuiet, QuietKeeps DEF IInv
<1> QED BY <1>1, <1>2, <1>3, <1>4 DEF Next

LEMMA AlwaysResumed == Spec => []IInv
<1>1. ASSUME IInv, UNCHANGED vars PROVE IInv'
  BY <1>1 DEF IInv, Typed, ResumedOnce, OnRecord, InHand, vars, durable, pumpvars, ghosts
<1>2. IInv /\ [Next]_vars => IInv'
  BY <1>1, Step
<1> QED BY InitHolds, <1>2, PTL DEF Spec

\* A resume command takes the run on at most once, whatever dies or is lost
\* between its line in the journal and its result.
THEOREM ResumesOnce == Spec => []ResumedOnce
<1>1. IInv => ResumedOnce
  BY DEF IInv
<1> QED
  BY <1>1, AlwaysResumed, PTL

-----------------------------------------------------------------------------
(* The listing.                                                            *)

\* Of places S, how many are no further than i.
Rank(S, i) == Cardinality({j \in S : j <= i})

LEMMA RankGrows ==
    ASSUME NEW n \in Nat, NEW S \in SUBSET (1..n), NEW i \in S, NEW l \in S, i < l
    PROVE  Rank(S, i) < Rank(S, l)
<1> DEFINE A == {j \in S : j <= i}
           B == {j \in S : j <= l}
<1>1. IsFiniteSet(1..n)
  BY FS_Interval
<1>2. IsFiniteSet(B)
  <2>1. B \in SUBSET (1..n)
    OBVIOUS
  <2> QED
    BY <1>1, <2>1, FS_Subset
<1>3. A \in SUBSET B /\ A # B
  <2>1. i \in 1..n /\ l \in 1..n
    OBVIOUS
  <2>2. l \in B /\ l \notin A
    BY <2>1
  <2>3. \A j \in S : j \in 1..n
    OBVIOUS
  <2>4. \A j \in A : j \in B
    BY <2>1, <2>3
  <2> QED
    BY <2>2, <2>4
<1> HIDE DEF A, B
<1>4. IsFiniteSet(A) /\ Cardinality(A) <= Cardinality(B) /\ Cardinality(A) # Cardinality(B)
  BY <1>2, <1>3, FS_Subset
<1>5. Cardinality(A) \in Nat /\ Cardinality(B) \in Nat
  BY <1>2, <1>4, FS_CardinalityType
<1>6. Cardinality(A) < Cardinality(B)
  BY <1>4, <1>5
<1> QED
  BY <1>6 DEF A, B, Rank

\* Every place has a rank of its own, and every rank its place.
LEMMA RankHasPlace ==
    ASSUME NEW n \in Nat, NEW S \in SUBSET (1..n)
    PROVE  /\ Cardinality(S) \in Nat
           /\ \A i \in S : Rank(S, i) \in 1..Cardinality(S)
           /\ \A k \in 1..Cardinality(S) : \E i \in S : Rank(S, i) = k
<1>1. IsFiniteSet(S)
  <2>1. IsFiniteSet(1..n)
    BY FS_Interval
  <2> QED
    BY <2>1, FS_Subset
<1>2. Cardinality(S) \in Nat
  BY <1>1, FS_CardinalityType
<1>3. ASSUME NEW i \in S
      PROVE  Rank(S, i) \in 1..Cardinality(S)
  <2> DEFINE A == {j \in S : j <= i}
  <2>1. A \in SUBSET S
    OBVIOUS
  <2>2. i \in 1..n
    OBVIOUS
  <2>3. i \in A
    BY <2>2
  <2> HIDE DEF A
  <2>4. IsFiniteSet(A) /\ Cardinality(A) <= Cardinality(S)
    BY <1>1, <2>1, FS_Subset
  <2>5. Cardinality(A) \in Nat
    BY <2>4, FS_CardinalityType
  <2>6. Cardinality(A) # 0
    BY <2>3, <2>4, FS_EmptySet
  <2>7. Cardinality(A) \in 1..Cardinality(S)
    BY <1>2, <2>4, <2>5, <2>6
  <2> QED
    BY <2>7 DEF A, Rank
<1> DEFINE f == [i \in S |-> Rank(S, i)]
           T == 1..Cardinality(S)
<1>4. IsFiniteSet(T) /\ Cardinality(T) = Cardinality(S)
  <2>1. IsFiniteSet(T) /\ Cardinality(T) = IF 1 > Cardinality(S) THEN 0 ELSE Cardinality(S) - 1 + 1
    BY <1>2, FS_Interval
  <2> HIDE DEF T
  <2> QED
    BY <1>2, <2>1
<1>5. f \in Injection(S, T)
  <2>1. f \in [S -> T]
    BY <1>3
  <2>2. ASSUME NEW i \in S, NEW l \in S, f[i] = f[l]
        PROVE  i = l
    <3>1. i \in 1..n /\ l \in 1..n
      OBVIOUS
    <3>2. Rank(S, i) = Rank(S, l) /\ Rank(S, i) \in 1..Cardinality(S)
      BY <1>3, <2>2
    <3>3. ~(i < l)
      <4> SUFFICES ASSUME i < l PROVE FALSE
        OBVIOUS
      <4>1. Rank(S, i) < Rank(S, l)
        BY RankGrows
      <4> QED
        BY <1>2, <3>2, <4>1
    <3>4. ~(l < i)
      <4> SUFFICES ASSUME l < i PROVE FALSE
        OBVIOUS
      <4>1. Rank(S, l) < Rank(S, i)
        BY RankGrows
      <4> QED
        BY <1>2, <3>2, <4>1
    <3> QED
      BY <3>1, <3>3, <3>4
  <2> HIDE DEF f, T
  <2> QED
    BY <2>1, <2>2 DEF Injection, IsInjective
<1>6. f \in Surjection(S, T)
  <2> HIDE DEF f, T
  <2> QED
    BY <1>4, <1>5, FS_Injection
<1>7. \A k \in T : \E i \in S : f[i] = k
  <2> HIDE DEF f, T
  <2> QED
    BY <1>6 DEF Surjection
<1> QED
  BY <1>2, <1>3, <1>7

LEMMA NthPlace ==
    ASSUME NEW n \in Nat, NEW S \in SUBSET (1..n)
    PROVE  /\ Cardinality(S) \in Nat
           /\ \A k \in 1..Cardinality(S) : Nth(S, k) \in S /\ Rank(S, Nth(S, k)) = k
           /\ \A i \in S : \E k \in 1..Cardinality(S) : Nth(S, k) = i
<1>1. Cardinality(S) \in Nat
  BY RankHasPlace
<1>2. ASSUME NEW k \in 1..Cardinality(S)
      PROVE  Nth(S, k) \in S /\ Rank(S, Nth(S, k)) = k
  <2>1. \E i \in S : Cardinality({j \in S : j <= i}) = k
    BY RankHasPlace DEF Rank
  <2> QED
    BY <2>1 DEF Nth, Rank
<1>3. ASSUME NEW i \in S
      PROVE  \E k \in 1..Cardinality(S) : Nth(S, k) = i
  <2> DEFINE k == Rank(S, i)
             l == Nth(S, k)
  <2>1. k \in 1..Cardinality(S)
    BY RankHasPlace
  <2>2. l \in S /\ Rank(S, l) = k
    BY <1>2, <2>1
  <2>3. i \in 1..n /\ l \in 1..n /\ k \in Nat
    <3> HIDE DEF k, l
    <3> QED
      BY <1>1, <2>1, <2>2
  <2>4. ~(i < l) /\ ~(l < i)
    <3> HIDE DEF l
    <3>1. Rank(S, i) = Rank(S, l) /\ Rank(S, i) \in Nat
      BY <2>2, <2>3
    <3> QED
      BY <2>2, <3>1, RankGrows
  <2>5. i = l
    <3> HIDE DEF l, k
    <3> QED
      BY <2>3, <2>4
  <2> QED
    BY <2>1, <2>5
<1> QED
  BY <1>1, <1>2, <1>3

\* The listing goes through the open files once, by age.
LEMMA PendingLists ==
    ASSUME inbox \in Seq([id : Ids, kind : {"stop", "resume"}])
    PROVE  LET n == Cardinality(OpenFiles)
           IN  /\ n \in Nat /\ Pending \in [1..n -> Ids]
               /\ \A k \in 1..n : /\ Nth(OpenFiles, k) \in OpenFiles
                                 /\ Pending[k] = inbox[Nth(OpenFiles, k)].id
               /\ \A k, l \in 1..n : k < l => Nth(OpenFiles, k) < Nth(OpenFiles, l)
               /\ \A i \in OpenFiles : \E k \in 1..n : Nth(OpenFiles, k) = i
<1> DEFINE n == Cardinality(OpenFiles)
<1>1. Len(inbox) \in Nat /\ OpenFiles \in SUBSET (1..Len(inbox))
  BY DEF OpenFiles
<1>2. \A i \in OpenFiles : inbox[i].id \in Ids
  <2>1. \A i \in 1..Len(inbox) : inbox[i] \in [id : Ids, kind : {"stop", "resume"}]
    BY ElementOfSeq
  <2>2. \A i \in OpenFiles : i \in 1..Len(inbox)
    BY <1>1
  <2> QED
    BY <2>1, <2>2
<1>3. Pending = [k \in 1..n |-> inbox[Nth(OpenFiles, k)].id]
  BY DEF Pending
<1>4. /\ n \in Nat
      /\ \A k \in 1..n : Nth(OpenFiles, k) \in OpenFiles /\ Rank(OpenFiles, Nth(OpenFiles, k)) = k
      /\ \A i \in OpenFiles : \E k \in 1..n : Nth(OpenFiles, k) = i
  BY <1>1, NthPlace
<1>5. ASSUME NEW k \in 1..n, NEW l \in 1..n, k < l
      PROVE  Nth(OpenFiles, k) < Nth(OpenFiles, l)
  <2>1. Nth(OpenFiles, k) \in OpenFiles /\ Nth(OpenFiles, l) \in OpenFiles
    BY <1>4
  <2>2. Nth(OpenFiles, k) \in 1..Len(inbox) /\ Nth(OpenFiles, l) \in 1..Len(inbox)
    BY <1>1, <2>1
  <2>3. Nth(OpenFiles, k) # Nth(OpenFiles, l)
    BY <1>4, <1>5
  <2>4. ~(Nth(OpenFiles, l) < Nth(OpenFiles, k))
    <3> SUFFICES ASSUME Nth(OpenFiles, l) < Nth(OpenFiles, k) PROVE FALSE
      OBVIOUS
    <3>1. Rank(OpenFiles, Nth(OpenFiles, l)) < Rank(OpenFiles, Nth(OpenFiles, k))
      BY <1>1, <2>1, RankGrows
    <3>2. l < k
      BY <1>4, <3>1
    <3> QED
      BY <1>4, <1>5, <3>2
  <2> QED
    BY <2>2, <2>3, <2>4
<1> HIDE DEF n
<1>6. Pending \in [1..n -> Ids] /\ \A k \in 1..n : Pending[k] = inbox[Nth(OpenFiles, k)].id
  BY <1>2, <1>3, <1>4
<1> QED
  BY <1>4, <1>5, <1>6 DEF n

-----------------------------------------------------------------------------
(* Types.                                                                  *)

Stages == {"stop", "stopping", "resume", "commit", "finish"}
Pumps == {"idle", "tick", "list", "next"} \cup Stages
Drivers == {"down", "running", "reading", "top", "over", "joining", "closing", "leaving"}

DurableTypes ==
    /\ inbox \in Seq([id : Ids, kind : {"stop", "resume"}])
    /\ results \in [Ids -> Codes \cup {"none"}]
    /\ state \in States /\ prepared \in Ids \cup {NoId}
    /\ used \in [Ids -> {"none", "human_resumed", "operator_stop"}]
    /\ fresh \subseteq Ids
    /\ made \in [Ids -> Nat] /\ lives \in Nat /\ fails \in Nat

MemoryTypes ==
    /\ driver \in Drivers
    /\ seen \in States /\ sigterm \in BOOLEAN
    /\ settled \in Codes \cup {"none"}
    /\ pump \in Pumps
    /\ todo \in Seq(Ids) /\ cur \in Ids \cup {Sigterm, NoId} /\ answer \in Codes \cup {"none"}
    /\ handled \subseteq Ids /\ unwritten \in [Ids -> Result]
    /\ stops \in Seq(Ids \cup {Sigterm})
    /\ closed \in BOOLEAN /\ closing \in BOOLEAN
    /\ took \in [Ids -> Nat]

\* The command in hand.
InHands ==
    /\ pump \in {"resume", "commit"} => cur \in Ids
    /\ pump \in {"stop", "stopping", "finish"} => cur \in Ids \cup {Sigterm}
    /\ cur \in Ids => pump \in Stages

Types == DurableTypes /\ MemoryTypes /\ InHands

LEMMA NoIdIsNone == NoId \notin Ids /\ Sigterm \notin Ids /\ NoId # Sigterm
BY IdsAssumption

LEMMA ResultType ==
    ASSUME NEW c \in Codes \cup {"none"}, NEW n \in Nat
    PROVE  [code |-> c, tries |-> n] \in Result
BY DEF Result

LEMMA WrittenIsResult == Written \in Result
<1>1. "none" \in Codes \cup {"none"} /\ 0 \in Nat
  OBVIOUS
<1>2. [code |-> "none", tries |-> 0] \in Result
  BY ONLY <1>1, ResultType
<1> QED
  BY <1>2 DEF Written

LEMMA ForgottenTypes == ASSUME Forgotten, driver' \in Drivers, seen' \in States PROVE MemoryTypes' /\ InHands'
<1>1. todo' \in Seq(Ids) /\ stops' \in Seq(Ids \cup {Sigterm})
  BY EmptySeq DEF Forgotten
<1>2. unwritten' \in [Ids -> Result] /\ took' \in [Ids -> Nat]
  BY WrittenIsResult DEF Forgotten
<1> QED
  BY <1>1, <1>2, NoIdIsNone DEF Forgotten, MemoryTypes, InHands, Stages, Pumps

LEMMA InitTypes == Init => Types
<1> SUFFICES ASSUME Init PROVE Types
  OBVIOUS
<1>1. DurableTypes
  <2>1. inbox \in Seq([id : Ids, kind : {"stop", "resume"}])
    BY EmptySeq DEF Init
  <2>2. made \in [Ids -> Nat] /\ lives \in Nat /\ fails \in Nat
    BY DEF Init
  <2>3. state \in States /\ prepared \in Ids \cup {NoId}
    BY DEF Init, States
  <2> QED
    BY <2>1, <2>2, <2>3 DEF Init, DurableTypes
<1>2. MemoryTypes /\ InHands
  <2>1. todo \in Seq(Ids) /\ stops \in Seq(Ids \cup {Sigterm})
    BY EmptySeq DEF Init
  <2> QED
  BY <2>1, NoIdIsNone, WrittenIsResult DEF Init, MemoryTypes, InHands, Stages, Pumps, Drivers, States
<1> QED
  BY <1>1, <1>2 DEF Types

LEMMA OutsideTypes ==
    ASSUME Types, (\E c \in Ids : Sends(c)) \/ Signal \/ GoesOn \/ Crash \/ Attach
    PROVE  Types'
<1>1. ASSUME NEW c \in Ids, Sends(c) PROVE Types'
  <2>1. \A k \in {"stop", "resume"} : [id |-> c, kind |-> k] \in [id : Ids, kind : {"stop", "resume"}]
    OBVIOUS
  <2>2. inbox' \in Seq([id : Ids, kind : {"stop", "resume"}]) /\ fresh' \subseteq Ids
    BY <1>1, <2>1 DEF Sends, Types, DurableTypes
  <2>3. DurableTypes'
    BY <1>1, <2>2 DEF Sends, Types, DurableTypes, ghosts
  <2> QED
    BY <1>1, <2>3 DEF Sends, Types, MemoryTypes, InHands, drvars, pumpvars, endvars, ghosts
<1>2. CASE Signal \/ GoesOn
  BY <1>2 DEF Signal, GoesOn, Types, DurableTypes, MemoryTypes, InHands, durable, drvars, pumpvars,
     endvars, ghosts
<1>3. CASE Crash
  <2>1. DurableTypes'
    BY <1>3 DEF Crash, Types, DurableTypes, durable
  <2> QED
    BY <1>3, <2>1, ForgottenTypes DEF Crash, Types, Drivers, States
<1>4. CASE Attach
  <2>1. DurableTypes'
    BY <1>4 DEF Attach, Types, DurableTypes, States, HOLD
  <2>2. MemoryTypes' /\ InHands'
    BY <1>4 DEF Attach, Types, MemoryTypes, InHands, pumpvars, endvars, Drivers
  <2> QED
    BY <2>1, <2>2 DEF Types
<1> QED
  BY <1>1, <1>2, <1>3, <1>4

LEMMA RunTypes == ASSUME Types, Run PROVE Types'
<1>1. CASE ReachesPerson
  <2>1. used' \in [Ids -> {"none", "human_resumed", "operator_stop"}]
    BY <1>1 DEF ReachesPerson, Types, DurableTypes
  <2>2. DurableTypes'
    BY <1>1, <2>1 DEF ReachesPerson, Types, DurableTypes, States, HOLD, ghosts
  <2>3. stops' \in Seq(Ids \cup {Sigterm})
    BY <1>1 DEF ReachesPerson
  <2> QED
    BY <1>1, <2>2, <2>3 DEF ReachesPerson, Types, MemoryTypes, InHands, drvars, endvars, ghosts
<1>2. CASE Ends
  BY <1>2 DEF Ends, Types, DurableTypes, MemoryTypes, InHands, States, HOLD, drvars, pumpvars,
     endvars, ghosts
<1> QED
  BY <1>1, <1>2 DEF Run

LEMMA DriverTypes == ASSUME Types, Driver PROVE Types'
<1>1. CASE Exits
  <2>1. DurableTypes'
    BY <1>1 DEF Exits, Types, DurableTypes, durable
  <2> QED
    BY <1>1, <2>1, ForgottenTypes DEF Exits, Drives, Types, Drivers, States
<1>2. CASE LoopReturns \/ Reads \/ Turns \/ ClosesPump \/ Joins \/ LastTick
  <2>1. DurableTypes'
    BY <1>2 DEF LoopReturns, Reads, Turns, ClosesPump, Joins, LastTick, durable, ghosts, Types, DurableTypes
  <2>2. driver' \in Drivers
    <3>1. CASE Turns
      <4>1. driver' \in {"running", "over", "reading"}
        BY <3>1, Zenon DEF Turns
      <4> QED
        BY <4>1 DEF Drivers
    <3> QED
      BY <1>2, <3>1 DEF LoopReturns, Reads, ClosesPump, Joins, LastTick, Drives, Drivers
  <2>3. MemoryTypes' /\ InHands'
    BY <1>2, <2>2 DEF LoopReturns, Reads, Turns, ClosesPump, Joins, LastTick, durable, pumpvars, endvars, ghosts,
       Types, MemoryTypes, InHands, DurableTypes, Pumps, Stages
  <2> QED
    BY <2>1, <2>3 DEF Types
<1> QED
  BY <1>1, <1>2 DEF Driver

LEMMA GoesTypes ==
    ASSUME Types, NEW from, NEW to \in {"idle", "tick", "list", "next"}, Goes(from, to),
           from \in {"idle", "tick", "list", "next"}
    PROVE  Types'
BY DEF Goes, At, Types, DurableTypes, MemoryTypes, InHands, Pumps, Stages, durable, drvars, endvars, ghosts

LEMMA PendingIsSeq ==
    ASSUME DurableTypes
    PROVE  Pending \in Seq(Ids) /\ Len(Pending) = Cardinality(OpenFiles)
<1>1. Cardinality(OpenFiles) \in Nat /\ Pending \in [1..Cardinality(OpenFiles) -> Ids]
  BY PendingLists DEF DurableTypes
<1> HIDE DEF OpenFiles
<1> QED
  BY <1>1

LEMMA LooksTypes == ASSUME Types, LooksAtSignal PROVE Types'
<1>1. CASE Goes("tick", "list")
  BY <1>1, GoesTypes
<1>2. CASE ~Goes("tick", "list")
  <2>1. DurableTypes'
    BY <1>2 DEF LooksAtSignal, Types, DurableTypes, durable, ghosts
  <2>2. settled' \in Codes \cup {"none"}
    BY <1>2 DEF LooksAtSignal, Types, MemoryTypes, Codes
  <2>3. cur' \in Ids \cup {Sigterm, NoId} /\ InHands'
    BY <1>2, NoIdIsNone DEF LooksAtSignal, At, Types, MemoryTypes, InHands, Stages
  <2>4. MemoryTypes'
    BY <1>2, <2>2, <2>3 DEF LooksAtSignal, Types, MemoryTypes, Pumps, Stages, drvars, endvars, ghosts
  <2> QED
    BY <2>1, <2>3, <2>4 DEF Types
<1> QED
  BY <1>1, <1>2

LEMMA ListsTypes == ASSUME Types, Lists PROVE Types'
<1>1. todo' \in Seq(Ids)
  BY PendingIsSeq DEF Lists, Types
<1>2. DurableTypes'
  BY DEF Lists, Types, DurableTypes, durable, ghosts
<1> QED
  BY <1>1, <1>2 DEF Lists, At, Types, MemoryTypes, InHands, Pumps, Stages, drvars, endvars, ghosts

\* The next command of the listing.
LEMMA TakesHead ==
    ASSUME Types, Takes
    PROVE  /\ Head(todo) \in Ids /\ cur' = Head(todo) /\ todo' = Tail(todo)
           /\ handled' = handled \cup {Head(todo)}
           /\ pump = "next" /\ pump' \in {"finish", "stop", "resume"}
           /\ todo # <<>>
BY HeadTailProperties, Zenon DEF Takes, At, Types, MemoryTypes

LEMMA TakesTypes == ASSUME Types, Takes PROVE Types'
<1>1. Head(todo) \in Ids /\ todo' \in Seq(Ids)
  <2>1. todo \in Seq(Ids) /\ todo # <<>> /\ todo' = Tail(todo)
    BY TakesHead DEF Types, MemoryTypes
  <2> QED
    BY <2>1, TakesHead, HeadTailProperties
<1>2. answer' \in Codes \cup {"none"} /\ took' \in [Ids -> Nat]
  BY <1>1 DEF Takes, Types, MemoryTypes, Codes
<1>3. DurableTypes'
  BY DEF Takes, Types, DurableTypes, durable
<1>4. InHands' /\ pump' \in Pumps
  BY <1>1, TakesHead DEF InHands, Stages, Pumps
<1>5. MemoryTypes'
  BY <1>1, <1>2, <1>4, TakesHead DEF Takes, Types, MemoryTypes, drvars, endvars
<1> QED
  BY <1>3, <1>4, <1>5 DEF Types

LEMMA RegistersStopTypes == ASSUME Types, RegistersStop PROVE Types'
<1>1. cur \in Ids \cup {Sigterm} /\ cur' = cur
  BY DEF RegistersStop, At, Types, InHands
<1>2. stops' \in Seq(Ids \cup {Sigterm})
  <2>1. stops' = stops \/ stops' = Append(stops, cur)
    BY DEF RegistersStop
  <2>2. stops \in Seq(Ids \cup {Sigterm})
    BY DEF Types, MemoryTypes
  <2> QED
    BY <1>1, <2>1, <2>2, AppendProperties
<1>3. answer' \in Codes \cup {"none"} /\ pump' \in {"finish", "stopping"}
  BY DEF RegistersStop, Answers, Types, MemoryTypes, Codes
<1>4. DurableTypes'
  BY DEF RegistersStop, Types, DurableTypes, durable, ghosts
<1>5. MemoryTypes' /\ InHands'
  BY <1>1, <1>2, <1>3 DEF RegistersStop, Types, MemoryTypes, InHands, Pumps, Stages, drvars, endvars, ghosts
<1> QED
  BY <1>4, <1>5 DEF Types

LEMMA StopsNowTypes == ASSUME Types, StopsNow PROVE Types'
<1>1. cur \in Ids \cup {Sigterm} /\ cur' = cur /\ pump' = "finish"
  BY DEF StopsNow, Answers, At, Types, InHands
<1>2. stops' \in Seq(Ids \cup {Sigterm})
  <2>1. stops' = stops \/ stops' = <<>>
    BY DEF StopsNow
  <2> QED
    BY <2>1, EmptySeq DEF Types, MemoryTypes
<1>3. answer' \in Codes \cup {"none"}
  BY DEF StopsNow, Answers, Codes
<1>4. DurableTypes'
  <2>1. state' \in States /\ fresh' \subseteq Ids
    BY DEF StopsNow, Types, DurableTypes, States, HOLD
  <2>2. used' \in [Ids -> {"none", "human_resumed", "operator_stop"}]
    BY DEF StopsNow, Types, DurableTypes
  <2> QED
    BY <2>1, <2>2 DEF StopsNow, Types, DurableTypes, ghosts
<1>5. MemoryTypes' /\ InHands'
  BY <1>1, <1>2, <1>3 DEF StopsNow, Types, MemoryTypes, InHands, Pumps, Stages, drvars, endvars, ghosts
<1> QED
  BY <1>4, <1>5 DEF Types

LEMMA RefusalCodes ==
    ASSUME DurableTypes, NEW c \in Ids
    PROVE  ResumeRefusal(c) \in Codes \cup {"none"}
<1>1. used[c] \in {"none", "human_resumed", "operator_stop"}
  BY DEF DurableTypes
<1>2. ResumeRefusal(c) \in {"repeated", "command_used", "not_waiting", "stale_sequence", "none"}
  BY <1>1, Zenon DEF ResumeRefusal
<1> QED
  BY <1>2 DEF Codes

LEMMA PreparesTypes == ASSUME Types, PreparesResume PROVE Types'
<1>1. cur \in Ids /\ cur' = cur /\ pump' \in {"finish", "commit"}
  BY DEF PreparesResume, Answers, At, Types, InHands
<1>2. answer' \in Codes \cup {"none"}
  BY <1>1, RefusalCodes DEF PreparesResume, Answers, Types, MemoryTypes
<1>3. DurableTypes'
  <2>1. used' \in [Ids -> {"none", "human_resumed", "operator_stop"}]
    BY DEF PreparesResume, Types, DurableTypes
  <2>2. fresh' \subseteq Ids /\ prepared' \in Ids \cup {NoId}
    BY <1>1 DEF PreparesResume, Types, DurableTypes
  <2> QED
    BY <2>1, <2>2 DEF PreparesResume, Types, DurableTypes, ghosts
<1>4. MemoryTypes' /\ InHands'
  BY <1>1, <1>2 DEF PreparesResume, Types, MemoryTypes, InHands, Pumps, Stages, drvars, endvars, ghosts
<1> QED
  BY <1>3, <1>4 DEF Types

LEMMA CommitsTypes == ASSUME Types, CommitsResume PROVE Types'
<1>1. cur \in Ids /\ cur' = cur /\ pump' = "finish"
  BY DEF CommitsResume, Answers, At, Types, InHands
<1>2. answer' \in Codes \cup {"none"} /\ stops' \in Seq(Ids \cup {Sigterm})
  BY EmptySeq DEF CommitsResume, Answers, Codes
<1>3. DurableTypes'
  <2>1. made' \in [Ids -> Nat]
    BY <1>1 DEF CommitsResume, Types, DurableTypes
  <2> QED
    BY <2>1 DEF CommitsResume, Types, DurableTypes, States
<1>4. MemoryTypes' /\ InHands'
  BY <1>1, <1>2 DEF CommitsResume, Types, MemoryTypes, InHands, Pumps, Stages, drvars, endvars
<1> QED
  BY <1>3, <1>4 DEF Types

LEMMA WritesTypes == ASSUME Types, WritesResult PROVE Types'
<1>1. cur \in Ids \cup {Sigterm} /\ cur' = NoId /\ pump' \in {"list", "next"}
  BY DEF WritesResult, At, Types, InHands
<1>2. settled' \in Codes \cup {"none"} /\ answer' = "none"
  BY DEF WritesResult, Types, MemoryTypes
<1>3. /\ results' \in [Ids -> Codes \cup {"none"}] /\ fails' \in Nat
      /\ unwritten' \in [Ids -> Result]
  <2>1. results' = results \/ results' = [results EXCEPT ![cur] = IF @ = "none" THEN answer ELSE @]
    BY DEF WritesResult
  <2>2. results' \in [Ids -> Codes \cup {"none"}]
    BY <2>1 DEF Types, DurableTypes, MemoryTypes
  <2>3. fails' \in Nat
    BY DEF WritesResult, Types, DurableTypes
  <2>4. [code |-> answer, tries |-> 1] \in Result
    BY ResultType DEF Types, MemoryTypes
  <2>5. unwritten' \in [Ids -> Result]
    BY <2>4 DEF WritesResult, Types, MemoryTypes
  <2> QED
    BY <2>2, <2>3, <2>5
<1>4. DurableTypes'
  BY <1>3 DEF WritesResult, Types, DurableTypes
<1>5. MemoryTypes' /\ InHands'
  BY <1>1, <1>2, <1>3, NoIdIsNone DEF WritesResult, Types, MemoryTypes, InHands, Pumps, Stages, drvars, endvars
<1> QED
  BY <1>4, <1>5 DEF Types

\* One more try is one more failure, a success, or the end of it.
LEMMA RetriesTo ==
    ASSUME Types, NEW c \in Ids, Retries(c)
    PROVE  /\ unwritten[c].code \in Codes \cup {"none"} /\ unwritten[c].tries \in Nat
           /\ \/ unwritten' = [unwritten EXCEPT ![c] = Written]
              \/ unwritten' = [unwritten EXCEPT ![c] = [code |-> unwritten[c].code,
                                                        tries |-> unwritten[c].tries + 1]]
<1>1. unwritten[c] \in Result
  BY DEF Types, MemoryTypes
<1>2. unwritten[c].code \in Codes \cup {"none"} /\ unwritten[c].tries \in Nat
  BY <1>1 DEF Result
<1>3. [unwritten[c] EXCEPT !.tries = unwritten[c].tries + 1]
        = [code |-> unwritten[c].code, tries |-> unwritten[c].tries + 1]
  BY <1>1 DEF Result
<1>4. \/ unwritten' = [unwritten EXCEPT ![c] = Written]
      \/ unwritten' = [unwritten EXCEPT ![c].tries = unwritten[c].tries + 1]
  BY DEF Retries
<1>5. [unwritten EXCEPT ![c].tries = unwritten[c].tries + 1]
        = [unwritten EXCEPT ![c] = [unwritten[c] EXCEPT !.tries = unwritten[c].tries + 1]]
  BY DEF Types, MemoryTypes
<1> QED
  BY <1>2, <1>3, <1>4, <1>5

LEMMA RetriesTypes == ASSUME Types, NEW c \in Ids, Retries(c) PROVE Types'
<1>1. /\ unwritten[c].code \in Codes \cup {"none"}
      /\ [code |-> unwritten[c].code, tries |-> unwritten[c].tries + 1] \in Result
  BY RetriesTo, ResultType
<1>2. unwritten' \in [Ids -> Result]
  BY <1>1, RetriesTo, WrittenIsResult DEF Types, MemoryTypes
<1>3. results' \in [Ids -> Codes \cup {"none"}]
  <2>1. results' = results \/ results' = [results EXCEPT ![c] = IF @ = "none" THEN unwritten[c].code ELSE @]
    BY DEF Retries
  <2> QED
    BY <1>1, <2>1 DEF Types, DurableTypes
<1>4. fails' \in Nat /\ fresh' \subseteq Ids
  BY DEF Retries, Types, DurableTypes
<1>5. DurableTypes'
  BY <1>3, <1>4 DEF Retries, Types, DurableTypes
<1>6. MemoryTypes' /\ InHands'
  BY <1>2 DEF Retries, Types, MemoryTypes, InHands, drvars, endvars
<1> QED
  BY <1>5, <1>6 DEF Types

LEMMA PumpTypes == ASSUME Types, Pump PROVE Types'
<1>1. CASE Polls \/ EndsTick
  BY <1>1, GoesTypes DEF Polls, EndsTick
<1> QED
  BY <1>1, LooksTypes, ListsTypes, TakesTypes, RegistersStopTypes, StopsNowTypes, PreparesTypes,
     CommitsTypes, WritesTypes, RetriesTypes DEF Pump

LEMMA AlwaysTypes == Spec => []Types
<1>1. ASSUME Types, UNCHANGED vars PROVE Types'
  BY <1>1 DEF vars, durable, drvars, pumpvars, endvars, ghosts, Types, DurableTypes, MemoryTypes, InHands
<1>2. Types /\ [Next]_vars => Types'
  BY <1>1, OutsideTypes, RunTypes, DriverTypes, PumpTypes DEF Next
<1> QED
  BY InitTypes, <1>2, PTL DEF Spec
-----------------------------------------------------------------------------
(* What was listed is taken once, in the order sent.                       *)

Dealt(c) == c \in handled \/ results[c] # "none"

OneFile == \A i, j \in 1..Len(inbox) : inbox[i].id = inbox[j].id => i = j

\* A command in hand, and one whose result is still to be written, is taken.
Held ==
    cur \in Ids =>
        /\ cur \in handled /\ cur \in Sent /\ results[cur] = "none" /\ unwritten[cur] = Written
        /\ \A s \in Ids : Before(s, cur) => Dealt(s)
Kept == \A c \in Ids : unwritten[c] = Written \/ c \in handled

TakenOnce == \A c \in Ids : took[c] \in {0, 1} /\ (took[c] = 1 => c \in handled)

\* What is listed is to be dealt with, once, after all that was sent before.
ListedAs(q) ==
    \A k \in 1..Len(q) :
        /\ q[k] \in Sent /\ ~Dealt(q[k])
        /\ \A l \in 1..Len(q) : q[k] = q[l] => k = l
        /\ \A s \in Ids : Before(s, q[k]) => Dealt(s) \/ \E l \in 1..(k - 1) : q[l] = s

DownIdle == driver = "down" => pump = "idle"

Queue == OneFile /\ Held /\ Kept /\ TakenOnce /\ ListedAs(todo) /\ DownIdle

LEMMA InitQueue == Init => Queue
<1> SUFFICES ASSUME Init PROVE Queue
  OBVIOUS
<1>1. Len(inbox) = 0 /\ Len(todo) = 0
  BY EmptySeq DEF Init
<1>2. OneFile /\ ListedAs(todo)
  BY <1>1 DEF OneFile, ListedAs
<1> QED
  BY <1>2, NoIdIsNone DEF Init, Queue, Held, Kept, TakenOnce, DownIdle

\* The inbox only grows, at its end.
LEMMA FileAdded ==
    ASSUME DurableTypes, OneFile, NEW c \in Ids, c \notin Sent,
           NEW k \in {"stop", "resume"}, inbox' = Append(inbox, [id |-> c, kind |-> k])
    PROVE  /\ OneFile' /\ Sent' = Sent \cup {c}
           /\ \A s, d \in Ids : Before(s, d)' <=> Before(s, d) \/ (d = c /\ s \in Sent)
<1> DEFINE m == [id |-> c, kind |-> k]
           n == Len(inbox)
<1>1. inbox \in Seq([id : Ids, kind : {"stop", "resume"}]) /\ m \in [id : Ids, kind : {"stop", "resume"}]
  BY DEF DurableTypes
<1>2. n \in Nat /\ Len(inbox') = n + 1
  BY <1>1
<1>3. \A i \in 1..(n + 1) : inbox'[i] = IF i = n + 1 THEN m ELSE inbox[i]
  BY <1>1
<1>4. m.id = c
  OBVIOUS
<1> HIDE DEF m, n
<1>5. /\ \A i \in 1..n : inbox'[i].id = inbox[i].id /\ inbox[i].id \in Sent
      /\ inbox'[n + 1].id = c
  BY <1>2, <1>3, <1>4 DEF Sent, n
<1>6. Sent' = Sent \cup {c}
  <2>1. Sent' = {inbox'[i].id : i \in 1..(n + 1)} /\ Sent = {inbox[i].id : i \in 1..n}
    BY <1>2 DEF Sent, n
  <2>2. 1..(n + 1) = (1..n) \cup {n + 1}
    BY <1>2
  <2> QED
    BY <1>5, <2>1, <2>2
<1>7. OneFile'
  <2> SUFFICES ASSUME NEW i \in 1..(n + 1), NEW j \in 1..(n + 1), inbox'[i].id = inbox'[j].id
               PROVE  i = j
    BY <1>2 DEF OneFile
  <2>1. CASE i \in 1..n /\ j \in 1..n
    BY <1>5, <2>1 DEF OneFile, n
  <2>2. CASE i = n + 1 \/ j = n + 1
    <3>1. i \in 1..n \/ i = n + 1
      BY <1>2
    <3>2. j \in 1..n \/ j = n + 1
      BY <1>2
    <3> QED
      BY <1>5, <2>2, <3>1, <3>2
  <2> QED
    BY <1>2, <2>1, <2>2
<1>8. ASSUME NEW s \in Ids, NEW d \in Ids
      PROVE  Before(s, d)' <=> Before(s, d) \/ (d = c /\ s \in Sent)
  <2>1. Before(s, d)' <=> \E i, j \in 1..(n + 1) : i < j /\ inbox'[i].id = s /\ inbox'[j].id = d
    BY <1>2 DEF Before
  <2>2. Before(s, d) <=> \E i, j \in 1..n : i < j /\ inbox[i].id = s /\ inbox[j].id = d
    BY DEF Before, n
  <2>3. Before(s, d) => Before(s, d)'
    BY <1>2, <1>5, <2>1, <2>2
  <2>4. ASSUME d = c, s \in Sent PROVE Before(s, d)'
    <3>1. PICK i \in 1..n : inbox[i].id = s
      BY <2>4 DEF Sent, n
    <3>2. i < n + 1 /\ i \in 1..(n + 1) /\ n + 1 \in 1..(n + 1)
      BY <1>2
    <3> QED
      BY <1>5, <2>1, <2>4, <3>1, <3>2
  <2>5. ASSUME Before(s, d)' PROVE Before(s, d) \/ (d = c /\ s \in Sent)
    <3>1. PICK i \in 1..(n + 1), j \in 1..(n + 1) :
              i < j /\ inbox'[i].id = s /\ inbox'[j].id = d
      BY <2>1, <2>5
    <3>2. i \in 1..n /\ (j \in 1..n \/ j = n + 1)
      BY <1>2, <3>1
    <3> QED
      BY <1>5, <2>2, <3>1, <3>2
  <2> QED
    BY <2>3, <2>4, <2>5
<1> QED
  BY <1>6, <1>7, <1>8

\* Before orders the commands.
LEMMA BeforeOrders ==
    ASSUME DurableTypes, OneFile
    PROVE  /\ \A c \in Ids : ~Before(c, c)
           /\ \A c, d, e \in Ids : Before(c, d) /\ Before(d, e) => Before(c, e)
           /\ \A c, d \in Ids : Before(c, d) => c \in Sent /\ d \in Sent /\ ~Before(d, c)
<1>1. Len(inbox) \in Nat
  BY DEF DurableTypes
<1>2. ASSUME NEW c \in Ids, Before(c, c) PROVE FALSE
  BY <1>1, <1>2 DEF Before, OneFile
<1>3. ASSUME NEW c \in Ids, NEW d \in Ids, NEW e \in Ids, Before(c, d), Before(d, e)
      PROVE  Before(c, e)
  <2>1. PICK i \in 1..Len(inbox), j \in 1..Len(inbox) : i < j /\ inbox[i].id = c /\ inbox[j].id = d
    BY <1>3 DEF Before
  <2>2. PICK k \in 1..Len(inbox), l \in 1..Len(inbox) : k < l /\ inbox[k].id = d /\ inbox[l].id = e
    BY <1>3 DEF Before
  <2>3. k = j
    BY <2>1, <2>2 DEF OneFile
  <2>4. i < l
    BY <1>1, <2>1, <2>2, <2>3
  <2> QED
    BY <2>1, <2>2, <2>4 DEF Before
<1>4. ASSUME NEW c \in Ids, NEW d \in Ids, Before(c, d) PROVE c \in Sent /\ d \in Sent
  BY <1>4 DEF Before, Sent
<1> QED
  BY <1>2, <1>3, <1>4

\* The listing.
LEMMA PendingListed == ASSUME Types, OneFile PROVE ListedAs(Pending)
<1> DEFINE n == Cardinality(OpenFiles)
           N(k) == Nth(OpenFiles, k)
<1>1. inbox \in Seq([id : Ids, kind : {"stop", "resume"}])
  BY DEF Types, DurableTypes
<1>2. /\ n \in Nat /\ Len(Pending) = n
      /\ \A k \in 1..n : N(k) \in OpenFiles /\ Pending[k] = inbox[N(k)].id
      /\ \A k, l \in 1..n : k < l => N(k) < N(l)
      /\ \A i \in OpenFiles : \E k \in 1..n : N(k) = i
  BY <1>1, PendingLists, PendingIsSeq DEF Types
<1>3. \A i \in OpenFiles : i \in 1..Len(inbox) /\ inbox[i].id \in Sent /\ ~Dealt(inbox[i].id)
  BY DEF OpenFiles, Open, Sent, Dealt
<1>4. \A i \in 1..Len(inbox) : i \in OpenFiles \/ Dealt(inbox[i].id)
  BY DEF OpenFiles, Open, Dealt
<1>5. Len(inbox) \in Nat
  BY <1>1
<1> HIDE DEF n, N
<1>6. ASSUME NEW k \in 1..n
      PROVE  Pending[k] \in Sent /\ ~Dealt(Pending[k])
  BY <1>2, <1>3
<1>7. ASSUME NEW k \in 1..n, NEW l \in 1..n, Pending[k] = Pending[l]
      PROVE  k = l
  <2>1. N(k) = N(l)
    BY <1>2, <1>3, <1>7 DEF OneFile
  <2>2. N(k) \in Nat
    BY <1>2, <1>3, <1>5
  <2>3. ~(k < l) /\ ~(l < k)
    BY <1>2, <2>1, <2>2
  <2> QED
    BY <1>2, <2>3
<1>8. ASSUME NEW k \in 1..n, NEW s \in Ids, Before(s, Pending[k]), ~Dealt(s)
      PROVE  \E l \in 1..(k - 1) : Pending[l] = s
  <2>1. PICK i \in 1..Len(inbox), j \in 1..Len(inbox) :
            i < j /\ inbox[i].id = s /\ inbox[j].id = Pending[k]
    BY <1>8 DEF Before
  <2>2. j = N(k)
    <3>1. N(k) \in 1..Len(inbox) /\ inbox[N(k)].id = inbox[j].id
      BY <1>2, <1>3, <2>1
    <3> QED
      BY <2>1, <3>1 DEF OneFile
  <2>3. i \in OpenFiles
    BY <1>4, <1>8, <2>1
  <2>4. PICK l \in 1..n : N(l) = i
    BY <1>2, <2>3
  <2>5. ~(k < l) /\ k # l
    <3> SUFFICES ASSUME k < l \/ k = l PROVE FALSE
      OBVIOUS
    <3>1. N(k) < N(l) \/ N(k) = N(l)
      BY <1>2
    <3> QED
      BY <1>5, <2>1, <2>2, <2>4, <3>1
  <2>6. l \in 1..(k - 1)
    BY <1>2, <2>5
  <2> QED
    BY <1>2, <2>1, <2>4, <2>6
<1> QED
  BY <1>2, <1>6, <1>7, <1>8 DEF ListedAs

\* Nothing is listed or taken; results come only of what was taken.
LEMMA QueueKeeps ==
    ASSUME Types, Queue, UNCHANGED <<inbox, todo, handled, took>>,
           \A c \in Ids : (results'[c] = results[c] /\ unwritten'[c] = unwritten[c]) \/ c \in handled,
           \A c \in Ids : results[c] # "none" => results'[c] # "none",
           cur' \in Ids => cur' = cur /\ results' = results /\ unwritten' = unwritten,
           driver' = "down" => pump' = "idle"
    PROVE  Queue'
<1>1. Sent' = Sent /\ (\A s, d : Before(s, d)' <=> Before(s, d)) /\ OneFile'
  BY DEF Sent, Before, Queue, OneFile
<1>2. \A c \in Ids : Dealt(c)' <=> Dealt(c)
  BY DEF Dealt
<1>3. Held'
  BY <1>1, <1>2 DEF Queue, Held
<1>4. Kept' /\ TakenOnce' /\ DownIdle'
  BY DEF Queue, Kept, TakenOnce, DownIdle
<1>5. \A k \in 1..Len(todo) : todo[k] \in Ids
  BY ElementOfSeq DEF Types, MemoryTypes
<1>6. ListedAs(todo)'
  BY <1>1, <1>2, <1>5 DEF Queue, ListedAs
<1> QED
  BY <1>1, <1>3, <1>4, <1>6 DEF Queue

\* A runner's memory is gone.
LEMMA QueueForgotten == ASSUME Types, Queue, Forgotten, UNCHANGED durable PROVE Queue'
<1>1. OneFile'
  BY DEF durable, Queue, OneFile
<1>2. Len(todo') = 0
  BY EmptySeq DEF Forgotten
<1>3. ListedAs(todo)'
  BY <1>2 DEF ListedAs
<1> QED
  BY <1>1, <1>3, NoIdIsNone DEF Forgotten, Queue, Held, Kept, TakenOnce, DownIdle

LEMMA QueueSends == ASSUME Types, Queue, NEW c \in Ids, Sends(c) PROVE Queue'
<1>1. PICK k \in {"stop", "resume"} : inbox' = Append(inbox, [id |-> c, kind |-> k])
  BY DEF Sends
<1>2. c \notin Sent /\ UNCHANGED <<results, todo, handled, took, cur, unwritten, driver, pump>>
  BY DEF Sends, drvars, pumpvars, ghosts
<1>3. /\ OneFile' /\ Sent' = Sent \cup {c}
      /\ \A s, d \in Ids : Before(s, d)' <=> Before(s, d) \/ (d = c /\ s \in Sent)
  BY <1>1, <1>2, FileAdded DEF Types, Queue
<1>4. \A s \in Ids : Dealt(s)' <=> Dealt(s)
  BY <1>2 DEF Dealt
<1>5. Held'
  BY <1>2, <1>3, <1>4 DEF Queue, Held
<1>6. \A j \in 1..Len(todo) : todo[j] \in Ids
  BY ElementOfSeq DEF Types, MemoryTypes
<1>7. ListedAs(todo)'
  BY <1>2, <1>3, <1>4, <1>6 DEF Queue, ListedAs
<1> QED
  BY <1>2, <1>3, <1>5, <1>7 DEF Queue, Kept, TakenOnce, DownIdle

LEMMA QueueLists == ASSUME Types, Queue, Lists PROVE Queue'
<1>1. /\ UNCHANGED <<inbox, results, handled, took, cur, unwritten, driver>>
      /\ todo' = Pending /\ pump = "list"
  BY DEF Lists, At, durable, drvars, ghosts
<1>2. Sent' = Sent /\ (\A s, d : Before(s, d)' <=> Before(s, d)) /\ OneFile'
  BY <1>1 DEF Sent, Before, Queue, OneFile
<1>3. \A s : Dealt(s)' <=> Dealt(s)
  BY <1>1 DEF Dealt
<1>4. ListedAs(Pending) /\ Pending \in Seq(Ids)
  BY PendingListed, PendingIsSeq DEF Queue, Types
<1>5. ListedAs(todo)'
  BY <1>1, <1>2, <1>3, <1>4 DEF ListedAs
<1>6. Held' /\ Kept' /\ TakenOnce' /\ DownIdle'
  BY <1>1, <1>2, <1>3 DEF Queue, Held, Kept, TakenOnce, DownIdle
<1> QED
  BY <1>2, <1>5, <1>6 DEF Queue

\* The first of the listing is dealt with, and nothing before it is left.
LEMMA HeadIsNext ==
    ASSUME Types, Queue, todo # <<>>
    PROVE  /\ Head(todo) \in Ids /\ Head(todo) \in Sent /\ ~Dealt(Head(todo))
           /\ \A s \in Ids : Before(s, Head(todo)) => Dealt(s)
           /\ Len(todo) \in Nat \ {0} /\ Head(todo) = todo[1]
<1>1. todo \in Seq(Ids)
  BY DEF Types, MemoryTypes
<1>2. Len(todo) \in Nat \ {0} /\ Head(todo) = todo[1] /\ Head(todo) \in Ids
  BY <1>1, HeadTailProperties, EmptySeq
<1>3. 1 \in 1..Len(todo) /\ 1..(1 - 1) = {}
  BY <1>2
<1> QED
  BY <1>2, <1>3 DEF Queue, ListedAs

LEMMA QueueTakes == ASSUME Types, Queue, Takes PROVE Queue'
<1> DEFINE c == Head(todo)
           n == Len(todo)
<1>1. /\ c \in Ids /\ cur' = c /\ todo' = Tail(todo) /\ todo # <<>> /\ pump = "next"
      /\ handled' = handled \cup {c}
      /\ UNCHANGED <<inbox, results, unwritten, driver>>
  BY TakesHead DEF Takes, durable, drvars
<1>2. /\ c \in Sent /\ ~Dealt(c) /\ n \in Nat \ {0} /\ c = todo[1]
      /\ \A s \in Ids : Before(s, c) => Dealt(s)
  BY <1>1, HeadIsNext
<1>3. took' = took \/ took' = [took EXCEPT ![c] = @ + 1]
  BY DEF Takes
<1> HIDE DEF c
<1>4. Sent' = Sent /\ (\A s, d : Before(s, d)' <=> Before(s, d)) /\ OneFile'
  BY <1>1 DEF Sent, Before, Queue, OneFile
<1>5. \A s : Dealt(s)' <=> Dealt(s) \/ s = c
  BY <1>1 DEF Dealt
<1>6. Held'
  <2>1. unwritten[c] = Written /\ results[c] = "none"
    BY <1>1, <1>2 DEF Queue, Kept, Dealt
  <2> QED
    BY <1>1, <1>2, <1>4, <1>5, <2>1 DEF Held
<1>7. TakenOnce' /\ Kept' /\ DownIdle'
  <2>1. took[c] = 0
    BY <1>1, <1>2 DEF Queue, TakenOnce, Dealt
  <2>2. \A d \in Ids : took'[d] = took[d] \/ (d = c /\ took'[d] = 1)
    BY <1>1, <1>3, <2>1 DEF Types, MemoryTypes
  <2>3. TakenOnce'
    BY <1>1, <2>2 DEF Queue, TakenOnce
  <2>4. Kept'
    BY <1>1 DEF Queue, Kept
  <2>5. DownIdle'
    BY <1>1 DEF Queue, DownIdle
  <2> QED
    BY <2>3, <2>4, <2>5
<1>8. ListedAs(todo)'
  <2>1. todo \in Seq(Ids)
    BY DEF Types, MemoryTypes
  <2>0. PICK q : q = Tail(todo)
    OBVIOUS
  <2>2. Len(q) = n - 1 /\ \A k \in 1..(n - 1) : q[k] = todo[k + 1]
    BY <1>1, <2>0, <2>1, HeadTailProperties
  <2> HIDE DEF n
  <2>3. \A k \in 1..(n - 1) : k + 1 \in 1..n /\ 1 \in 1..n
    BY <1>2
  <2>4. \A k \in 1..n : todo[k] \in Sent /\ ~Dealt(todo[k])
    BY DEF Queue, ListedAs, n
  <2>5. \A k, l \in 1..n : todo[k] = todo[l] => k = l
    BY DEF Queue, ListedAs, n
  <2>6. \A k \in 1..n, s \in Ids : Before(s, todo[k]) => Dealt(s) \/ \E l \in 1..(k - 1) : todo[l] = s
    BY DEF Queue, ListedAs, n
  <2>11. ListedAs(q)' => ListedAs(todo)'
    BY <1>1, <2>0
  <2> SUFFICES ASSUME NEW k \in 1..(n - 1)
               PROVE  /\ q[k] \in Sent' /\ ~Dealt(q[k])'
                      /\ \A l \in 1..(n - 1) : q[k] = q[l] => k = l
                      /\ \A s \in Ids : Before(s, q[k])' =>
                            Dealt(s)' \/ \E l \in 1..(k - 1) : q[l] = s
    BY <2>2, <2>11 DEF ListedAs
  <2>7. q[k] = todo[k + 1] /\ k + 1 \in 1..n /\ todo[k + 1] # c
    <3>1. k + 1 # 1
      BY <1>2
    <3> QED
      BY <1>2, <2>2, <2>3, <2>5, <3>1
  <2>8. q[k] \in Sent' /\ ~Dealt(q[k])'
    BY <1>4, <1>5, <2>4, <2>7
  <2>9. ASSUME NEW l \in 1..(n - 1), q[k] = q[l] PROVE k = l
    <3>1. k + 1 = l + 1
      BY <2>2, <2>3, <2>5, <2>9
    <3> QED
      BY <1>2, <3>1
  <2>10. ASSUME NEW s \in Ids, Before(s, q[k])', ~Dealt(s)'
         PROVE  \E l \in 1..(k - 1) : q[l] = s
    <3>1. ~Dealt(s) /\ s # c /\ Before(s, todo[k + 1])
      BY <1>4, <1>5, <2>7, <2>10
    <3>2. PICK l \in 1..k : todo[l] = s
      BY <1>2, <2>6, <2>7, <3>1
    <3>3. l # 1
      BY <1>2, <3>1, <3>2
    <3>4. l - 1 \in 1..(k - 1) /\ l - 1 \in 1..(n - 1) /\ (l - 1) + 1 = l
      BY <1>2, <3>2, <3>3
    <3>5. q[l - 1] = s
      BY <2>2, <3>2, <3>4
    <3> QED
      BY <3>4, <3>5
  <2> QED
    BY <2>8, <2>9, <2>10
<1> QED
  BY <1>4, <1>6, <1>7, <1>8 DEF Queue

LEMMA QueueWrites == ASSUME Types, Queue, WritesResult PROVE Queue'
<1>1. /\ UNCHANGED <<inbox, todo, handled, took, driver>> /\ pump = "finish"
      /\ cur \in Ids \cup {Sigterm} /\ cur' = NoId
  BY DEF WritesResult, At, drvars, Types, InHands
<1>2. \A c \in Ids : c = cur \/ (results'[c] = results[c] /\ unwritten'[c] = unwritten[c])
  BY DEF WritesResult, Types, DurableTypes, MemoryTypes
<1>3. \A c \in Ids : results[c] # "none" => results'[c] # "none"
  BY DEF WritesResult, Types, DurableTypes
<1>4. cur \in Ids => cur \in handled
  BY DEF Queue, Held
<1>5. driver' # "down"
  BY <1>1 DEF Queue, DownIdle
<1> QED
  BY <1>1, <1>2, <1>3, <1>4, <1>5, NoIdIsNone, QueueKeeps

LEMMA QueueRetries == ASSUME Types, Queue, NEW c \in Ids, Retries(c) PROVE Queue'
<1>1. UNCHANGED <<inbox, todo, handled, took, driver, cur, pump>> /\ pump = "next" /\ cur \notin Ids
  BY DEF Retries, At, drvars, Types, InHands, Stages
<1>2. \A d \in Ids : d = c \/ (results'[d] = results[d] /\ unwritten'[d] = unwritten[d])
  <2>1. results' = results \/ results' = [results EXCEPT ![c] = IF @ = "none" THEN unwritten[c].code ELSE @]
    BY DEF Retries
  <2>2. \A d \in Ids : d = c \/ results'[d] = results[d]
    BY <2>1 DEF Types, DurableTypes
  <2>3. \A d \in Ids : d = c \/ unwritten'[d] = unwritten[d]
    BY RetriesTo DEF Types, MemoryTypes
  <2> QED
    BY <2>2, <2>3
<1>3. \A d \in Ids : results[d] # "none" => results'[d] # "none"
  BY DEF Retries, Types, DurableTypes
<1>4. c \in handled
  BY DEF Retries, Due, Written, Queue, Kept
<1> QED
  BY <1>1, <1>2, <1>3, <1>4, QueueKeeps DEF Queue, DownIdle

LEMMA QueueOthers ==
    ASSUME Types, Queue,
           \/ UNCHANGED vars \/ Signal \/ GoesOn \/ Attach \/ Run
           \/ LoopReturns \/ Reads \/ Turns \/ ClosesPump \/ Joins \/ LastTick
           \/ Polls \/ LooksAtSignal \/ RegistersStop \/ StopsNow \/ PreparesResume \/ CommitsResume
           \/ EndsTick
    PROVE  Queue'
<1>1. UNCHANGED <<inbox, todo, handled, took, results, unwritten>>
  BY DEF vars, Signal, GoesOn, Attach, Run, ReachesPerson, Ends, LoopReturns, Reads, Turns, ClosesPump, Joins,
     LastTick, Polls, LooksAtSignal, RegistersStop, StopsNow, PreparesResume, CommitsResume, EndsTick,
     Goes, durable, pumpvars, ghosts
<1>2. cur' \in Ids => cur' = cur
  BY NoIdIsNone DEF vars, Signal, GoesOn, Attach, Run, ReachesPerson, Ends, LoopReturns, Reads, Turns, ClosesPump,
     Joins, LastTick, Polls, LooksAtSignal, RegistersStop, StopsNow, PreparesResume, CommitsResume, EndsTick,
     Goes, pumpvars
<1>3. driver' = "down" => driver = "down"
  <2>1. CASE Turns
    <3>1. driver' \in {"running", "over", "reading"}
      BY <2>1, Zenon DEF Turns
    <3> QED
      BY <3>1
  <2> QED
    BY <2>1 DEF vars, Signal, GoesOn, Attach, Run, ReachesPerson, Ends, LoopReturns, Reads, ClosesPump, Joins,
       LastTick, Polls, LooksAtSignal, RegistersStop, StopsNow, PreparesResume, CommitsResume, EndsTick,
       Goes, drvars, Drives
<1>4. driver' = "down" => pump' = "idle"
  <2> SUFFICES ASSUME driver' = "down" PROVE pump' = "idle"
    OBVIOUS
  <2>1. driver = "down" /\ pump = "idle"
    BY <1>3 DEF Queue, DownIdle
  <2> QED
    BY <2>1 DEF vars, Signal, GoesOn, Attach, Run, ReachesPerson, Ends, LoopReturns, Reads, Turns, ClosesPump, Joins,
       LastTick, Polls, LooksAtSignal, RegistersStop, StopsNow, PreparesResume, CommitsResume, EndsTick,
       Goes, At, pumpvars, Drives
<1> QED
  BY <1>1, <1>2, <1>4, QueueKeeps

LEMMA QueueStep == ASSUME Types, Queue, [Next]_vars PROVE Queue'
<1>1. CASE Crash \/ Exits
  BY <1>1, QueueForgotten DEF Crash, Exits
<1>2. CASE \E c \in Ids : Sends(c) \/ Retries(c)
  BY <1>2, QueueSends, QueueRetries
<1> QED
  BY <1>1, <1>2, QueueLists, QueueTakes, QueueWrites, QueueOthers DEF Next, Driver, Pump

LEMMA AlwaysQueue == Spec => [](Types /\ Queue)
<1>1. Types /\ Queue /\ [Next]_vars => Queue'
  BY QueueStep
<1> QED
  BY <1>1, InitQueue, AlwaysTypes, PTL DEF Spec

\* One runner carries a command out at most once, whether its result can be
\* written or not, however often the inbox is listed (_pending, _take).
THEOREM OnceCarriedOut == Spec => []CarriedOutOnce
<1>1. Queue => CarriedOutOnce
  BY DEF Queue, TakenOnce, CarriedOutOnce
<1> QED
  BY <1>1, AlwaysQueue, PTL
-----------------------------------------------------------------------------
(* A stop sent before a resume does not stop what it took on.              *)

\* Who looked at the journal's last line was sent after all that resumed.
Marks ==
    /\ \A c \in Ids : made[c] > 0 => c \in Sent
    /\ fresh \subseteq Sent
    /\ \A c \in fresh, d \in Ids : made[d] > 0 => Before(d, c)

\* A resume under way comes after all others.
Last == pump = "commit" => state \in HUMAN_STATES /\ \A d \in Ids : made[d] > 0 => Before(d, cur)

\* Unless the run is locked nothing is left over from before a resume ...
LeftOver ==
    driver # "down" /\ state # "FAULT_LOCKED" =>
        \A c, s \in Ids : made[c] > 0 /\ Before(s, c) => Dealt(s)

\* ... and a stop in hand was sent after every resume.
After(s) == \A c \in Ids : made[c] > 0 => ~Before(s, c)
StopNew == pump \in {"stop", "stopping"} /\ cur \in Ids => state = "FAULT_LOCKED" \/ After(cur)

Order == Marks /\ Last /\ LeftOver /\ StopNew /\ OldStopsStayOld

LEMMA InitOrder == Init => Order
<1> SUFFICES ASSUME Init PROVE Order
  OBVIOUS
<1>1. \A c \in Ids : ~(made[c] > 0)
  BY DEF Init
<1>2. fresh = {} /\ pump = "idle"
  BY DEF Init
<1> QED
  BY <1>1, <1>2 DEF Order, Marks, Last, LeftOver, StopNew, OldStopsStayOld

LEMMA OrderKeeps ==
    ASSUME Types, Queue, Order, UNCHANGED <<inbox, made>>, fresh' \subseteq fresh,
           driver' = "down" \/ \A s \in Ids : Dealt(s) => Dealt(s)',
           \A s \in Ids : Registered(s)' => Registered(s) \/ After(s),
           driver' # "down" /\ state' # "FAULT_LOCKED" => driver # "down" /\ state # "FAULT_LOCKED",
           Last', StopNew'
    PROVE  Order'
<1>1. Sent' = Sent /\ (\A s, d : Before(s, d)' <=> Before(s, d))
  BY DEF Sent, Before
<1>2. Marks'
  BY <1>1 DEF Order, Marks
<1>3. LeftOver'
  <2> SUFFICES ASSUME driver' # "down", state' # "FAULT_LOCKED",
                      NEW c \in Ids, NEW s \in Ids, made'[c] > 0, Before(s, c)'
               PROVE  Dealt(s)'
    BY DEF LeftOver
  <2>1. Dealt(s)
    BY <1>1 DEF Order, LeftOver
  <2> QED
    BY <2>1
<1>4. OldStopsStayOld'
  <2> SUFFICES ASSUME NEW s \in Ids, NEW c \in Ids, Registered(s)', made'[c] > 0
               PROVE  ~Before(s, c)'
    BY DEF OldStopsStayOld
  <2> QED
    BY <1>1 DEF Order, OldStopsStayOld, After
<1> QED
  BY <1>2, <1>3, <1>4 DEF Order

LEMMA OrderSends == ASSUME Types, Queue, Order, NEW c \in Ids, Sends(c) PROVE Order'
<1>1. PICK k \in {"stop", "resume"} : inbox' = Append(inbox, [id |-> c, kind |-> k])
  BY DEF Sends
<1>2. /\ c \notin Sent
      /\ UNCHANGED <<results, handled, made, cur, stops, state, driver, pump>>
      /\ fresh' \subseteq fresh \cup {c}
  BY DEF Sends, drvars, pumpvars, ghosts
<1>3. /\ Sent' = Sent \cup {c}
      /\ \A s, d \in Ids : Before(s, d)' <=> Before(s, d) \/ (d = c /\ s \in Sent)
  BY <1>1, <1>2, FileAdded DEF Types, Queue
<1>4. \A d \in Ids : made'[d] > 0 => d \in Sent /\ d # c
  BY <1>2 DEF Order, Marks
<1>5. \A d \in fresh' : d \in Ids /\ (d \in fresh \/ d = c)
  BY <1>2 DEF Types, DurableTypes
<1>6. Marks'
  BY <1>2, <1>3, <1>4, <1>5 DEF Order, Marks
<1>7. Last'
  BY <1>2, <1>3 DEF Order, Last, Types, InHands
<1>8. \A s \in Ids : Dealt(s)' <=> Dealt(s)
  BY <1>2 DEF Dealt
<1>9. \A s, d \in Ids : made'[d] > 0 => (Before(s, d)' <=> Before(s, d))
  BY <1>3, <1>4
<1>10. LeftOver' /\ StopNew'
  BY <1>2, <1>8, <1>9 DEF Order, LeftOver, StopNew, After
<1>11. OldStopsStayOld'
  <2>1. \A s \in Ids : Registered(s)' <=> Registered(s)
    BY <1>2 DEF Registered
  <2> QED
    BY <1>2, <1>9, <2>1 DEF Order, OldStopsStayOld
<1> QED
  BY <1>6, <1>7, <1>10, <1>11 DEF Order

LEMMA OrderCommits == ASSUME Types, Queue, Order, CommitsResume PROVE Order'
<1>1. /\ UNCHANGED <<inbox, handled, results, cur, driver>>
      /\ cur \in Ids /\ state' = "going" /\ fresh' = {} /\ stops' = <<>>
      /\ made' = [made EXCEPT ![cur] = @ + 1] /\ pump' = "finish" /\ pump = "commit"
  BY DEF CommitsResume, Answers, At, drvars, Types, InHands
<1>2. Sent' = Sent /\ (\A s, d : Before(s, d)' <=> Before(s, d))
  BY <1>1 DEF Sent, Before
<1>3. \A s : Dealt(s)' <=> Dealt(s)
  BY <1>1 DEF Dealt
<1>4. \A c \in Ids : c = cur \/ made'[c] = made[c]
  BY <1>1 DEF Types, DurableTypes
<1>5. cur \in Sent /\ \A s \in Ids : Before(s, cur) => Dealt(s)
  BY <1>1 DEF Queue, Held
<1>6. Marks'
  BY <1>1, <1>2, <1>4, <1>5 DEF Order, Marks
<1>7. LeftOver'
  <2> SUFFICES ASSUME NEW c \in Ids, NEW s \in Ids, made'[c] > 0, Before(s, c)
               PROVE  Dealt(s)
    BY <1>2, <1>3 DEF LeftOver
  <2>1. c = cur \/ Before(c, cur)
    BY <1>1, <1>4 DEF Order, Last
  <2>2. Before(s, cur)
    BY <1>1, <2>1, BeforeOrders DEF Types, Queue
  <2> QED
    BY <1>5, <2>2
<1>8. \A s \in Ids : ~Registered(s)'
  <2>1. Len(stops') = 0
    BY <1>1, EmptySeq
  <2> QED
    BY <2>1 DEF Registered
<1> QED
  BY <1>1, <1>6, <1>7, <1>8 DEF Order, Last, StopNew, OldStopsStayOld

LEMMA OrderTakes == ASSUME Types, Queue, Order, Takes PROVE Order'
<1> DEFINE c == Head(todo)
<1>1. /\ c \in Ids /\ cur' = c /\ todo # <<>> /\ pump = "next"
      /\ handled' = handled \cup {c} /\ pump' \in {"finish", "stop", "resume"}
      /\ UNCHANGED <<inbox, results, made, fresh, stops, state, driver>>
  BY TakesHead DEF Takes, durable, drvars
<1>2. ~Dealt(c)
  BY <1>1, HeadIsNext
<1>3. driver # "down"
  BY <1>1 DEF Queue, DownIdle
<1>4. \A s \in Ids : Dealt(s) => Dealt(s)'
  BY <1>1 DEF Dealt
<1>5. \A s \in Ids : Registered(s)' <=> Registered(s)
  BY <1>1 DEF Registered
<1> HIDE DEF c
<1>6. StopNew'
  <2> SUFFICES ASSUME state' # "FAULT_LOCKED"
               PROVE  After(cur)'
    BY DEF StopNew
  <2>1. ASSUME NEW d \in Ids, made[d] > 0, Before(c, d) PROVE FALSE
    BY <1>1, <1>2, <1>3, <2>1 DEF Order, LeftOver
  <2> QED
    BY <1>1, <2>1 DEF After, Before
<1>7. Last'
  BY <1>1 DEF Last
<1> QED
  BY <1>1, <1>4, <1>5, <1>6, <1>7, OrderKeeps

LEMMA OrderRegisters == ASSUME Types, Queue, Order, RegistersStop PROVE Order'
<1>1. /\ UNCHANGED <<inbox, results, made, fresh, state, driver, handled, cur>>
      /\ pump = "stop" /\ pump' \in {"finish", "stopping"}
  BY DEF RegistersStop, Answers, At, durable, drvars, ghosts
<1>2. stops' = stops \/ (stops' = Append(stops, cur) /\ state # "FAULT_LOCKED")
  BY DEF RegistersStop
<1>3. \A s \in Ids : Registered(s)' => Registered(s) \/ (s = cur /\ state # "FAULT_LOCKED")
  <2> SUFFICES ASSUME NEW s \in Ids, Registered(s)', stops' # stops
               PROVE  Registered(s) \/ (s = cur /\ state # "FAULT_LOCKED")
    BY DEF Registered
  <2>1. stops \in Seq(Ids \cup {Sigterm}) /\ cur \in Ids \cup {Sigterm}
    BY <1>1 DEF Types, MemoryTypes, InHands
  <2>2. stops' = Append(stops, cur) /\ state # "FAULT_LOCKED"
    BY <1>2
  <2>3. Len(stops) \in Nat /\ Len(stops') = Len(stops) + 1
    BY <2>1, <2>2, AppendProperties
  <2>4. \A i \in 1..(Len(stops) + 1) : stops'[i] = IF i <= Len(stops) THEN stops[i] ELSE cur
    BY <2>1, <2>2, AppendProperties
  <2>5. PICK i \in 1..(Len(stops) + 1) : stops'[i] = s
    BY <2>3 DEF Registered
  <2>6. CASE i <= Len(stops)
    <3>1. i \in 1..Len(stops)
      BY <2>3, <2>5, <2>6
    <3> QED
      BY <2>4, <2>5, <2>6, <3>1 DEF Registered
  <2>7. CASE ~(i <= Len(stops))
    BY <2>2, <2>4, <2>5, <2>7
  <2> QED
    BY <2>6, <2>7
<1>4. \A s \in Ids : Registered(s)' => Registered(s) \/ After(s)
  BY <1>1, <1>3 DEF Order, StopNew
<1>5. StopNew'
  <2>1. After(cur)' <=> After(cur)
    BY <1>1 DEF After, Before
  <2> QED
    BY <1>1, <2>1 DEF Order, StopNew
<1>6. Last'
  BY <1>1 DEF Last
<1>7. \A s \in Ids : Dealt(s) => Dealt(s)'
  BY <1>1 DEF Dealt
<1> QED
  BY <1>1, <1>4, <1>5, <1>6, <1>7, OrderKeeps

LEMMA OrderPrepares == ASSUME Types, Queue, Order, PreparesResume PROVE Order'
<1>1. /\ UNCHANGED <<inbox, results, made, state, driver, handled, cur, stops>>
      /\ pump = "resume" /\ pump' \in {"finish", "commit"} /\ cur \in Ids
      /\ fresh' = fresh \/ fresh' = {}
  BY DEF PreparesResume, Answers, At, drvars, ghosts, Types, InHands
<1>2. pump' = "commit" => ResumeRefusal(cur) = "none"
  BY DEF PreparesResume, Answers
<1>3. ResumeRefusal(cur) = "none" => state \in HUMAN_STATES /\ cur \in fresh
  BY <1>1 DEF ResumeRefusal, Types, DurableTypes
<1>4. Last'
  <2> SUFFICES ASSUME pump' = "commit", NEW d \in Ids, made[d] > 0 PROVE Before(d, cur)' 
    BY <1>1, <1>2, <1>3 DEF Last
  <2> QED
    BY <1>1, <1>2, <1>3 DEF Order, Marks, Before
<1>5. StopNew'
  BY <1>1 DEF StopNew
<1>6. /\ \A s \in Ids : Dealt(s) => Dealt(s)'
      /\ \A s \in Ids : Registered(s)' <=> Registered(s)
  BY <1>1 DEF Dealt, Registered
<1> QED
  BY <1>1, <1>4, <1>5, <1>6, OrderKeeps

\* Nothing is resumed, taken or registered.
LEMMA OrderQuiet ==
    ASSUME Types, Queue, Order, UNCHANGED <<inbox, made>>, fresh' \subseteq fresh,
           stops' = stops \/ stops' = <<>>,
           driver' = "down" \/ \A s \in Ids : Dealt(s) => Dealt(s)',
           driver' # "down" => driver # "down" \/ state' = "FAULT_LOCKED",
           state' = state \/ state' = "FAULT_LOCKED" \/ (state \in {"going", "WAIT_HUMAN"} /\ pump' # "commit"),
           pump' \in {"commit", "stop", "stopping"} /\ cur' \in Ids =>
                pump' = pump /\ cur' = cur,
           Types'
    PROVE  Order'
<1>1. \A s, d : Before(s, d)' <=> Before(s, d)
  BY DEF Before
<1>2. \A s : After(s)' <=> After(s)
  BY DEF After, Before
<1>3. Last'
  BY <1>1 DEF Order, Last, Types, InHands, HUMAN_STATES
<1>4. StopNew'
  <2> SUFFICES ASSUME pump' \in {"stop", "stopping"}, cur' \in Ids, state' # "FAULT_LOCKED"
               PROVE  After(cur)'
    BY DEF StopNew
  <2>1. cur' = cur /\ pump' = pump /\ state # "FAULT_LOCKED"
    OBVIOUS
  <2>2. After(cur)
    BY <2>1 DEF Order, StopNew
  <2> QED
    BY <2>1, <2>2 DEF After, Before
<1>5. \A s \in Ids : Registered(s)' => Registered(s)
  <2>1. stops' = <<>> => Len(stops') = 0
    BY EmptySeq
  <2> QED
    BY <2>1 DEF Registered
<1>6. driver' # "down" /\ state' # "FAULT_LOCKED" => driver # "down" /\ state # "FAULT_LOCKED"
  OBVIOUS
<1> QED
  BY <1>3, <1>4, <1>5, <1>6, OrderKeeps

LEMMA OrderOutside ==
    ASSUME Types, Queue, Order, Types', UNCHANGED vars \/ Signal \/ GoesOn \/ Attach \/ Crash
    PROVE  Order'
<1>1. UNCHANGED <<inbox, made>> /\ fresh' \subseteq fresh /\ (stops' = stops \/ stops' = <<>>)
  BY DEF vars, Signal, GoesOn, Attach, Crash, Forgotten, durable, pumpvars, ghosts
<1>2. driver' = "down" \/ \A s \in Ids : Dealt(s) => Dealt(s)'
  BY DEF vars, Signal, GoesOn, Attach, Crash, durable, pumpvars, Dealt
<1>3. driver' # "down" => driver # "down" \/ state' = "FAULT_LOCKED"
  BY DEF vars, Signal, GoesOn, Attach, Crash, durable, drvars
<1>4. state' = state \/ state' = "FAULT_LOCKED"
  BY DEF vars, Signal, GoesOn, Attach, Crash, durable, drvars
<1>5. pump' \in {"commit", "stop", "stopping"} => pump' = pump /\ cur' = cur
  BY DEF vars, Signal, GoesOn, Attach, Crash, Forgotten, pumpvars
<1> QED
  BY <1>1, <1>2, <1>3, <1>4, <1>5, OrderQuiet

LEMMA OrderRuns == ASSUME Types, Queue, Order, Types', Run PROVE Order'
<1>1. UNCHANGED <<inbox, made, results, handled, driver, pump, cur>> /\ fresh' \subseteq fresh
      /\ (stops' = stops \/ stops' = <<>>) /\ state = "going"
  BY DEF Run, ReachesPerson, Ends, drvars, pumpvars, ghosts
<1>2. pump' # "commit"
  BY <1>1 DEF Order, Last, HUMAN_STATES
<1>3. \A s \in Ids : Dealt(s) => Dealt(s)'
  BY <1>1 DEF Dealt
<1> QED
  BY <1>1, <1>2, <1>3, OrderQuiet

LEMMA OrderDrives == ASSUME Types, Queue, Order, Types', Driver PROVE Order'
<1>1. CASE Exits
  <2>1. UNCHANGED <<inbox, made, fresh, state>> /\ stops' = <<>> /\ driver' = "down" /\ pump' = "idle"
    BY <1>1 DEF Exits, Drives, Forgotten, durable
  <2> QED
    BY <2>1, OrderQuiet
<1>2. CASE LoopReturns \/ Reads \/ Turns \/ ClosesPump \/ Joins \/ LastTick
  <2>1. UNCHANGED <<inbox, made, results, handled, fresh, state, stops, cur>>
    BY <1>2 DEF LoopReturns, Reads, Turns, ClosesPump, Joins, LastTick, durable, pumpvars, ghosts
  <2>2. driver # "down" /\ (pump' = pump \/ pump' = "tick")
    BY <1>2 DEF LoopReturns, Reads, Turns, ClosesPump, Joins, LastTick, Drives, pumpvars
  <2>3. \A s \in Ids : Dealt(s) => Dealt(s)'
    BY <2>1 DEF Dealt
  <2> QED
    BY <2>1, <2>2, <2>3, OrderQuiet
<1> QED
  BY <1>1, <1>2 DEF Driver

LEMMA OrderPumps ==
    ASSUME Types, Queue, Order, Types',
           \/ Polls \/ LooksAtSignal \/ Lists \/ StopsNow \/ WritesResult \/ EndsTick
           \/ \E c \in Ids : Retries(c)
    PROVE  Order'
<1>1. /\ UNCHANGED <<inbox, made, handled, driver>> /\ fresh' \subseteq fresh
      /\ (stops' = stops \/ stops' = <<>>)
  BY DEF Polls, LooksAtSignal, Lists, StopsNow, WritesResult, EndsTick, Retries, Goes, durable, drvars, ghosts
<1>2. \A s \in Ids : Dealt(s) => Dealt(s)'
  <2>1. \A s \in Ids : results[s] # "none" => results'[s] # "none"
    <3>1. CASE WritesResult \/ \E c \in Ids : Retries(c)
      <4>1. results' = results
            \/ \E c \in Ids \cup {Sigterm}, x \in Codes \cup {"none"} :
                  results' = [results EXCEPT ![c] = IF @ = "none" THEN x ELSE @]
        <5>1. ASSUME WritesResult
              PROVE  \/ results' = results
                     \/ results' = [results EXCEPT ![cur] = IF @ = "none" THEN answer ELSE @]
          BY <5>1 DEF WritesResult
        <5>2. WritesResult => cur \in Ids \cup {Sigterm} /\ answer \in Codes \cup {"none"}
          BY DEF WritesResult, At, Types, InHands, MemoryTypes
        <5>3. ASSUME NEW c \in Ids, Retries(c)
              PROVE  /\ unwritten[c].code \in Codes \cup {"none"}
                     /\ \/ results' = results
                        \/ results' = [results EXCEPT ![c] = IF @ = "none" THEN unwritten[c].code ELSE @]
          BY <5>3, RetriesTo DEF Retries
        <5> QED
          BY <3>1, <5>1, <5>2, <5>3
      <4> QED
        BY <4>1 DEF Types, DurableTypes
    <3>2. CASE results' = results
      BY <3>2
    <3> QED
      BY <3>1, <3>2 DEF Polls, LooksAtSignal, Lists, StopsNow, EndsTick, Goes, durable
  <2> QED
    BY <1>1, <2>1 DEF Dealt
<1>3. state' = state \/ (state = "WAIT_HUMAN" /\ pump' # "commit")
  <2>1. CASE StopsNow
    BY <2>1 DEF StopsNow, EndsWaitingRun, Answers
  <2> QED
    BY <2>1 DEF Polls, LooksAtSignal, Lists, WritesResult, EndsTick, Retries, Goes, durable
<1>4. pump' \in {"commit", "stop", "stopping"} /\ cur' \in Ids => pump' = pump /\ cur' = cur
  BY NoIdIsNone DEF Polls, LooksAtSignal, Lists, StopsNow, WritesResult, EndsTick, Retries, Goes, Answers
<1> QED
  BY <1>1, <1>2, <1>3, <1>4, OrderQuiet

LEMMA OrderStep == ASSUME Types, Queue, Order, Types', [Next]_vars PROVE Order'
BY OrderSends, OrderCommits, OrderTakes, OrderRegisters, OrderPrepares, OrderOutside, OrderRuns, OrderDrives,
   OrderPumps DEF Next, Pump

LEMMA AlwaysOrder == Spec => [](Types /\ Queue /\ Order)
<1>1. Types /\ Queue /\ Order /\ Types' /\ [Next]_vars => Order'
  BY OrderStep
<1> QED
  BY <1>1, InitOrder, AlwaysQueue, PTL DEF Spec

\* A stop sent before a resume never stops the run which that resume took on,
\* whichever runner finds the stop (resume, attach, expected_seq).
THEOREM OldStopsAreOld == Spec => []OldStopsStayOld
<1>1. Order => OldStopsStayOld
  BY DEF Order
<1> QED
  BY <1>1, AlwaysOrder, PTL
-----------------------------------------------------------------------------
(* What a result says is so.                                               *)

\* The answer that is about to be written.
Answering ==
    pump = "finish" /\ cur \in Ids =>
        /\ answer = "resumed" => made[cur] = 1
        /\ answer \in {"not_waiting", "stale_sequence"} => made[cur] = 0
        /\ answer = "completed" => state = "COMPLETED"

Told == Answering /\ AnswersTrue

\* What was said stays true: nothing is made but of a command that has no answer.
LEMMA ToldKeeps ==
    ASSUME Types, Queue, Told,
           \A c \in Ids : made'[c] = made[c] \/ c = cur,
           \A c \in Ids, x \in Codes : Says(c, x)' => Says(c, x),
           state = "COMPLETED" => state' = "COMPLETED",
           Answering'
    PROVE  Told'
<1>1. ASSUME NEW c \in Ids, c = cur, NEW x \in Codes PROVE ~Says(c, x)
  BY <1>1 DEF Queue, Held, Says, Written, Codes, EXITING
<1>2. {"resumed", "not_waiting", "stale_sequence", "completed"} \subseteq Codes
  BY DEF Codes
<1>3. AnswersTrue'
  <2> SUFFICES ASSUME NEW c \in Ids
               PROVE  /\ Says(c, "resumed")' => made'[c] = 1
                      /\ Says(c, "not_waiting")' \/ Says(c, "stale_sequence")' => made'[c] = 0
                      /\ Says(c, "completed")' => state' = "COMPLETED"
    BY DEF AnswersTrue
  <2>1. CASE c = cur
    BY <1>1, <1>2, <2>1
  <2>2. CASE c # cur
    BY <1>2, <2>2 DEF Told, AnswersTrue
  <2> QED
    BY <2>1, <2>2
<1> QED
  BY <1>3 DEF Told

LEMMA SaysSame ==
    ASSUME UNCHANGED <<results, unwritten>>
    PROVE  \A c, x : Says(c, x)' <=> Says(c, x)
BY DEF Says

LEMMA InitTold == Init => Told
<1> SUFFICES ASSUME Init PROVE Told
  OBVIOUS
<1>1. \A c \in Ids, x \in Codes : ~Says(c, x)
  BY DEF Init, Says, Written, Codes, EXITING
<1>2. {"resumed", "not_waiting", "stale_sequence", "completed"} \subseteq Codes
  BY DEF Codes
<1>3. AnswersTrue
  BY <1>1, <1>2 DEF AnswersTrue
<1> QED
  BY <1>3 DEF Init, Told, Answering

LEMMA ToldForgotten == ASSUME Types, Queue, Told, Forgotten, UNCHANGED <<results, state, made>> PROVE Told'
<1>1. \A c \in Ids, x \in Codes : Says(c, x)' => Says(c, x)
  BY DEF Forgotten, Says, Written, Codes, EXITING
<1>2. Answering'
  BY DEF Forgotten, Answering
<1> QED
  BY <1>1, <1>2, ToldKeeps

LEMMA ToldOutside ==
    ASSUME Types, Queue, Told, UNCHANGED vars \/ (\E c \in Ids : Sends(c)) \/ Signal \/ GoesOn \/ Attach \/ Run
    PROVE  Told'
<1>1. UNCHANGED <<results, unwritten, made, pump, cur, answer>>
  BY DEF vars, Sends, Signal, GoesOn, Attach, Run, ReachesPerson, Ends, durable, drvars, pumpvars, ghosts
<1>2. state' = state \/ (state # "COMPLETED" /\ (state = "going" \/ pump = "idle"))
  BY DEF vars, Sends, Signal, GoesOn, Attach, Run, ReachesPerson, Ends, durable, Queue, DownIdle
<1>3. Answering'
  BY <1>1, <1>2 DEF Told, Answering
<1> QED
  BY <1>1, <1>2, <1>3, SaysSame, ToldKeeps

LEMMA ToldDrives ==
    ASSUME Types, Queue, Told, LoopReturns \/ Reads \/ Turns \/ ClosesPump \/ Joins \/ LastTick
    PROVE  Told'
<1>1. UNCHANGED <<results, unwritten, made, cur, answer, state>> /\ pump' \in {pump, "tick"}
  BY DEF LoopReturns, Reads, Turns, ClosesPump, Joins, LastTick, durable, pumpvars, ghosts
<1>2. Answering'
  BY <1>1 DEF Told, Answering
<1> QED
  BY <1>1, <1>2, SaysSame, ToldKeeps

LEMMA ToldPumps ==
    ASSUME Types, Queue, Told, Polls \/ LooksAtSignal \/ Lists \/ Takes \/ RegistersStop \/ EndsTick
    PROVE  Told'
<1>1. UNCHANGED <<results, unwritten, made, state>>
  BY DEF Polls, LooksAtSignal, Lists, Takes, RegistersStop, EndsTick, Goes, durable, ghosts
<1>2. pump' = "finish" => answer' \in {EXITING, "command_used", "not_running"}
  BY DEF Polls, LooksAtSignal, Lists, Takes, RegistersStop, EndsTick, Goes, Answers
<1>3. Answering'
  BY <1>2 DEF Answering, EXITING
<1> QED
  BY <1>1, <1>3, SaysSame, ToldKeeps

LEMMA ToldStops == ASSUME Types, Queue, Told, StopsNow PROVE Told'
<1>1. UNCHANGED <<results, unwritten, made>>
  BY DEF StopsNow, ghosts
<1>2. /\ answer' \in {"completed", "stop_requested"} /\ (answer' = "completed" => state' = "COMPLETED")
      /\ state = "COMPLETED" => state' = "COMPLETED"
  BY DEF StopsNow, Answers
<1>3. Answering'
  BY <1>2 DEF Answering
<1> QED
  BY <1>1, <1>2, <1>3, SaysSame, ToldKeeps

LEMMA ToldPrepares == ASSUME Types, Queue, IInv, Told, PreparesResume PROVE Told'
<1>1. UNCHANGED <<results, unwritten, made, state, cur>> /\ cur \in Ids
  BY DEF PreparesResume, ghosts, At, Types, InHands
<1>2. pump' = "finish" => answer' = ResumeRefusal(cur)
  BY DEF PreparesResume, Answers
<1>3. ResumeRefusal(cur) \in {"not_waiting", "stale_sequence"} => used[cur] = "none"
  BY <1>1 DEF ResumeRefusal, Types, DurableTypes
<1>4. ResumeRefusal(cur) \in {"repeated", "command_used", "not_waiting", "stale_sequence", "none"}
  <2>1. used[cur] \in {"none", "human_resumed", "operator_stop"}
    BY <1>1 DEF Types, DurableTypes
  <2> QED
    BY <2>1, Zenon DEF ResumeRefusal
<1>5. Answering'
  BY <1>1, <1>2, <1>3, <1>4 DEF Answering, IInv, OnRecord, Types, DurableTypes
<1> QED
  BY <1>1, <1>5, SaysSame, ToldKeeps

LEMMA ToldCommits == ASSUME Types, Queue, Order, IInv, Told, CommitsResume PROVE Told'
<1>1. /\ UNCHANGED <<results, unwritten, cur>> /\ cur \in Ids /\ pump = "commit"
      /\ made' = [made EXCEPT ![cur] = @ + 1] /\ answer' = "resumed"
  BY DEF CommitsResume, Answers, At, Types, InHands
<1>2. made'[cur] = 1 /\ \A c \in Ids : c = cur \/ made'[c] = made[c]
  BY <1>1 DEF IInv, InHand, Types, DurableTypes
<1>3. state # "COMPLETED"
  BY <1>1 DEF Order, Last, HUMAN_STATES
<1>4. Answering'
  BY <1>1, <1>2 DEF Answering
<1> QED
  BY <1>1, <1>2, <1>3, <1>4, SaysSame, ToldKeeps

LEMMA ToldRetries == ASSUME Types, Queue, Told, NEW c \in Ids, Retries(c) PROVE Told'
<1>1. UNCHANGED <<made, state, cur, pump>> /\ pump = "next"
  BY DEF Retries, At
<1>2. results' = results \/ results' = [results EXCEPT ![c] = IF @ = "none" THEN unwritten[c].code ELSE @]
  BY DEF Retries
<1>3. \A d \in Ids : unwritten'[d] = unwritten[d] \/ unwritten'[d] = Written
                   \/ unwritten'[d].code = unwritten[d].code
  BY RetriesTo DEF Types, MemoryTypes
<1>4. \A d \in Ids, x \in Codes : Says(d, x)' => Says(d, x)
  <2>1. \A d \in Ids : results'[d] = results[d] \/ results'[d] = unwritten[d].code
    BY <1>2 DEF Types, DurableTypes
  <2>2. "none" \notin Codes
    BY DEF Codes, EXITING
  <2> QED
    BY <1>3, <2>1, <2>2 DEF Says, Written
<1>5. Answering'
  BY <1>1 DEF Answering
<1> QED
  BY <1>1, <1>4, <1>5, ToldKeeps

LEMMA ToldWrites == ASSUME Types, Queue, Told, WritesResult PROVE Told'
<1>1. /\ UNCHANGED <<made, state>> /\ pump = "finish" /\ pump' \in {"list", "next"}
      /\ cur \in Ids \cup {Sigterm} /\ answer \in Codes \cup {"none"}
  BY DEF WritesResult, At, Types, InHands, MemoryTypes
<1>2. Answering'
  BY <1>1 DEF Answering
<1>3. ASSUME NEW c \in Ids, c # cur PROVE \A x : Says(c, x)' <=> Says(c, x)
  <2>1. results'[c] = results[c] /\ unwritten'[c] = unwritten[c]
    BY <1>3 DEF WritesResult, Types, DurableTypes, MemoryTypes
  <2> QED
    BY <2>1 DEF Says
<1>5. ASSUME NEW c \in Ids, c = cur, NEW x \in Codes, results'[c] = x \/ unwritten'[c].code = x
      PROVE  x = answer
  <2>1. results[c] = "none" /\ unwritten[c] = Written /\ c # Sigterm
    BY <1>5, NoIdIsNone DEF Queue, Held
  <2>2. results'[c] \in {"none", answer}
    BY <1>5, <2>1 DEF WritesResult, Types, DurableTypes
  <2>3. unwritten'[c] = Written \/ unwritten'[c] = [code |-> answer, tries |-> 1]
    BY <1>5, <2>1 DEF WritesResult, Types, MemoryTypes
  <2>4. unwritten'[c].code \in {"none", answer}
    BY <2>3 DEF Written
  <2>5. "none" \notin Codes
    BY DEF Codes, EXITING
  <2> QED
    BY <1>5, <2>2, <2>4, <2>5
<1>6. {"resumed", "not_waiting", "stale_sequence", "completed"} \subseteq Codes
  BY DEF Codes
<1>7. AnswersTrue'
  <2> SUFFICES ASSUME NEW c \in Ids
               PROVE  /\ Says(c, "resumed")' => made[c] = 1
                      /\ Says(c, "not_waiting")' \/ Says(c, "stale_sequence")' => made[c] = 0
                      /\ Says(c, "completed")' => state = "COMPLETED"
    BY <1>1 DEF AnswersTrue
  <2>1. CASE c = cur
    <3>1. \A x \in Codes : Says(c, x)' => x = answer
      BY <1>5, <2>1 DEF Says
    <3> QED
      BY <1>1, <1>6, <2>1, <3>1 DEF Told, Answering
  <2>2. CASE c # cur
    BY <1>3, <2>2 DEF Told, AnswersTrue
  <2> QED
    BY <2>1, <2>2
<1> QED
  BY <1>2, <1>7 DEF Told

LEMMA ToldStep == ASSUME Types, Queue, Order, IInv, Told, [Next]_vars PROVE Told'
<1>1. CASE Crash \/ Exits
  BY <1>1, ToldForgotten DEF Crash, Exits, durable
<1> QED
  BY <1>1, ToldOutside, ToldDrives, ToldPumps, ToldStops, ToldPrepares, ToldCommits, ToldRetries, ToldWrites
     DEF Next, Driver, Pump

\* A person who reads a result is told what became of the command, whoever
\* wrote it and however late (_finish, _retry_results).
THEOREM AnswersAreTrue == Spec => []AnswersTrue
<1>1. Types /\ Queue /\ Order /\ IInv /\ Told /\ [Next]_vars => Told'
  BY ToldStep
<1>2. Told => AnswersTrue
  BY DEF Told
<1> QED
  BY <1>1, <1>2, InitTold, AlwaysOrder, AlwaysResumed, PTL DEF Spec
=============================================================================
