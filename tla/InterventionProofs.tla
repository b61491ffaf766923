-------------------------- MODULE InterventionProofs --------------------------
(***************************************************************************)
(* What Intervention promises holds for any number of stops, steps,        *)
(* pauses, episodes and resumes.  One inductive invariant carries all of   *)
(* it: where the loop is says what the request slot, the backend, the      *)
(* motion token and the lock may be.                                       *)
(***************************************************************************)
EXTENDS Intervention, TLAPS

\* The places of the loop in which a token for steps may be left.
Driving == {"drives", "chunked", "checks", "steps", "pauses", "raises"}

\* Nothing of a request is left.
Clean == slot.role = "none" /\ busy = "none" /\ cycle.request = "none"

\* The lock is held in an act, and by a resume under way; a run at rest has a
\* loop at rest.
Locking ==
    /\ lock = "loop" <=> loop.pc \in InTx
    /\ lock = "resume" <=> resume.at # "idle"
    /\ run \in HUMAN_STATES \cup {"COMPLETED"} => loop.pc \in {"rest", "consumes"}
    /\ resume.at # "idle" => loop.pc \in {"rest", "waits", "locks"}

\* Whoever may move: the episode, between two requests or in one of the policy.
Moving ==
    /\ token # "none" =>
          \/ loop.pc \in Driving \cup {"moves"}
          \/ loop.pc \in Invoking /\ loop.role = "policy"
    /\ loop.pc \in Invoking /\ loop.role = "policy" => loop.after = "chunked"

\* The slot and the backend along a request.
Requesting ==
    /\ cycle.request \in {"none", "current"}
    /\ loop.pc = "grants" => Clean
    /\ loop.pc = "notes" =>
          slot.role = loop.role /\ busy = "none" /\ cycle.request = "none"
    /\ loop.pc \in {"calls", "proves", "finishes"} =>
          slot.role = loop.role /\ busy = "none" /\ cycle.request = "current"
    /\ loop.pc \in {"awaits", "returns"} =>
          slot.role = loop.role /\ busy = loop.role /\ cycle.request = "current"
    /\ loop.pc = "publishes" =>
          slot.role = "none" /\ busy = "none" /\ cycle.request = "current"
    /\ cycle.request = "none" /\ loop.pc # "notes" => Clean
    /\ ~cycle.failed /\ loop.pc \notin (Invoking \ {"enters"}) \cup {"raises"} => Clean

\* A failed proof is latched, or about to be.
Failing ==
    /\ broken => cycle.unproven \/ (loop.pc = "raises" /\ loop.exc = "unproven")
    /\ cycle.unproven => cycle.failed
    /\ loop.pc = "grants" => ~broken

\* What a resume looked at before its transaction still holds after it.
Resuming == resume.at # "idle" /\ resume.needed => MayRearm(cycle)

Parts ==
    /\ Locking /\ Moving /\ Requesting /\ Failing /\ Resuming
    /\ HeldWhileJudged /\ StopsMotion

IInv == TypeOK /\ Parts
-----------------------------------------------------------------------------
(* Types. *)

LoopType ==
    [pc : Points, role : Roles, after : {"assessed", "chunked", "judged"},
     exc : {"none", "stopped", "unproven"}]
CycleType == [failed : BOOLEAN, stopped : BOOLEAN, unproven : BOOLEAN, request : Requests]
SlotType == [role : Roles \cup {"none"}, revoked : BOOLEAN]
StopPoints ==
    {"idle", "registers", "revokes", "interrupts", "withdraws", "completes", "done"}
EpisodeType == [steps : Nat, pauses : Nat, buffer : {"empty", "filled"}, done : Nat]

LEMMA PointNames ==
    {"enters", "grants", "notes", "calls", "awaits", "returns", "proves", "finishes",
     "publishes", "opens", "fences", "readmits", "homing", "moves", "consumes",
     "rest", "decides", "assessed", "begins", "issues", "drives", "chunked", "checks",
     "steps", "pauses", "prepares", "judged", "reopens", "seals", "records", "sealed",
     "homes", "waits", "raises", "locks"} \subseteq Points
  BY DEF Points, Invoking, InTx

\* The ways in which the loop gets on.
LEMMA LoopTyped ==
    ASSUME TypeOK
    PROVE  /\ \A p \in Points : Go(p) => loop' \in LoopType
           /\ \A e \in {"stopped", "unproven"} : Raises(e) => loop' \in LoopType
           /\ \A r \in Roles, p \in {"assessed", "chunked", "judged"} :
                 Invokes(r, p) => loop' \in LoopType
           /\ Breaks => loop' \in LoopType /\ broken' \in BOOLEAN
<1> USE PointNames DEF TypeOK, LoopType
<1>1. ASSUME NEW p \in Points, Go(p) PROVE loop' \in LoopType
  BY <1>1 DEF Go
<1>2. ASSUME NEW e \in {"stopped", "unproven"}, Raises(e) PROVE loop' \in LoopType
  BY <1>2 DEF Raises
<1>3. ASSUME NEW r \in Roles, NEW p \in {"assessed", "chunked", "judged"}, Invokes(r, p)
      PROVE  loop' \in LoopType
  BY <1>3 DEF Invokes
<1>4. ASSUME Breaks PROVE loop' \in LoopType /\ broken' \in BOOLEAN
  BY <1>2, <1>4 DEF Breaks
<1> QED
  BY <1>1, <1>2, <1>3, <1>4

USE DEF At, Decides, MovesTo, EndsTx, Commits, Aborts, Revoked, operator, registry, loopVars,
        StopMoves, TypeOK, Roles, Requests, HUMAN_STATES, RunStates

LEMMA EpisodeTyped ==
    ASSUME NEW e \in EpisodeType, NEW b \in {"empty", "filled"}
    PROVE  /\ [e EXCEPT !.steps = e.steps + 1, !.buffer = b] \in EpisodeType
           /\ [e EXCEPT !.buffer = b, !.pauses = e.pauses + 1] \in EpisodeType
<1>1. \A n \in Nat : /\ [e EXCEPT !.steps = n, !.buffer = b] \in EpisodeType
                     /\ [e EXCEPT !.buffer = b, !.pauses = n] \in EpisodeType
  BY DEF EpisodeType
<1>2. e.steps + 1 \in Nat /\ e.pauses + 1 \in Nat
  BY DEF EpisodeType
<1>3. \A x : x = e.steps + 1 => [e EXCEPT !.steps = x, !.buffer = b] \in EpisodeType
  BY <1>1, <1>2
<1>4. \A x : x = e.pauses + 1 => [e EXCEPT !.buffer = b, !.pauses = x] \in EpisodeType
  BY <1>1, <1>2
<1> QED
  BY <1>3, <1>4

LEMMA OpensTyped ==
    ASSUME TypeOK, Opens PROVE episode' \in EpisodeType
<1>1. \A n \in Nat :
         [episode EXCEPT !.steps = n, !.pauses = n, !.buffer = "empty"] \in EpisodeType
  BY DEF EpisodeType
<1> QED
  BY <1>1 DEF Opens

LEMMA DrivesTyped ==
    ASSUME TypeOK, Drives PROVE episode' \in EpisodeType
<1>1. episode \in EpisodeType
  BY DEF EpisodeType
<1>2. [episode EXCEPT !.buffer = "empty"] \in EpisodeType
  BY <1>1 DEF EpisodeType
<1> QED
  BY <1>1, <1>2, EpisodeTyped DEF Drives

LEMMA StepsTyped ==
    ASSUME TypeOK, Steps PROVE episode' \in EpisodeType
<1>1. episode \in EpisodeType
  BY DEF EpisodeType
<1>2. ASSUME NEW b \in {"empty", "filled"},
             episode' = [episode EXCEPT !.steps = @ + 1, !.buffer = b]
      PROVE  episode' \in EpisodeType
  BY <1>1, <1>2, EpisodeTyped
<1>3. \/ episode' = episode
      \/ \E b \in {"empty", "filled"} :
            episode' = [episode EXCEPT !.steps = @ + 1, !.buffer = b]
  BY DEF Steps
<1> QED
  BY <1>1, <1>2, <1>3

\* Each thread keeps the types.
LEMMA LoopTypes ==
    ASSUME TypeOK, Loop PROVE TypeOK'
<1>1. CASE Preflights
  BY <1>1, LoopTyped, PointNames DEF Preflights, LoopType
<1>2. CASE DecidesScene
  BY <1>2, LoopTyped, PointNames DEF DecidesScene, LoopType
<1>3. CASE Assessed
  BY <1>3, LoopTyped, PointNames DEF Assessed, LoopType
<1>4. CASE BeginsTx("begins", "opens")
  BY <1>4, LoopTyped, PointNames DEF BeginsTx, LoopType
<1>5. CASE Opens
  BY <1>5, OpensTyped, LoopTyped, PointNames DEF Opens, LoopType, EpisodeType
<1>6. CASE Issues
  BY <1>6, LoopTyped, PointNames DEF Issues, LoopType
<1>7. CASE Drives
  BY <1>7, DrivesTyped, LoopTyped, PointNames DEF Drives, LoopType, EpisodeType
<1>8. CASE Chunked
  BY <1>8, LoopTyped, PointNames DEF Chunked, LoopType
<1>9. CASE ChecksOnce
  BY <1>9, LoopTyped, PointNames DEF ChecksOnce, LoopType
<1>10. CASE Steps
  <2>1. episode' \in EpisodeType
    BY <1>10, StepsTyped
  <2>2. loop' \in LoopType /\ broken' \in BOOLEAN
    BY <1>10, LoopTyped, PointNames DEF Steps
  <2>3. latch' \in BOOLEAN
    BY <1>10 DEF Steps
  <2>4. UNCHANGED <<run, lock, token, registry, cycle, slot, busy, operator>>
    BY <1>10 DEF Steps
  <2> QED
    BY <2>1, <2>2, <2>3, <2>4 DEF LoopType, EpisodeType
<1>11. CASE BeginsTx("pauses", "fences")
  BY <1>11, LoopTyped, PointNames DEF BeginsTx, LoopType
<1>12. CASE Fences
  BY <1>12, LoopTyped, PointNames DEF Fences, LoopType
<1>13. CASE Prepares
  BY <1>13, LoopTyped, PointNames DEF Prepares, LoopType
<1>14. CASE Judged
  BY <1>14, LoopTyped, PointNames DEF Judged, LoopType
<1>15. CASE BeginsTx("reopens", "readmits")
  BY <1>15, LoopTyped, PointNames DEF BeginsTx, LoopType
<1>16. CASE Readmits
  BY <1>16, LoopTyped, PointNames DEF Readmits, LoopType
<1>17. CASE Seals
  BY <1>17, LoopTyped, PointNames DEF Seals, LoopType
<1>18. CASE Records
  BY <1>18, LoopTyped, PointNames DEF Records, LoopType
<1>19. CASE Sealed
  BY <1>19, LoopTyped, PointNames DEF Sealed, LoopType
<1>20. CASE BeginsTx("homes", "homing")
  BY <1>20, LoopTyped, PointNames DEF BeginsTx, LoopType
<1>21. CASE Homing
  BY <1>21, LoopTyped, PointNames DEF Homing, LoopType
<1>22. CASE Homes
  BY <1>22, LoopTyped, PointNames DEF Homes, HomeRefused, LoopType
<1>23. CASE Waits
  BY <1>23, LoopTyped, PointNames DEF Waits, LoopType
<1>24. CASE Consumes
  BY <1>24, LoopTyped, PointNames DEF Consumes, LoopType
<1>25. CASE Contains
  <2>1. cycle' \in CycleType
    BY <1>25 DEF Contains, CycleType, Latches, ProofFailed
  <2>2. slot' \in SlotType
    BY <1>25 DEF Contains, SlotType
  <2>3. loop' \in LoopType
    BY <1>25, PointNames DEF Contains, LoopType
  <2>4. /\ token' = "none"
        /\ UNCHANGED <<run, lock, registry, busy, episode, operator, latch, broken>>
    BY <1>25 DEF Contains
  <2> QED
    BY <2>1, <2>2, <2>3, <2>4 DEF LoopType, CycleType, SlotType
<1>26. CASE Locks
  BY <1>26, LoopTyped, PointNames DEF Locks, LoopType
<1> QED
  BY <1>1, <1>2, <1>3, <1>4, <1>5, <1>6, <1>7, <1>8, <1>9, <1>10, <1>11, <1>12, <1>13, <1>14,
     <1>15, <1>16, <1>17, <1>18, <1>19, <1>20, <1>21, <1>22, <1>23, <1>24, <1>25, <1>26 DEF
     Loop

LEMMA InvokeTypes ==
    ASSUME TypeOK, Invoke PROVE TypeOK'
<1>1. CASE Enters
  BY <1>1, LoopTyped, PointNames DEF Enters, LoopType
<1>2. CASE Grants
  <2>1. cycle' \in CycleType
    BY <1>2 DEF Grants, CycleType
  <2>2. slot' \in SlotType
    <3>1. [role |-> loop.role, revoked |-> FALSE] \in SlotType
      BY DEF SlotType
    <3>2. slot' = slot \/ slot' = [role |-> loop.role, revoked |-> FALSE]
      BY <1>2 DEF Grants
    <3> QED
      BY <3>1, <3>2 DEF SlotType
  <2>3. seen' \in [StopIds -> Requests]
    BY <1>2 DEF Grants
  <2>4. loop' \in LoopType /\ broken' \in BOOLEAN
    BY <1>2, LoopTyped, PointNames DEF Grants
  <2>5. UNCHANGED <<run, lock, token, registry, busy, episode, at, resume, latch>>
    BY <1>2 DEF Grants
  <2> QED
    BY <2>1, <2>2, <2>3, <2>4, <2>5 DEF LoopType, CycleType, SlotType
<1>3. CASE NotesRequest
  BY <1>3, LoopTyped, PointNames DEF NotesRequest, LoopType
<1>4. CASE Calls
  BY <1>4, LoopTyped, PointNames DEF Calls, LoopType
<1>5. CASE Awaits
  BY <1>5, LoopTyped, PointNames DEF Awaits, LoopType
<1>6. CASE Returns
  BY <1>6, LoopTyped, PointNames DEF Returns, LoopType
<1>7. CASE Proves
  BY <1>7, LoopTyped, PointNames DEF Proves, LoopType
<1>8. CASE Finishes
  BY <1>8, LoopTyped, PointNames DEF Finishes, LoopType
<1>9. CASE Publishes
  BY <1>9, LoopTyped, PointNames DEF Publishes, LoopType
<1> QED
  BY <1>1, <1>2, <1>3, <1>4, <1>5, <1>6, <1>7, <1>8, <1>9 DEF Invoke

LEMMA StopTypes ==
    ASSUME TypeOK, NEW s \in StopIds, Stops(s) PROVE TypeOK'
<1>1. CASE StopChecks(s)
  BY <1>1, LoopTyped, PointNames DEF StopChecks, LoopType
<1>2. CASE StopRegisters(s)
  <2>1. cycle' \in CycleType
    BY <1>2 DEF StopRegisters, CycleType
  <2>2. gen' \in Nat /\ stops' \in [StopIds -> Nat]
    BY <1>2 DEF StopRegisters
  <2>3. at' \in [StopIds -> StopPoints]
    BY <1>2 DEF StopRegisters, StopPoints
  <2>4. UNCHANGED <<run, lock, token, slot, busy, loopVars, seen, resume, latch, broken>>
    BY <1>2 DEF StopRegisters
  <2> QED
    BY <2>1, <2>2, <2>3, <2>4 DEF CycleType, StopPoints
<1>3. CASE StopRevokes(s)
  BY <1>3, LoopTyped, PointNames DEF StopRevokes, LoopType
<1>4. CASE StopInterrupts(s)
  <2>1. cycle' \in CycleType
    BY <1>4 DEF StopInterrupts, CycleType, Latches
  <2>2. seen' \in [StopIds -> Requests]
    BY <1>4 DEF StopInterrupts
  <2>3. at' \in [StopIds -> StopPoints]
    BY <1>4 DEF StopInterrupts, StopPoints
  <2>4. UNCHANGED <<run, lock, token, registry, slot, busy, loopVars, resume, latch, broken>>
    BY <1>4 DEF StopInterrupts
  <2> QED
    BY <2>1, <2>2, <2>3, <2>4 DEF CycleType, StopPoints
<1>5. CASE StopWithdraws(s)
  <2>1. slot' \in SlotType
    BY <1>5 DEF StopWithdraws, SlotType
  <2>2. seen' \in [StopIds -> Requests]
    BY <1>5 DEF StopWithdraws
  <2>3. at' \in [StopIds -> StopPoints]
    BY <1>5 DEF StopWithdraws, StopPoints
  <2>4. UNCHANGED <<run, lock, token, registry, cycle, busy, loopVars, resume, latch, broken>>
    BY <1>5 DEF StopWithdraws
  <2> QED
    BY <2>1, <2>2, <2>3, <2>4 DEF SlotType, StopPoints
<1>6. CASE StopCompletes(s)
  BY <1>6, LoopTyped, PointNames DEF StopCompletes, LoopType
<1> QED
  BY <1>1, <1>2, <1>3, <1>4, <1>5, <1>6 DEF Stops

LEMMA ResumeTypes ==
    ASSUME TypeOK, Resumes PROVE TypeOK'
<1>1. CASE ResumeBegins
  BY <1>1, LoopTyped, PointNames DEF ResumeBegins, LoopType
<1>2. CASE ResumeCommits
  BY <1>2, LoopTyped, PointNames DEF ResumeCommits, LoopType
<1>3. CASE ResumeRearms
  <2>1. cycle' \in CycleType
    <3>1. /\ Latches(cycle, FALSE, TRUE) \in CycleType
          /\ [cycle EXCEPT !.failed = FALSE, !.stopped = FALSE] \in CycleType
      BY DEF CycleType, Latches
    <3>2. \/ cycle' = Latches(cycle, FALSE, TRUE) \/ cycle' = cycle
          \/ cycle' = [cycle EXCEPT !.failed = FALSE, !.stopped = FALSE]
      BY <1>3, Zenon DEF ResumeRearms
    <3> QED
      BY <3>1, <3>2 DEF CycleType
  <2>2. stops' \in [StopIds -> Nat]
    <3>1. \/ stops' = stops
          \/ stops' = [s \in StopIds |-> IF stops[s] > resume.gen THEN stops[s] ELSE 0]
      BY <1>3, Zenon DEF ResumeRearms
    <3>2. [s \in StopIds |-> IF stops[s] > resume.gen THEN stops[s] ELSE 0] \in [StopIds -> Nat]
      OBVIOUS
    <3> QED
      BY <3>1, <3>2
  <2>3. resume' \in [at : {"idle", "commits", "rearms"}, gen : Nat, needed : BOOLEAN, n : Nat]
    BY <1>3 DEF ResumeRearms
  <2>4. run' \in RunStates /\ lock' = "free"
    BY <1>3 DEF ResumeRearms
  <2>5. UNCHANGED <<token, gen, slot, busy, loopVars, at, seen, latch, broken>>
    BY <1>3 DEF ResumeRearms
  <2> QED
    BY <2>1, <2>2, <2>3, <2>4, <2>5 DEF CycleType
<1> QED
  BY <1>1, <1>2, <1>3 DEF Resumes

LEMMA WorldTypes ==
    ASSUME TypeOK, Drains \/ Guards PROVE TypeOK'
<1>1. CASE Drains
  BY <1>1 DEF Drains
<1>2. CASE Guards
  <2>1. latch' \in BOOLEAN
    BY <1>2 DEF Guards
  <2> QED
    BY <1>2, <2>1 DEF Guards
<1> QED
  BY <1>1, <1>2

\* Together.
LEMMA StepTypes ==
    ASSUME TypeOK, [Next]_vars PROVE TypeOK'
<1>1. CASE UNCHANGED vars
  BY <1>1 DEF vars
<1> QED
  BY <1>1, LoopTypes, InvokeTypes, StopTypes, ResumeTypes, WorldTypes DEF Next

-----------------------------------------------------------------------------
(* The other parts of the invariant, thread by thread. *)

\* Where each way of going on leaves the loop.
LEMMA Goes ==
    ASSUME TypeOK
    PROVE  /\ \A p : Go(p) => /\ loop'.pc = p /\ loop'.role = loop.role
                              /\ loop'.after = loop.after /\ loop'.exc = loop.exc
           /\ \A e : Raises(e) => /\ loop'.pc = "raises" /\ loop'.exc = e
                                  /\ loop'.role = loop.role /\ loop'.after = loop.after
           /\ \A r, a : Invokes(r, a) => /\ loop'.pc = "enters" /\ loop'.role = r
                                         /\ loop'.after = a /\ loop'.exc = loop.exc
  BY DEF Go, Raises, Invokes

\* What interrupt leaves of the cycle.
LEMMA LatchedCycle ==
    ASSUME TypeOK, NEW o \in BOOLEAN, NEW p \in BOOLEAN
    PROVE  /\ Latches(cycle, o, p).failed
           /\ Latches(cycle, o, p).request = cycle.request
           /\ Latches(cycle, o, p).unproven = (cycle.unproven \/ p)
           /\ Latches(cycle, o, p).stopped = (cycle.stopped \/ (o /\ ~cycle.failed))
  BY DEF Latches

\* The flags the steps below compare.
LEMMA Flags ==
    ASSUME TypeOK
    PROVE  /\ cycle.failed \in BOOLEAN /\ cycle.stopped \in BOOLEAN
           /\ cycle.unproven \in BOOLEAN /\ broken \in BOOLEAN /\ resume.needed \in BOOLEAN
           /\ loop.after \in {"assessed", "chunked", "judged"}
  OBVIOUS

USE DEF Driving, Invoking, InTx
HIDE DEF TypeOK

\* One step of the loop, of a request, of a stop, of a resume, of the world.
LEMMA LoopParts ==
    ASSUME TypeOK, Parts, Loop PROVE Parts'
<1> USE Goes, Flags DEF Parts, Locking, Moving, Requesting, Clean, Failing, Resuming,
        MayRearm, Latched, HeldWhileJudged, StopsMotion
<1>1. CASE Preflights
  BY <1>1 DEF Preflights
<1>2. CASE DecidesScene
  BY <1>2 DEF DecidesScene
<1>3. CASE Assessed
  BY <1>3 DEF Assessed, Breaks
<1>4. CASE BeginsTx("begins", "opens")
  BY <1>4 DEF BeginsTx
<1>5. CASE Opens
  BY <1>5 DEF Opens, Breaks
<1>6. CASE Issues
  BY <1>6 DEF Issues, MayIssue, Stopped
<1>7. CASE Drives
  BY <1>7 DEF Drives, Breaks
<1>8. CASE Chunked
  BY <1>8 DEF Chunked, Breaks
<1>9. CASE ChecksOnce
  BY <1>9 DEF ChecksOnce
<1>10. CASE Steps
  BY <1>10 DEF Steps, Breaks
<1>11. CASE BeginsTx("pauses", "fences")
  BY <1>11 DEF BeginsTx
<1>12. CASE Fences
  BY <1>12 DEF Fences, Breaks
<1>13. CASE Prepares
  BY <1>13 DEF Prepares, Breaks
<1>14. CASE Judged
  BY <1>14 DEF Judged, Breaks
<1>15. CASE BeginsTx("reopens", "readmits")
  BY <1>15 DEF BeginsTx
<1>16. CASE Readmits
  BY <1>16 DEF Readmits, Breaks
<1>17. CASE Seals
  BY <1>17 DEF Seals
<1>18. CASE Records
  BY <1>18 DEF Records
<1>19. CASE Sealed
  BY <1>19 DEF Sealed
<1>20. CASE BeginsTx("homes", "homing")
  BY <1>20 DEF BeginsTx
<1>21. CASE Homing
  BY <1>21 DEF Homing, MayIssue, Stopped
<1>22. CASE Homes
  <2>1. CASE Breaks /\ run' = run
    BY <1>22, <2>1 DEF Homes, Breaks
  <2>2. CASE ~(Breaks /\ run' = run)
    BY <1>22, <2>2 DEF Homes, HomeRefused
  <2> QED
    BY <2>1, <2>2
<1>23. CASE Waits
  BY <1>23 DEF Waits
<1>24. CASE Consumes
  BY <1>24 DEF Consumes
<1>25. CASE Contains
  <2>1. /\ cycle'.failed /\ cycle'.request = cycle.request
        /\ cycle'.unproven = (cycle.unproven \/ loop.exc = "unproven")
    BY <1>25 DEF Contains, ProofFailed, Latches, TypeOK
  <2>2. slot'.role = slot.role /\ loop'.pc = "locks" /\ loop'.role = loop.role
    BY <1>25 DEF Contains, TypeOK
  <2> QED
    BY <1>25, <2>1, <2>2 DEF Contains
<1>26. CASE Locks
  BY <1>26 DEF Locks
<1> QED
  BY <1>1, <1>2, <1>3, <1>4, <1>5, <1>6, <1>7, <1>8, <1>9, <1>10, <1>11, <1>12, <1>13, <1>14,
     <1>15, <1>16, <1>17, <1>18, <1>19, <1>20, <1>21, <1>22, <1>23, <1>24, <1>25, <1>26 DEF
     Loop

LEMMA InvokeParts ==
    ASSUME TypeOK, Parts, Invoke PROVE Parts'
<1> USE Goes, Flags DEF Parts, Locking, Moving, Requesting, Clean, Failing, Resuming,
        MayRearm, Latched, HeldWhileJudged, StopsMotion
<1>1. CASE Enters
  BY <1>1 DEF Enters, StoppedNow, Breaks
<1>2. CASE Grants
  <2>1. /\ cycle'.failed = cycle.failed /\ cycle'.stopped = cycle.stopped
        /\ cycle'.unproven = cycle.unproven /\ cycle'.request = cycle.request
    BY <1>2 DEF Grants, TypeOK
  <2>2. slot' = slot \/ slot'.role = loop.role
    BY <1>2 DEF Grants
  <2> QED
    BY <1>2, <2>1, <2>2 DEF Grants, Breaks
<1>3. CASE NotesRequest
  BY <1>3 DEF NotesRequest
<1>4. CASE Calls
  BY <1>4 DEF Calls, StoppedNow
<1>5. CASE Awaits
  BY <1>5 DEF Awaits, Breaks
<1>6. CASE Returns
  BY <1>6 DEF Returns, StoppedNow, Breaks
<1>7. CASE Proves
  BY <1>7 DEF Proves, StoppedNow
<1>8. CASE Finishes
  BY <1>8 DEF Finishes, Breaks
<1>9. CASE Publishes
  <2>1. cycle' = cycle \/ /\ cycle'.failed = cycle.failed /\ cycle'.stopped = cycle.stopped
                          /\ cycle'.unproven = cycle.unproven /\ cycle'.request = "none"
    BY <1>9 DEF Publishes, TypeOK
  <2>2. CASE Raises("stopped") /\ UNCHANGED cycle
    BY <1>9, <2>2 DEF Publishes
  <2>3. CASE Go(loop.after) /\ cycle'.request = "none"
    <3>1. loop'.pc = loop.after /\ loop'.pc \notin InTx /\ loop'.role = loop.role
      BY <2>3
    <3>2. Clean' /\ slot' = slot /\ busy' = busy
      BY <1>9, <2>3 DEF Publishes
    <3> QED
      BY <1>9, <2>1, <2>3, <3>1, <3>2 DEF Publishes
  <2> QED
    BY <1>9, <2>2, <2>3 DEF Publishes, TypeOK
<1> QED
  BY <1>1, <1>2, <1>3, <1>4, <1>5, <1>6, <1>7, <1>8, <1>9 DEF Invoke

LEMMA StopParts ==
    ASSUME TypeOK, Parts, NEW s \in StopIds, Stops(s) PROVE Parts'
<1> USE Goes, Flags DEF Parts, Locking, Moving, Requesting, Clean, Failing, Resuming,
        MayRearm, Latched, HeldWhileJudged, StopsMotion
<1>1. CASE StopChecks(s)
  BY <1>1 DEF StopChecks
<1>2. CASE StopRegisters(s)
  BY <1>2 DEF StopRegisters
<1>3. CASE StopRevokes(s)
  BY <1>3 DEF StopRevokes
<1>4. CASE StopInterrupts(s)
  <2>1. /\ cycle'.failed /\ cycle'.request = cycle.request
        /\ cycle'.unproven = cycle.unproven
        /\ cycle'.stopped = (cycle.stopped \/ ~cycle.failed)
    BY <1>4 DEF StopInterrupts, Latches, TypeOK
  <2>2. at \in [StopIds -> StopPoints]
    BY DEF TypeOK, StopPoints
  <2>3. \A r \in StopIds : at'[r] = IF r = s THEN "withdraws" ELSE at[r]
    BY <1>4, <2>2 DEF StopInterrupts
  <2>4. UNCHANGED <<run, lock, token, stops, slot, busy, loop, resume, broken>>
    BY <1>4 DEF StopInterrupts
  <2>5. at[s] = "interrupts"
    BY <1>4 DEF StopInterrupts
  <2>6. StopsMotion'
    BY <2>3, <2>4, <2>5
  <2>7. (Failing /\ Resuming /\ Requesting)'
    BY <2>1, <2>4
  <2> QED
    BY <2>4, <2>6, <2>7
<1>5. CASE StopWithdraws(s)
  BY <1>5 DEF StopWithdraws
<1>6. CASE StopCompletes(s)
  BY <1>6 DEF StopCompletes
<1> QED
  BY <1>1, <1>2, <1>3, <1>4, <1>5, <1>6 DEF Stops

LEMMA ResumeParts ==
    ASSUME TypeOK, Parts, Resumes PROVE Parts'
<1> USE Goes, Flags DEF Parts, Locking, Moving, Requesting, Clean, Failing, Resuming,
        MayRearm, Latched, HeldWhileJudged, StopsMotion
<1>1. CASE ResumeBegins
  BY <1>1 DEF ResumeBegins
<1>2. CASE ResumeCommits
  BY <1>2 DEF ResumeCommits
<1>3. CASE ResumeRearms
  <2>1. resume.needed => MayRearm(cycle)
    BY <1>3 DEF ResumeRearms
  <2>2. \/ cycle' = cycle
        \/ resume.needed /\ cycle' = [cycle EXCEPT !.failed = FALSE, !.stopped = FALSE]
    BY <1>3, <2>1, Zenon DEF ResumeRearms
  <2>3. /\ cycle'.request = cycle.request /\ cycle'.unproven = cycle.unproven
        /\ cycle' = cycle \/ ~cycle'.failed
    <3>1. cycle \in CycleType
      BY DEF TypeOK, CycleType
    <3>2. CASE cycle' = [cycle EXCEPT !.failed = FALSE, !.stopped = FALSE]
      BY <3>1, <3>2 DEF CycleType
    <3> QED
      BY <2>2, <3>2
  <2>4. resume'.at = "idle" /\ run' = run
    BY <1>3, <2>1, Zenon DEF ResumeRearms
  <2>5. CASE cycle' = cycle
    BY <1>3, <2>4, <2>5 DEF ResumeRearms
  <2>6. CASE cycle' # cycle
    BY <1>3, <2>1, <2>2, <2>3, <2>4, <2>6 DEF ResumeRearms
  <2> QED
    BY <2>5, <2>6
<1> QED
  BY <1>1, <1>2, <1>3 DEF Resumes

LEMMA WorldParts ==
    ASSUME TypeOK, Parts, Drains \/ Guards PROVE Parts'
<1> USE Goes, Flags DEF Parts, Locking, Moving, Requesting, Clean, Failing, Resuming,
        MayRearm, Latched, HeldWhileJudged, StopsMotion
<1>1. CASE Drains
  BY <1>1 DEF Drains
<1>2. CASE Guards
  BY <1>2 DEF Guards
<1> QED
  BY <1>1, <1>2

\* Steps that do nothing to the fence and the slot but take them away.
TakesAway == token' \in {token, "none"} /\ slot'.role \in {slot.role, "none"}

\* Only three steps give: a motion token, a home, a request.
LEMMA OnlyThreeGive ==
    ASSUME TypeOK, [Next]_vars, ~Issues, ~Homing, ~Grants
    PROVE  TakesAway
<1> USE DEF TakesAway
<1>1. CASE Loop
  BY <1>1 DEF Loop, Contains, TypeOK, Preflights, DecidesScene, Assessed, BeginsTx, Opens,
     Drives, Chunked, ChecksOnce, Steps, Fences, Prepares, Judged, Readmits, Seals, Records,
     Sealed, Homes, Waits, Consumes, Locks
<1>2. CASE Invoke
  BY <1>2 DEF Invoke, TypeOK, Enters, NotesRequest, Calls, Awaits, Returns, Proves, Finishes,
     Publishes
<1>3. CASE \E s \in StopIds : Stops(s)
  BY <1>3 DEF Stops, TypeOK, StopChecks, StopRegisters, StopRevokes, StopInterrupts,
     StopWithdraws, StopCompletes
<1>4. CASE Resumes
  BY <1>4 DEF Resumes, ResumeBegins, ResumeCommits, ResumeRearms
<1>5. CASE Drains \/ Guards
  BY <1>5 DEF Drains, Guards
<1>6. CASE UNCHANGED vars
  BY <1>6 DEF vars
<1> QED
  BY <1>1, <1>2, <1>3, <1>4, <1>5, <1>6 DEF Next

-----------------------------------------------------------------------------
(* The theorems. *)

\* It holds when the run is made,
LEMMA InitInv == Init => IInv
<1> SUFFICES ASSUME Init PROVE IInv
  OBVIOUS
<1>1. TypeOK
  BY PointNames, InterventionAssumption DEF Init, TypeOK
<1>2. Parts
  BY DEF Init, Parts, Locking, Moving, Requesting, Clean, Failing, Resuming, HeldWhileJudged,
         StopsMotion
<1> QED
  BY <1>1, <1>2 DEF IInv, Parts

\* and every step keeps it.
LEMMA StepInv == IInv /\ [Next]_vars => IInv'
<1> SUFFICES ASSUME IInv, [Next]_vars PROVE IInv'
  OBVIOUS
<1>1. TypeOK'
  BY StepTypes DEF IInv
<1>2. Parts'
  <2>1. TypeOK /\ Parts
    BY DEF IInv, Parts
  <2>2. CASE UNCHANGED vars
    BY <2>1, <2>2 DEF vars, Parts, Locking, Moving, Requesting, Clean, Failing, Resuming,
                      MayRearm, Latched, HeldWhileJudged, StopsMotion
  <2> QED
    BY <1>1, <2>1, <2>2, LoopParts, InvokeParts, StopParts, ResumeParts, WorldParts DEF Next
<1> QED
  BY <1>1, <1>2 DEF IInv, Parts

\* What each step keeps, which is what the other theorems follow from.
THEOREM Invariant == Spec => []IInv
  BY InitInv, StepInv, PTL DEF Spec

\* Every variable keeps its type, for any number of stops, steps and resumes.
THEOREM TypesKept == Spec => []TypeOK
<1>1. IInv => TypeOK
  BY DEF IInv, Parts
<1> QED
  BY <1>1, Invariant, PTL

\* InferenceCycle.invoke and the fence: no token is out while the slot or the
\* backend is the judge's.
THEOREM ArmHeldWhileJudged == Spec => []HeldWhileJudged
<1>1. IInv => HeldWhileJudged
  BY DEF IInv, Parts
<1> QED
  BY <1>1, Invariant, PTL

\* Orchestrator.stop: from its fence.revoke on, nothing moves until the stop is
\* consumed, completed or overridden.
THEOREM StopHoldsTheArm == Spec => []StopsMotion
<1>1. IInv => StopsMotion
  BY DEF IInv, Parts
<1> QED
  BY <1>1, Invariant, PTL

\* InferenceCycle.rearm: an open cycle between two requests owns nothing.
THEOREM RearmOnlyClean == Spec => []RearmedClean
<1>1. IInv => RearmedClean
  BY DEF IInv, Parts, Requesting, RearmedClean, Clean
<1> QED
  BY <1>1, Invariant, PTL

\* InferenceCycle.interrupt(proof_failed): the cycle of a failed proof gives
\* neither a request nor a token again.
THEOREM ProofFailureIsFinal == Spec => UnprovenForEver
<1>1. IInv /\ [Next]_vars => [broken => TakesAway]_vars
  <2> SUFFICES ASSUME IInv, [Next]_vars, broken PROVE TakesAway
    OBVIOUS
  <2>1. CASE Issues
    BY <2>1 DEF IInv, Parts, Issues, MayIssue, Failing, TakesAway
  <2>2. CASE Homing
    BY <2>2 DEF IInv, Parts, Homing, MayIssue, Failing, TakesAway
  <2>3. CASE Grants
    BY <2>3 DEF IInv, Parts, Grants, Failing
  <2> QED
    BY <2>1, <2>2, <2>3, OnlyThreeGive DEF IInv, Parts
<1>2. [broken => TakesAway]_vars
      <=> [broken => token' \in {token, "none"} /\ slot'.role \in {slot.role, "none"}]_vars
  BY DEF TakesAway
<1> QED
  BY <1>1, <1>2, Invariant, PTL DEF Spec, UnprovenForEver

\* Orchestrator.resume looks at the cycle before its transaction and rearms it
\* after it: with the loop at rest in between, the rearm is never refused.
THEOREM RearmNeverRefused ==
    Spec => [](resume.at = "rearms" /\ resume.needed => MayRearm(cycle))
<1>1. IInv => (resume.at = "rearms" /\ resume.needed => MayRearm(cycle))
  BY DEF IInv, Parts, Resuming
<1> QED
  BY <1>1, Invariant, PTL
=============================================================================
