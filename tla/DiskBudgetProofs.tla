-------------------------- MODULE DiskBudgetProofs --------------------------
(***************************************************************************)
(* DiskBudget implements EntryStore, a live writer keeps its data, and the *)
(* folder stays within its limits, for every set of processes, keys and    *)
(* versions, every limit and any number of crashes.                        *)
(*                                                                         *)
(* The limit is not inductive.  A writer has been promised room it has not *)
(* used yet, while what it evicted is still in the trash: Bearable says    *)
(* that any of the writers that are about to write may do so, each once    *)
(* its own trash is gone.  RoomAhead says that what a process counts while *)
(* it makes room covers all the others, although they go on writing,       *)
(* closing and dying meanwhile.                                            *)
(***************************************************************************)
EXTENDS DiskBudget, FiniteSetTheorems, WellFoundedInduction, TLAPS
-----------------------------------------------------------------------------
(* Numbers.                                                                *)

\* The least-number principle, from the library's theorem that the natural
\* numbers are well founded.
LEMMA LeastNat ==
    ASSUME NEW S \in SUBSET Nat, S # {}
    PROVE  \E x \in S : \A y \in S : x <= y
<1> DEFINE R == OpToRel(<, Nat)
<1>1. IsWellFoundedOn(R, Nat)
  BY ONLY NatLessThanWellFounded, Zenon
<1>2. \A x, y \in Nat : <<y, x>> \in R <=> y < x
  BY Zenon DEF OpToRel
<1> HIDE DEF R
<1>3. PICK x \in S : \A y \in S : ~(<<y, x>> \in R)
  BY <1>1, WFMin
<1>4. ASSUME NEW y \in S PROVE x <= y
  <2>1. ~(y < x)
    BY <1>2, <1>3
  <2> QED
    BY <2>1
<1> QED
  BY <1>4

\* A bounded set of numbers has a largest one.
LEMMA Largest ==
    ASSUME NEW S \in SUBSET Nat, S # {}, NEW n \in Nat, \A x \in S : x <= n
    PROVE  \E x \in S : \A y \in S : y <= x
<1> DEFINE Above == {m \in Nat : \A x \in S : x <= m}
<1>1. PICK m \in Above : \A k \in Above : m <= k
  <2>1. n \in Above
    OBVIOUS
  <2> HIDE DEF Above
  <2>2. Above \in SUBSET Nat
    BY DEF Above
  <2> QED
    BY <2>1, <2>2, LeastNat
<1>2. m \in S
  <2>1. SUFFICES ASSUME m \notin S PROVE FALSE
    OBVIOUS
  <2>2. PICK x \in S : TRUE
    OBVIOUS
  <2>3. \A y \in S : y <= m - 1
    BY <1>1, <2>1
  <2>4. m - 1 \in Above
    BY <1>1, <2>2, <2>3
  <2> QED
    BY <1>1, <2>4
<1> QED
  BY <1>1, <1>2
-----------------------------------------------------------------------------
(* The invariant.                                                          *)

TypeInv ==
    /\ entries \subseteq Entry
    /\ job \in [Procs -> Jobs]
    /\ lease \in [Procs -> Entry \cup {NoEntry}]
    /\ scratch \in [Procs -> Nat]
    /\ begun \in Nat

\* What a reader holds is in the folder.
LeasesStay == \A p \in Procs : lease[p] \in entries \cup {NoEntry}

\* One process has the folder's lock.
OneInLock ==
    \A p, q \in Procs : job[p].at \in InLock /\ job[q].at \in InLock => p = q

\* There is a newest generation.
Bounded == \E n \in Nat : \A e \in entries : e.gen <= n

\* A write keeps its key, its version, what it reserved and what it wrote, and
\* the generation it is about to commit is above those that are there.
Fine(p) ==
    /\ job[p].at \in {"begin", "ready", "written", "commit"} =>
          /\ job[p].key \in Keys /\ job[p].ver \in Versions
          /\ job[p].need \in 1..MaxBytes
    /\ job[p].at \in {"written", "commit"} =>
          job[p].size \in 1..MaxBytes /\ scratch[p] = job[p].size
    /\ job[p].at = "commit" =>
          \A f \in entries : f.key = job[p].key => f.gen < job[p].gen

IInv ==
    /\ TypeInv
    /\ LeasesStay
    /\ OneInLock
    /\ Bounded
    /\ \A p \in Procs : Fine(p)
-----------------------------------------------------------------------------
(* What the steps have in common.                                          *)

\* Holding nothing is not holding an entry.
LEMMA NoEntryIsNone == NoEntry \notin Entry
  BY SizesAssumption DEF NoEntry, Entry

\* A process between two calls has a job of the right type.
LEMMA IdleIsJob == Idle \in Jobs
  BY DEF Idle, Jobs, Ats

\* Housekeeping only takes entries nobody reads.
LEMMA HousekeptSpares ==
    ASSUME NEW p \in Procs, NEW h \in Housekept(p)
    PROVE  /\ h.E \subseteq entries
           /\ \A e \in entries \ h.E : ~Leased(e)
  BY DEF Housekept, Deletable

\* The next generation of a key is above every one that is there.
LEMMA NextGenAbove ==
    ASSUME TypeInv, Bounded, NEW k
    PROVE  /\ NextGen(k, entries) \in Nat
           /\ \A f \in entries : f.key = k => f.gen < NextGen(k, entries)
<1> DEFINE gens == {0} \cup {e.gen : e \in {f \in entries : f.key = k}}
           max == CHOOSE g \in gens : \A h \in gens : h <= g
<1>1. gens \in SUBSET Nat
  BY DEF TypeInv, Entry
<1>2. PICK n \in Nat : \A e \in entries : e.gen <= n
  BY DEF Bounded
<1>3. \A g \in gens : g <= n
  BY <1>2
<1>4. \A f \in entries : f.key = k => f.gen \in gens
  OBVIOUS
<1>5. NextGen(k, entries) = 1 + max
  BY DEF NextGen
<1>6. gens # {}
  OBVIOUS
<1> HIDE DEF gens
<1>7. \E g \in gens : \A h \in gens : h <= g
  BY <1>1, <1>2, <1>3, <1>6, Largest
<1>8. max \in gens /\ \A h \in gens : h <= max
  BY <1>7
<1> HIDE DEF max
<1> QED
  BY <1>1, <1>4, <1>5, <1>8 DEF TypeInv, Entry

\* Entries that nobody reads go: that is all a reader could notice.
LEMMA Shrinks ==
    ASSUME entries' \subseteq entries,
           \A e \in entries \ entries' : ~Leased(e),
           lease' = lease
    PROVE  Store!Drops
<1> DEFINE D == entries \ entries'
<1>1. D \in SUBSET (entries \ Store!Held)
  BY DEF Store!Held, Leased
<1>2. entries' = entries \ D
  OBVIOUS
<1> QED
  BY <1>1, <1>2 DEF Store!Drops

\* Sweeping up after the dead keeps the types; the living keep what they have.
LEMMA SweptType ==
    ASSUME TypeInv
    PROVE  /\ Swept \in [Procs -> Jobs]
           /\ SweptScratch \in [Procs -> Nat]
           /\ \A q \in Procs : \/ Swept[q] = job[q] /\ SweptScratch[q] = scratch[q]
                               \/ Swept[q] = Idle
  BY IdleIsJob DEF TypeInv, Swept, SweptScratch

\* One process moves on, others at most are swept up, and the folder loses at
\* most entries that nobody reads.
LEMMA OneMoves ==
    ASSUME IInv, NEW p \in Procs,
           entries' \subseteq entries,
           \A e \in entries \ entries' : ~Leased(e),
           lease' \in [Procs -> Entry \cup {NoEntry}],
           \A q \in Procs : lease'[q] \in {lease[q], NoEntry} \cup entries',
           job' \in [Procs -> Jobs], scratch' \in [Procs -> Nat], begun' \in Nat,
           \A q \in Procs \ {p} : \/ job'[q] = job[q] /\ scratch'[q] = scratch[q]
                                  \/ job'[q] = Idle,
           job'[p].at \in InLock => job[p].at \in InLock \/ Free,
           Fine(p)'
    PROVE  IInv'
<1>1. TypeInv'
  BY DEF IInv, TypeInv
<1>2. LeasesStay'
  BY DEF IInv, LeasesStay, Leased
<1>3. OneInLock'
  <2> SUFFICES ASSUME NEW q \in Procs, NEW r \in Procs, job'[q].at \in InLock,
                      job'[r].at \in InLock
               PROVE  q = r
    BY DEF OneInLock
  <2>1. \A o \in Procs \ {p} : job'[o].at \in InLock => job[o].at \in InLock
    BY DEF Idle, InLock
  <2> QED
    BY <2>1 DEF IInv, OneInLock, Free
<1>4. Bounded'
  BY DEF IInv, Bounded
<1>5. ASSUME NEW q \in Procs PROVE Fine(q)'
  <2>1. CASE q = p
    BY <2>1
  <2>2. CASE job'[q] = Idle
    BY <2>2 DEF Fine, Idle
  <2>3. CASE job'[q] = job[q] /\ scratch'[q] = scratch[q]
    BY <2>3 DEF IInv, Fine
  <2> QED
    BY <2>1, <2>2, <2>3
<1> QED
  BY <1>1, <1>2, <1>3, <1>4, <1>5 DEF IInv

\* No process moves, and the folder loses at most entries that nobody reads.
LEMMA NobodyMoves ==
    ASSUME IInv,
           entries' \subseteq entries,
           \A e \in entries \ entries' : ~Leased(e),
           UNCHANGED <<lease, job, scratch, begun>>
    PROVE  IInv'
<1>1. TypeInv' /\ OneInLock' /\ Bounded'
  BY DEF IInv, TypeInv, OneInLock, Bounded
<1>2. LeasesStay'
  BY DEF IInv, LeasesStay, Leased
<1>3. \A p \in Procs : Fine(p)'
  BY DEF IInv, Fine
<1> QED
  BY <1>1, <1>2, <1>3 DEF IInv
-----------------------------------------------------------------------------
(* The steps of a write.                                                   *)

\* A write that is given room keeps the invariant: its job is well formed.
LEMMA BeginsInv ==
    ASSUME IInv, NEW p \in Procs, NEW k \in Keys, NEW v \in Versions, NEW n \in Sizes,
           Begins(p, k, v, n)
    PROVE  IInv'
<1> DEFINE j == [Idle EXCEPT !.at = "begin", !.key = k, !.ver = v, !.need = n, !.val = begun']
<1>1. n \in 1..MaxBytes /\ n \in Nat
  BY SizesAssumption
<1>2. begun' \in Nat
  BY DEF IInv, TypeInv, Begins
<1>3. j.at = "begin" /\ j.key = k /\ j.ver = v /\ j.need = n
  BY IdleIsJob DEF Jobs
<1>4. j \in Jobs
  <2>1. ASSUME NEW x \in Nat
        PROVE  [Idle EXCEPT !.at = "begin", !.key = k, !.ver = v, !.need = n, !.val = x] \in Jobs
    BY <1>1, IdleIsJob DEF Jobs, Ats
  <2> QED
    BY <1>2, <2>1
<1>5. job' = [Swept EXCEPT ![p] = j] /\ scratch' = SweptScratch /\ lease' = lease
  BY DEF Begins
<1>6. entries' \subseteq entries /\ \A e \in entries \ entries' : ~Leased(e)
  BY HousekeptSpares DEF Begins
<1> HIDE DEF j
<1>7. /\ job' \in [Procs -> Jobs] /\ scratch' \in [Procs -> Nat] /\ job'[p] = j
      /\ \A q \in Procs \ {p} : \/ job'[q] = job[q] /\ scratch'[q] = scratch[q]
                                \/ job'[q] = Idle
  BY <1>4, <1>5, SweptType DEF IInv
<1>8. Fine(p)'
  BY <1>1, <1>3, <1>7 DEF Fine
<1>9. Free
  BY DEF Begins
<1> QED
  BY <1>2, <1>5, <1>6, <1>7, <1>8, <1>9, OneMoves DEF IInv, TypeInv

\* A process only changes its own job and scratch folder.
LEMMA OwnMoves ==
    ASSUME IInv, NEW p \in Procs, NEW j \in Jobs, NEW n \in Nat,
           job' = [job EXCEPT ![p] = j], scratch' = [scratch EXCEPT ![p] = n],
           UNCHANGED <<entries, lease, begun>>,
           j.at \notin InLock,
           Fine(p)'
    PROVE  IInv'
<1>1. /\ job' \in [Procs -> Jobs] /\ scratch' \in [Procs -> Nat] /\ job'[p] = j
      /\ \A q \in Procs \ {p} : job'[q] = job[q] /\ scratch'[q] = scratch[q]
  BY DEF IInv, TypeInv
<1> QED
  BY <1>1, OneMoves DEF IInv, TypeInv

\* A writer notes as much as its scratch folder holds.
LEMMA WritesInv ==
    ASSUME IInv, NEW p \in Procs, Writes(p)
    PROVE  IInv'
<1>1. job[p] \in Jobs /\ job[p].at = "ready" /\ scratch \in [Procs -> Nat]
  BY DEF IInv, TypeInv, Writes, Ready
<1>2. /\ job[p].key \in Keys /\ job[p].ver \in Versions
      /\ job[p].need \in 1..MaxBytes
  BY <1>1 DEF IInv, Fine
<1>3. PICK n \in 1..job[p].need :
          /\ scratch' = [scratch EXCEPT ![p] = n]
          /\ job' = [job EXCEPT ![p].at = "written", ![p].size = n]
  BY DEF Writes
<1>4. n \in 1..MaxBytes /\ n \in Nat
  BY <1>2, <1>3, SizesAssumption
<1> DEFINE j == [job[p] EXCEPT !.at = "written", !.size = n]
<1>5. /\ j \in Jobs
      /\ j.at = "written" /\ j.size = n
      /\ j.key = job[p].key /\ j.ver = job[p].ver /\ j.need = job[p].need
  BY <1>1, <1>4 DEF Jobs, Ats
<1>6. job' = [job EXCEPT ![p] = j]
  BY <1>3 DEF IInv, TypeInv
<1> HIDE DEF j
<1>7. job'[p] = j /\ scratch'[p] = n
  BY <1>1, <1>3, <1>6 DEF IInv, TypeInv
<1>8. Fine(p)'
  BY <1>2, <1>4, <1>5, <1>7 DEF Fine
<1>9. UNCHANGED <<entries, lease, begun>>
  BY DEF Writes, folder, ghosts
<1> QED
  BY <1>3, <1>4, <1>5, <1>6, <1>8, <1>9, OwnMoves DEF InLock

\* A commit takes a generation above those that are there.
LEMMA StartsCommitInv ==
    ASSUME IInv, NEW p \in Procs, StartsCommit(p)
    PROVE  IInv'
<1>1. job[p] \in Jobs /\ job[p].at = "written" /\ Free
  BY DEF IInv, TypeInv, StartsCommit, Ready
<1>2. /\ job[p].key \in Keys /\ job[p].ver \in Versions
      /\ job[p].need \in 1..MaxBytes
      /\ job[p].size \in 1..MaxBytes /\ scratch[p] = job[p].size
  BY <1>1 DEF IInv, Fine
<1> DEFINE g == NextGen(job[p].key, entries)
           j == [job[p] EXCEPT !.at = "commit", !.gen = g]
<1>3. g \in Nat /\ \A f \in entries : f.key = job[p].key => f.gen < g
  BY NextGenAbove DEF IInv
<1>4. /\ j \in Jobs
      /\ j.at = "commit" /\ j.size = job[p].size /\ j.gen = g
      /\ j.key = job[p].key /\ j.ver = job[p].ver /\ j.need = job[p].need
  <2> HIDE DEF g
  <2> QED
    BY <1>1, <1>3 DEF Jobs, Ats
<1>5. /\ job' = [Swept EXCEPT ![p] = j] /\ scratch' = SweptScratch
      /\ UNCHANGED <<lease, begun>>
  BY DEF StartsCommit, ghosts
<1>6. entries' \subseteq entries /\ \A e \in entries \ entries' : ~Leased(e)
  BY DEF StartsCommit, Deletable
<1> HIDE DEF g, j
<1>7. /\ job' \in [Procs -> Jobs] /\ scratch' \in [Procs -> Nat] /\ job'[p] = j
      /\ \A q \in Procs \ {p} : \/ job'[q] = job[q] /\ scratch'[q] = scratch[q]
                                \/ job'[q] = Idle
  BY <1>4, <1>5, SweptType DEF IInv
<1>8. scratch'[p] = scratch[p]
  BY <1>1, <1>5 DEF SweptScratch, Dead
<1>9. Fine(p)'
  BY <1>2, <1>3, <1>4, <1>6, <1>7, <1>8 DEF Fine
<1> QED
  BY <1>1, <1>5, <1>6, <1>7, <1>9, OneMoves DEF IInv, TypeInv

\* The call ends, or is about to.
LEMMA EndsInv ==
    ASSUME IInv, NEW p \in Procs,
           NEW j \in {Idle, [job[p] EXCEPT !.at = "close"]},
           job' = [job EXCEPT ![p] = j],
           scratch' = scratch \/ scratch' = [scratch EXCEPT ![p] = 0],
           UNCHANGED <<entries, lease, begun>>
    PROVE  IInv'
<1>1. job[p] \in Jobs
  BY DEF IInv, TypeInv
<1>2. j \in Jobs /\ j.at \in {"idle", "close"}
  BY <1>1, IdleIsJob DEF Jobs, Ats, Idle
<1>3. job'[p] = j
  BY DEF IInv, TypeInv
<1>4. Fine(p)'
  BY <1>2, <1>3 DEF Fine
<1>5. PICK n \in Nat : scratch' = [scratch EXCEPT ![p] = n]
  BY DEF IInv, TypeInv
<1> QED
  BY <1>2, <1>4, <1>5, OwnMoves DEF InLock

\* A write that was given room is registered.
LEMMA RegistersInv ==
    ASSUME IInv, NEW p \in Procs, Registers(p)
    PROVE  IInv'
<1> DEFINE j == [job[p] EXCEPT !.at = "ready"]
<1>1. job[p] \in Jobs /\ job[p].at = "begin"
  BY DEF IInv, TypeInv, Registers
<1>2. /\ j \in Jobs /\ j.at = "ready"
      /\ j.key = job[p].key /\ j.ver = job[p].ver /\ j.need = job[p].need
  BY <1>1 DEF Jobs, Ats
<1>3. job' = [job EXCEPT ![p] = j] /\ UNCHANGED <<entries, scratch, lease, begun>>
  BY DEF Registers, Unlocks, folder, ghosts
<1> HIDE DEF j
<1>4. job'[p] = j
  BY <1>3 DEF IInv, TypeInv
<1>5. Fine(p)'
  BY <1>1, <1>2, <1>4 DEF IInv, Fine
<1>6. scratch' = [scratch EXCEPT ![p] = scratch[p]] /\ scratch[p] \in Nat
  BY <1>3 DEF IInv, TypeInv
<1> QED
  BY <1>2, <1>3, <1>5, <1>6, OwnMoves DEF InLock

\* What a commit renames into place is an entry.
LEMMA WrittenIsEntry ==
    ASSUME IInv, NEW p \in Procs, job[p].at = "commit"
    PROVE  Written(p) \in Entry /\ Written(p).key = job[p].key /\ Written(p).gen = job[p].gen
<1>1. job[p].gen \in Nat /\ job[p].val \in Nat
  BY DEF IInv, TypeInv, Jobs
<1>2. job[p].key \in Keys /\ job[p].ver \in Versions /\ job[p].size \in 1..MaxBytes
  BY DEF IInv, Fine
<1> QED
  BY <1>1, <1>2 DEF Written, Entry

\* The entry appears; nobody else is committing, so no generation is overtaken.
LEMMA RenamesInv ==
    ASSUME IInv, NEW p \in Procs, Renames(p)
    PROVE  IInv'
<1>1. job[p] \in Jobs /\ job[p].at = "commit"
  BY DEF IInv, TypeInv, Renames
<1> DEFINE j == [job[p] EXCEPT !.at = "close"]
<1>2. j \in Jobs /\ j.at = "close"
  BY <1>1 DEF Jobs, Ats
<1>3. /\ entries' = entries \cup {Written(p)}
      /\ job' = [job EXCEPT ![p] = j] /\ scratch' = [scratch EXCEPT ![p] = 0]
      /\ UNCHANGED <<lease, begun>>
  BY DEF Renames, Unlocks
<1> HIDE DEF j
<1>4. TypeInv'
  BY <1>1, <1>2, <1>3, WrittenIsEntry DEF IInv, TypeInv
<1>5. LeasesStay'
  BY <1>3 DEF IInv, LeasesStay
<1>6. \A q \in Procs \ {p} : job'[q] = job[q] /\ scratch'[q] = scratch[q]
  BY <1>3 DEF IInv, TypeInv
<1>7. job'[p].at = "close"
  BY <1>2, <1>3 DEF IInv, TypeInv
<1>8. \A q \in Procs : job'[q].at \notin InLock
  BY <1>1, <1>6, <1>7 DEF IInv, OneInLock, InLock
<1>9. Bounded'
  <2>1. PICK n \in Nat : \A e \in entries : e.gen <= n
    BY DEF IInv, Bounded
  <2>2. Written(p).gen \in Nat
    BY <1>1, WrittenIsEntry DEF Entry
  <2>3. \A e \in entries : e.gen \in Nat
    BY DEF IInv, TypeInv, Entry
  <2>4. n + Written(p).gen \in Nat /\ \A e \in entries' : e.gen <= n + Written(p).gen
    BY <1>3, <2>1, <2>2, <2>3
  <2> QED
    BY <2>4 DEF Bounded
<1>10. ASSUME NEW q \in Procs PROVE Fine(q)'
  <2>1. CASE q = p
    BY <1>7, <2>1 DEF Fine
  <2>2. CASE q # p
    BY <1>6, <1>8, <2>2 DEF IInv, Fine, InLock
  <2> QED
    BY <2>1, <2>2
<1> QED
  BY <1>4, <1>5, <1>8, <1>9, <1>10 DEF IInv, OneInLock
-----------------------------------------------------------------------------
(* The other steps.                                                        *)

\* Housekeeping and making room need the lock; the job is a new one.
LEMMA MaintainsInv ==
    ASSUME IInv, NEW p \in Procs, Maintains(p)
    PROVE  IInv'
<1> DEFINE j == [Idle EXCEPT !.at = "maintain"]
<1>1. j \in Jobs /\ j.at = "maintain"
  BY IdleIsJob DEF Jobs, Ats
<1>2. /\ job' = [Swept EXCEPT ![p] = j] /\ scratch' = SweptScratch /\ Free
      /\ UNCHANGED <<lease, begun>>
  BY DEF Maintains, ghosts
<1>3. entries' \subseteq entries /\ \A e \in entries \ entries' : ~Leased(e)
  BY HousekeptSpares DEF Maintains
<1> HIDE DEF j
<1>4. /\ job' \in [Procs -> Jobs] /\ scratch' \in [Procs -> Nat] /\ job'[p] = j
      /\ \A q \in Procs \ {p} : \/ job'[q] = job[q] /\ scratch'[q] = scratch[q]
                                \/ job'[q] = Idle
  BY <1>1, <1>2, SweptType DEF IInv
<1>5. Fine(p)'
  BY <1>1, <1>4 DEF Fine
<1> QED
  BY <1>2, <1>3, <1>4, <1>5, OneMoves DEF IInv, TypeInv

\* What get does to the folder, the leases and the jobs.
LEMMA GetSteps ==
    ASSUME IInv, NEW p \in Procs, NEW k \in Keys, NEW v \in Versions, Get(p, k, v)
    PROVE  /\ entries' \subseteq entries
           /\ \A e \in entries \ entries' : ~Leased(e)
           /\ \/ lease' = lease
              \/ \E e \in NewestOf(k, v) \cap entries' : lease' = [lease EXCEPT ![p] = e]
           /\ \/ job' = job /\ scratch' = scratch
              \/ job' = Swept /\ scratch' = SweptScratch
<1>1. PICK h \in Housekept(p), e \in NewestOf(k, v) :
          LET D == IF e \in expired /\ e \in h.E THEN Deletable({e}) ELSE {} IN
          /\ entries' = h.E \ D
          /\ lease' = IF e \in expired \/ e \notin h.E THEN lease
                      ELSE [lease EXCEPT ![p] = e]
          /\ IF h.due
             THEN scratch' = SweptScratch /\ job' = Swept
             ELSE UNCHANGED <<scratch, job>>
  BY DEF Get
<1>2. h.E \subseteq entries /\ \A f \in entries \ h.E : ~Leased(f)
  BY HousekeptSpares
<1>3. \A f \in Deletable({e}) : ~Leased(f)
  BY DEF Deletable
<1>4. \/ lease' = lease
      \/ e \in entries' /\ lease' = [lease EXCEPT ![p] = e]
  BY <1>1
<1>5. entries' \subseteq entries /\ \A f \in entries \ entries' : ~Leased(f)
  BY <1>1, <1>2, <1>3
<1> QED
  BY <1>1, <1>4, <1>5

\* A reader takes hold of an entry that stays.
LEMMA GetInv ==
    ASSUME IInv, NEW p \in Procs, NEW k \in Keys, NEW v \in Versions, Get(p, k, v)
    PROVE  IInv'
<1>1. job[p].at = "idle" /\ job[p] \in Jobs /\ begun' = begun
  BY DEF IInv, TypeInv, Get, Ready, ghosts
<1>2. /\ job' \in [Procs -> Jobs] /\ scratch' \in [Procs -> Nat]
      /\ \A q \in Procs : \/ job'[q] = job[q] /\ scratch'[q] = scratch[q]
                          \/ job'[q] = Idle
  BY GetSteps, SweptType DEF IInv, TypeInv
<1>3. job'[p].at = "idle"
  BY <1>1, <1>2 DEF Idle
<1>4. Fine(p)'
  BY <1>3 DEF Fine
<1>5. /\ lease' \in [Procs -> Entry \cup {NoEntry}]
      /\ \A q \in Procs : lease'[q] \in {lease[q], NoEntry} \cup entries'
  BY GetSteps DEF IInv, TypeInv, NewestOf
<1> QED
  BY <1>1, <1>2, <1>3, <1>4, <1>5, GetSteps, OneMoves DEF IInv, TypeInv, InLock

\* A reader that lets go changes nothing else.
LEMMA LetsGoInv ==
    ASSUME IInv, NEW p \in Procs, ClosesLease(p)
    PROVE  IInv'
<1>1. /\ lease' = [lease EXCEPT ![p] = NoEntry]
      /\ UNCHANGED <<entries, job, scratch, begun>>
  BY DEF ClosesLease, folder, ghosts
<1>2. /\ lease' \in [Procs -> Entry \cup {NoEntry}]
      /\ \A q \in Procs : lease'[q] \in {lease[q], NoEntry} \cup entries'
  BY <1>1 DEF IInv, TypeInv
<1>3. Fine(p)'
  BY <1>1 DEF IInv, Fine
<1> QED
  BY <1>1, <1>2, <1>3, OneMoves DEF IInv, TypeInv

\* The dead hold no lock and no lease; what they wrote is nobody's.
LEMMA CrashInv ==
    ASSUME IInv, NEW p \in Procs, Crash(p)
    PROVE  IInv'
<1> DEFINE j == IF Live(p) THEN [job[p] EXCEPT !.at = "dead"] ELSE Idle
<1>1. job[p] \in Jobs
  BY DEF IInv, TypeInv
<1>2. j \in Jobs /\ j.at \in {"dead", "idle"}
  BY <1>1, IdleIsJob DEF Jobs, Ats, Idle
<1>3. /\ job' = [job EXCEPT ![p] = j]
      /\ lease' = [lease EXCEPT ![p] = NoEntry]
      /\ UNCHANGED <<entries, scratch, begun>>
  BY DEF Crash, IInv, TypeInv
<1> HIDE DEF j
<1>4. /\ job' \in [Procs -> Jobs] /\ scratch' \in [Procs -> Nat]
      /\ job'[p].at \in {"dead", "idle"}
      /\ \A q \in Procs \ {p} : job'[q] = job[q] /\ scratch'[q] = scratch[q]
  BY <1>2, <1>3 DEF IInv, TypeInv
<1>5. /\ lease' \in [Procs -> Entry \cup {NoEntry}]
      /\ \A q \in Procs : lease'[q] \in {lease[q], NoEntry} \cup entries'
  BY <1>3 DEF IInv, TypeInv
<1>6. Fine(p)'
  BY <1>4 DEF Fine
<1> QED
  BY <1>3, <1>4, <1>5, <1>6, OneMoves DEF IInv, TypeInv, InLock

\* Claiming an abandoned folder: nobody writes, nobody reads.
LEMMA ClaimedInv ==
    ASSUME IInv, IsClaimed
    PROVE  IInv'
<1>1. /\ entries' = {} /\ job' = Swept /\ scratch' = SweptScratch
      /\ UNCHANGED <<lease, begun>>
      /\ \A p \in Procs : ~Live(p) /\ lease[p] = NoEntry
      /\ Free
  BY DEF IsClaimed, ghosts
<1>2. TypeInv'
  BY <1>1, SweptType DEF IInv, TypeInv
<1>3. LeasesStay' /\ Bounded'
  BY <1>1 DEF LeasesStay, Bounded
<1>4. \A p \in Procs : job'[p].at = "idle"
  <2> SUFFICES ASSUME NEW p \in Procs PROVE job'[p].at = "idle"
    OBVIOUS
  <2>1. job[p].at \in Ats /\ job[p].at \notin InLock /\ job[p].at \notin HasRecord \ {"dead"}
    BY <1>1 DEF IInv, TypeInv, Jobs, Free, Live
  <2>2. job[p].at = "idle" \/ Dead(p)
    BY <2>1 DEF Ats, InLock, HasRecord, Dead
  <2> QED
    BY <1>1, <2>2 DEF Swept, Dead, Idle
<1>5. OneInLock' /\ \A p \in Procs : Fine(p)'
  BY <1>4 DEF OneInLock, Fine, InLock
<1> QED
  BY <1>2, <1>3, <1>5 DEF IInv
-----------------------------------------------------------------------------
(* The invariant holds.                                                    *)

\* An empty folder satisfies the invariant.
LEMMA InitInv == Init => IInv
<1> SUFFICES ASSUME Init PROVE IInv
  OBVIOUS
<1>1. TypeInv
  BY IdleIsJob DEF Init, TypeInv
<1>2. LeasesStay /\ Bounded
  BY DEF Init, LeasesStay, Bounded
<1>3. \A p \in Procs : job[p].at = "idle"
  BY DEF Init, Idle
<1>4. OneInLock /\ \A p \in Procs : Fine(p)
  BY <1>3 DEF OneInLock, Fine, InLock
<1> QED
  BY <1>1, <1>2, <1>4 DEF IInv

\* Every step of every call keeps the invariant.
LEMMA StepInv == IInv /\ [Next]_vars => IInv'
<1> SUFFICES ASSUME IInv, [Next]_vars PROVE IInv'
  OBVIOUS
<1>1. CASE UNCHANGED vars
  BY <1>1, NobodyMoves DEF vars
<1>2. CASE Expires
  BY <1>2, NobodyMoves DEF Expires, ghosts
<1>3. CASE IsClaimed
  BY <1>3, ClaimedInv
<1>4. ASSUME NEW p \in Procs, Goes(p) PROVE IInv'
  <2>1. CASE Evicts(p)
    BY <2>1, NobodyMoves DEF Evicts, Deletable, ghosts
  <2>2. CASE RemovesTrash(p)
    BY <2>2, NobodyMoves DEF RemovesTrash, ghosts
  <2>3. CASE Registers(p)
    BY <2>3, RegistersInv
  <2>4. CASE IsRefused(p)
    BY <2>4, EndsInv DEF IsRefused, Unlocks, folder, ghosts
  <2>5. CASE Writes(p)
    BY <2>5, WritesInv
  <2>6. CASE Abandons(p)
    <3>1. job' = [job EXCEPT ![p] = [job[p] EXCEPT !.at = "close"]]
      BY <2>6 DEF Abandons, IInv, TypeInv
    <3> QED
      BY <2>6, <3>1, EndsInv DEF Abandons, folder, ghosts
  <2>7. CASE StartsCommit(p)
    BY <2>7, StartsCommitInv
  <2>8. CASE Renames(p)
    BY <2>8, RenamesInv
  <2>9. CASE IsUndone(p)
    BY <2>9, EndsInv DEF IsUndone, Unlocks, ghosts
  <2>10. CASE IsRefusedLate(p)
    BY <2>10, EndsInv DEF IsRefusedLate, Unlocks, folder
  <2>11. CASE Closes(p)
    BY <2>11, EndsInv DEF Closes, folder, ghosts
  <2>12. CASE IsMaintained(p)
    BY <2>12, EndsInv DEF IsMaintained, Unlocks, folder, ghosts
  <2> QED
    BY <1>4, <2>1, <2>2, <2>3, <2>4, <2>5, <2>6, <2>7, <2>8, <2>9, <2>10, <2>11, <2>12
       DEF Goes
<1>5. ASSUME NEW p \in Procs, NEW D, Deletes(p, Deletable(D)) PROVE IInv'
  BY <1>5, NobodyMoves DEF Deletes, Deletable, ghosts
<1>6. ASSUME NEW p \in Procs,
             \/ Crash(p) \/ ClosesLease(p) \/ Maintains(p) \/ PurgeStale(p)
             \/ \E k \in Keys : Discard(p, k)
      PROVE  IInv'
  <2>1. CASE Crash(p) \/ ClosesLease(p) \/ Maintains(p)
    BY <2>1, CrashInv, LetsGoInv, MaintainsInv
  <2>2. CASE PurgeStale(p) \/ \E k \in Keys : Discard(p, k)
    BY <1>5, <2>2 DEF PurgeStale, Discard
  <2> QED
    BY <1>6, <2>1, <2>2
<1>7. ASSUME NEW p \in Procs, NEW k \in Keys, NEW v \in Versions,
             Get(p, k, v) \/ \E n \in Sizes : Begins(p, k, v, n)
      PROVE  IInv'
  BY <1>7, GetInv, BeginsInv
<1> QED
  BY <1>1, <1>2, <1>3, <1>4, <1>6, <1>7 DEF Next

\* The invariant holds in every state of every run.
THEOREM InvHolds == Spec => []IInv
  BY InitInv, StepInv, PTL DEF Spec

\* A live writer is never reclaimed, whoever sweeps up, evicts or dies: its data
\* is there until its commit.  The property the run disk_budget checks.
THEOREM DataKept == Spec => []WritersKeepData
<1>1. IInv => WritersKeepData
  BY DEF IInv, Fine, WritersKeepData
<1> QED
  BY <1>1, InvHolds, PTL
-----------------------------------------------------------------------------
(* DiskBudget implements EntryStore.                                       *)

\* The rename is the step in which the entry appears, above all of its key.
LEMMA RenamesAdds ==
    ASSUME IInv, NEW p \in Procs, Renames(p)
    PROVE  Store!Adds
<1>1. job[p].at = "commit" /\ entries' = entries \cup {Written(p)} /\ lease' = lease
  BY DEF Renames
<1>2. \A f \in entries : f.key = job[p].key => f.gen < job[p].gen
  BY <1>1 DEF IInv, Fine
<1>3. job[p].gen \in Nat
  BY DEF IInv, TypeInv, Jobs
<1>4. Written(p) \notin entries
  BY <1>1, <1>2, <1>3, WrittenIsEntry
<1> QED
  BY <1>1, <1>2, <1>4, WrittenIsEntry DEF Store!Adds

\* A reader is given the newest entry of its key and version.
LEMMA GetTakes ==
    ASSUME IInv, NEW p \in Procs, NEW k \in Keys, NEW v \in Versions, Get(p, k, v)
    PROVE  Store!Drops \/ Store!Takes(p)
<1>1. CASE lease' = lease
  BY <1>1, GetSteps, Shrinks
<1>2. ASSUME NEW e \in NewestOf(k, v) \cap entries', lease' = [lease EXCEPT ![p] = e]
      PROVE  Store!Takes(p)
  <2> DEFINE D == entries \ entries'
  <2>1. D \in SUBSET (entries \ Store!Held) /\ entries' = entries \ D
    BY GetSteps DEF Store!Held, Leased
  <2>2. e \in entries \ D /\ lease[p] = NoEntry
    BY <1>2 DEF NewestOf, Get
  <2>3. e \in Store!Newest(e.key, e.ver)
    BY <1>2 DEF NewestOf, Superseded, Store!Newest, IInv, TypeInv, Entry
  <2> HIDE DEF D
  <2> QED
    BY <1>2, <2>1, <2>2, <2>3 DEF Store!Takes
<1> QED
  BY <1>1, <1>2, GetSteps

\* Letting go, or dying while holding.
LEMMA Releases ==
    ASSUME NEW p \in Procs, lease \in [Procs -> Entry \cup {NoEntry}],
           entries' = entries, lease' = [lease EXCEPT ![p] = NoEntry]
    PROVE  Store!LetsGo(p) \/ UNCHANGED <<entries, lease>>
<1>1. CASE lease[p] = NoEntry
  BY <1>1
<1>2. CASE lease[p] # NoEntry
  BY <1>2 DEF Store!LetsGo
<1> QED
  BY <1>1, <1>2

\* Every step is one of the store's, or nobody can notice it.
LEMMA StepRefines == IInv /\ [Next]_vars => [Store!Next]_<<entries, lease>>
<1> SUFFICES ASSUME IInv, [Next]_vars
             PROVE  Store!Next \/ UNCHANGED <<entries, lease>>
  OBVIOUS
<1>1. CASE UNCHANGED vars
  BY <1>1 DEF vars
<1>2. CASE Expires
  BY <1>2 DEF Expires
<1>3. CASE IsClaimed
  <2>1. \A e \in entries : ~Leased(e)
    BY <1>3, NoEntryIsNone DEF IsClaimed, Leased, IInv, TypeInv
  <2> QED
    BY <1>3, <2>1, Shrinks DEF IsClaimed, Store!Next
<1>4. ASSUME NEW p \in Procs, Goes(p)
      PROVE  Store!Next \/ UNCHANGED <<entries, lease>>
  <2>1. CASE Evicts(p)
    BY <2>1, Shrinks DEF Evicts, Deletable, Store!Next
  <2>2. CASE StartsCommit(p)
    BY <2>2, Shrinks DEF StartsCommit, Deletable, Store!Next
  <2>3. CASE Renames(p)
    BY <2>3, RenamesAdds DEF Store!Next
  <2>4. CASE RemovesTrash(p) \/ Registers(p) \/ IsRefused(p) \/ Writes(p) \/ Abandons(p)
    BY <2>4 DEF RemovesTrash, Registers, IsRefused, Writes, Abandons, folder
  <2>5. CASE IsUndone(p) \/ IsRefusedLate(p) \/ Closes(p) \/ IsMaintained(p)
    BY <2>5 DEF IsUndone, IsRefusedLate, Closes, IsMaintained, folder
  <2> QED
    BY <1>4, <2>1, <2>2, <2>3, <2>4, <2>5 DEF Goes
<1>5. ASSUME NEW p \in Procs, NEW D, Deletes(p, Deletable(D))
      PROVE  Store!Next
  BY <1>5, Shrinks DEF Deletes, Deletable, Store!Next
<1>6. ASSUME NEW p \in Procs, Maintains(p)
      PROVE  Store!Next
  BY <1>6, HousekeptSpares, Shrinks DEF Maintains, Store!Next
<1>7. ASSUME NEW p \in Procs, Crash(p) \/ ClosesLease(p)
      PROVE  Store!Next \/ UNCHANGED <<entries, lease>>
  BY <1>7, Releases DEF Crash, ClosesLease, folder, Store!Next, IInv, TypeInv
<1>8. ASSUME NEW p \in Procs, NEW k \in Keys, NEW v \in Versions, Get(p, k, v)
      PROVE  Store!Next
  BY <1>8, GetTakes DEF Store!Next
<1>9. ASSUME NEW p \in Procs, NEW k \in Keys, NEW v \in Versions, NEW n \in Sizes,
             Begins(p, k, v, n)
      PROVE  Store!Next
  BY <1>9, HousekeptSpares, Shrinks DEF Begins, Store!Next
<1> QED
  BY <1>1, <1>2, <1>3, <1>4, <1>5, <1>6, <1>7, <1>8, <1>9 DEF Next, PurgeStale, Discard

\* For its users the folder, with its locks, reservations, trash and crashes,
\* is the store of EntryStore: entries appear whole and as the newest of their
\* key, what is read stays, readers are given the newest there is.
THEOREM Implements == Spec => ImplementsStore
<1>1. Init => Store!Init
  BY DEF Init, Store!Init
<1> QED
  BY <1>1, StepRefines, InvHolds, PTL DEF Spec, ImplementsStore, Store!Spec
-----------------------------------------------------------------------------
(* Sums.                                                                   *)

\* The units of f are its <<x, i>> with i up to f[x].
LEMMA UnitsAre ==
    ASSUME NEW S, NEW f \in [S -> Nat]
    PROVE  /\ \A x, i : <<x, i>> \in Units(f) <=> x \in S /\ i \in 1..f[x]
           /\ \A u \in Units(f) : \E x \in S : \E i \in 1..f[x] : u = <<x, i>>
BY DEF Units

\* A sum over a finite set is a number.
LEMMA SumIsNat ==
    ASSUME NEW S, IsFiniteSet(S), NEW f \in [S -> Nat]
    PROVE  IsFiniteSet(Units(f)) /\ SumOf(f) \in Nat
<1> DEFINE Of(x) == {x} \X (1..f[x])
           R == {Of(x) : x \in S}
           g == [x \in S |-> Of(x)]
<1>1. IsFiniteSet(R)
  <2>1. g \in Surjection(S, R)
    BY DEF Surjection
  <2> HIDE DEF g, R
  <2> QED
    BY <2>1, FS_Surjection
<1>2. ASSUME NEW x \in S PROVE IsFiniteSet(Of(x))
  <2>1. IsFiniteSet({x})
    BY FS_Singleton
  <2>2. f[x] \in Int /\ 1 \in Int
    OBVIOUS
  <2>3. IsFiniteSet(1..f[x])
    BY <2>2, FS_Interval
  <2> QED
    BY <2>1, <2>3, FS_Product
<1>3. \A T \in R : IsFiniteSet(T)
  BY <1>2
<1>4. Units(f) = UNION R
  BY DEF Units
<1> HIDE DEF R
<1>5. IsFiniteSet(UNION R)
  BY <1>1, <1>3, FS_UNION
<1> QED
  BY <1>4, <1>5, FS_CardinalityType DEF SumOf

\* A sum is no larger than another one that has, for each of its summands but
\* the zeros, a summand as large.
LEMMA SumLe ==
    ASSUME NEW S, IsFiniteSet(S), NEW f \in [S -> Nat], NEW T, NEW g \in [T -> Nat],
           NEW h, \A y \in T : g[y] = 0 \/ \E x \in S : h[x] = y /\ g[y] <= f[x]
    PROVE  SumOf(g) <= SumOf(f)
<1> DEFINE U == Units(f)
           V == {<<h[u[1]], u[2]>> : u \in U}
           m == [u \in U |-> <<h[u[1]], u[2]>>]
<1>1. IsFiniteSet(U)
  BY SumIsNat
<1>2. m \in Surjection(U, V)
  BY DEF Surjection
<1>3. IsFiniteSet(V) /\ Cardinality(V) <= Cardinality(U)
  <2> HIDE DEF m, U, V
  <2> QED
    BY <1>1, <1>2, FS_Surjection
<1>4. Units(g) \subseteq V
  <2> SUFFICES ASSUME NEW v \in Units(g) PROVE v \in V
    OBVIOUS
  <2>1. PICK y \in T : \E i \in 1..g[y] : v = <<y, i>>
    BY UnitsAre
  <2>2. PICK i \in 1..g[y] : v = <<y, i>>
    BY <2>1
  <2>3. PICK x \in S : h[x] = y /\ g[y] <= f[x]
    BY <2>2
  <2>4. i \in 1..f[x]
    BY <2>2, <2>3
  <2>5. <<x, i>> \in U
    BY <2>4, UnitsAre
  <2> HIDE DEF U
  <2> QED
    BY <2>2, <2>3, <2>5
<1>5. Cardinality(Units(g)) <= Cardinality(V)
  <2> HIDE DEF V
  <2> QED
    BY <1>3, <1>4, FS_Subset
<1>6. Cardinality(U) \in Nat /\ Cardinality(V) \in Nat /\ Cardinality(Units(g)) \in Nat
  <2>1. IsFiniteSet(Units(g))
    <3> HIDE DEF V
    <3> QED
      BY <1>3, <1>4, FS_Subset
  <2> HIDE DEF U, V
  <2> QED
    BY <1>1, <1>3, <2>1, FS_CardinalityType
<1> HIDE DEF V
<1> QED
  BY <1>3, <1>5, <1>6 DEF SumOf

\* A sum over two disjoint sets is the sum of both.
LEMMA SumSplits ==
    ASSUME NEW A, IsFiniteSet(A), NEW B, IsFiniteSet(B), A \cap B = {},
           NEW f \in [A \cup B -> Nat]
    PROVE  SumOf(f) = SumOf([x \in A |-> f[x]]) + SumOf([x \in B |-> f[x]])
<1> DEFINE a == [x \in A |-> f[x]]
           b == [x \in B |-> f[x]]
<1>1. a \in [A -> Nat] /\ b \in [B -> Nat]
  OBVIOUS
<1>2. IsFiniteSet(Units(a)) /\ IsFiniteSet(Units(b))
  <2> HIDE DEF a, b
  <2> QED
    BY <1>1, SumIsNat
<1>3. Units(a) \cap Units(b) = {}
  <2> SUFFICES ASSUME NEW u \in Units(a), u \in Units(b) PROVE FALSE
    OBVIOUS
  <2> HIDE DEF a, b
  <2>1. PICK x \in A : \E i \in 1..a[x] : u = <<x, i>>
    BY <1>1, UnitsAre
  <2>2. PICK y \in B : \E i \in 1..b[y] : u = <<y, i>>
    BY <1>1, UnitsAre
  <2> QED
    BY <2>1, <2>2
<1>4. Units(f) = Units(a) \cup Units(b)
  BY DEF Units
<1>5. Cardinality(Units(f)) = Cardinality(Units(a)) + Cardinality(Units(b)) - Cardinality({})
  <2> HIDE DEF a, b
  <2> QED
    BY <1>2, <1>3, <1>4, FS_Union
<1>6. Cardinality({}) = 0 /\ Cardinality(Units(a)) \in Nat /\ Cardinality(Units(b)) \in Nat
  <2> HIDE DEF a, b
  <2> QED
    BY <1>2, FS_EmptySet, FS_CardinalityType
<1>7. SumOf(f) = SumOf(a) + SumOf(b)
  <2> HIDE DEF a, b
  <2> QED
    BY <1>5, <1>6 DEF SumOf
<1> QED
  BY <1>7

\* A sum of one.
LEMMA SumOfOne ==
    ASSUME NEW a, NEW n \in Nat
    PROVE  SumOf([x \in {a} |-> n]) = n
<1> DEFINE f == [x \in {a} |-> n]
<1>1. Units(f) = {a} \X (1..n)
  BY DEF Units
<1>2. IsFiniteSet({a}) /\ Cardinality({a}) = 1
  BY FS_Singleton
<1>3. IsFiniteSet(1..n) /\ Cardinality(1..n) = n
  <2>1. n \in Int /\ 1 \in Int
    OBVIOUS
  <2> QED
    BY <2>1, FS_Interval
<1>4. Cardinality({a} \X (1..n)) = 1 * n
  BY <1>2, <1>3, FS_Product
<1>5. SumOf(f) = n
  <2> HIDE DEF f
  <2> QED
    BY <1>1, <1>4 DEF SumOf
<1> QED
  BY <1>5

\* Nothing adds up to nothing.
LEMMA SumOfNone ==
    ASSUME NEW f, DOMAIN f = {}
    PROVE  SumOf(f) = 0
<1>1. Units(f) = {}
  BY DEF Units
<1> QED
  BY <1>1, FS_EmptySet DEF SumOf

\* A sum changes by what one summand changes.
LEMMA SumChanges ==
    ASSUME NEW S, IsFiniteSet(S), NEW f \in [S -> Nat], NEW x \in S, NEW n \in Nat
    PROVE  SumOf([f EXCEPT ![x] = n]) = SumOf(f) - f[x] + n
<1> DEFINE A == S \ {x}
           g == [f EXCEPT ![x] = n]
           r == [y \in A |-> f[y]]
<1>1. IsFiniteSet(A) /\ IsFiniteSet({x}) /\ A \cap {x} = {} /\ A \cup {x} = S
  BY FS_Difference, FS_Singleton
<1>2. g \in [S -> Nat] /\ r \in [A -> Nat]
  OBVIOUS
<1>3. SumOf(f) = SumOf([y \in A |-> f[y]]) + SumOf([y \in {x} |-> f[y]])
  <2> HIDE DEF A, g, r
  <2> QED
    BY <1>1, SumSplits
<1>4. SumOf(g) = SumOf([y \in A |-> g[y]]) + SumOf([y \in {x} |-> g[y]])
  <2> HIDE DEF A, g, r
  <2> QED
    BY <1>1, <1>2, SumSplits
<1>5. [y \in A |-> g[y]] = r /\ [y \in {x} |-> g[y]] = [y \in {x} |-> n]
      /\ [y \in {x} |-> f[y]] = [y \in {x} |-> f[x]]
  OBVIOUS
<1>6. SumOf([y \in {x} |-> n]) = n /\ SumOf([y \in {x} |-> f[x]]) = f[x]
  BY SumOfOne
<1>7. SumOf(r) \in Nat
  <2> HIDE DEF A, r
  <2> QED
    BY <1>1, <1>2, SumIsNat
<1>8. SumOf(f) = SumOf(r) + f[x] /\ SumOf(g) = SumOf(r) + n
  <2>1. SumOf(f) = SumOf(r) + f[x]
    BY <1>3, <1>5, <1>6
  <2>2. SumOf(g) = SumOf(r) + n
    <3> HIDE DEF g, r
    <3> QED
      BY <1>4, <1>5, <1>6
  <2> QED
    BY <2>1, <2>2
<1>9. SumOf(g) = SumOf(f) - f[x] + n
  <2> HIDE DEF g, r
  <2> QED
    BY <1>7, <1>8
<1> QED
  BY <1>9

\* Smaller summands, and fewer of them, add up to no more.
LEMMA SumShrinks ==
    ASSUME NEW S, IsFiniteSet(S), NEW f \in [S -> Nat], NEW T, NEW g \in [T -> Nat],
           \A x \in T : g[x] = 0 \/ (x \in S /\ g[x] <= f[x])
    PROVE  SumOf(g) <= SumOf(f)
<1> DEFINE h == [x \in S |-> x]
<1>1. \A y \in T : g[y] = 0 \/ \E x \in S : h[x] = y /\ g[y] <= f[x]
  OBVIOUS
<1> HIDE DEF h
<1> QED
  BY <1>1, SumLe
-----------------------------------------------------------------------------
(* The bytes in the folder.                                                *)

TrashOf == [entry : Entry, by : Procs \cup {NoProc}]

LEMMA EntryBytes ==
    ASSUME NEW E \in SUBSET Entry, IsFiniteSet(E)
    PROVE  Bytes(E) \in Nat /\ [e \in E |-> e.size] \in [E -> Nat]
<1>1. [e \in E |-> e.size] \in [E -> Nat]
  BY SizesAssumption DEF Entry
<1> QED
  BY <1>1, SumIsNat DEF Bytes

LEMMA TrashIsNat ==
    ASSUME NEW T \in SUBSET TrashOf, IsFiniteSet(T)
    PROVE  TrashBytes(T) \in Nat /\ [t \in T |-> t.entry.size] \in [T -> Nat]
<1>1. [t \in T |-> t.entry.size] \in [T -> Nat]
  BY SizesAssumption DEF TrashOf, Entry
<1> QED
  BY <1>1, SumIsNat DEF TrashBytes

LEMMA BytesSplit ==
    ASSUME NEW A \in SUBSET Entry, IsFiniteSet(A), NEW B \in SUBSET Entry, IsFiniteSet(B),
           A \cap B = {}
    PROVE  Bytes(A \cup B) = Bytes(A) + Bytes(B)
<1> DEFINE f == [e \in A \cup B |-> e.size]
<1>1. f \in [A \cup B -> Nat]
  BY SizesAssumption DEF Entry
<1>2. SumOf(f) = SumOf([e \in A |-> f[e]]) + SumOf([e \in B |-> f[e]])
  <2> HIDE DEF f
  <2> QED
    BY <1>1, SumSplits
<1>3. [e \in A |-> f[e]] = [e \in A |-> e.size] /\ [e \in B |-> f[e]] = [e \in B |-> e.size]
  OBVIOUS
<1> QED
  BY <1>2, <1>3 DEF Bytes

LEMMA BytesOfOne == ASSUME NEW e \in Entry PROVE Bytes({e}) = e.size
<1>1. e.size \in Nat
  BY SizesAssumption DEF Entry
<1>2. [d \in {e} |-> d.size] = [d \in {e} |-> e.size]
  OBVIOUS
<1> QED
  BY <1>1, <1>2, SumOfOne DEF Bytes

LEMMA TrashSplit ==
    ASSUME NEW A \in SUBSET TrashOf, IsFiniteSet(A), NEW B \in SUBSET TrashOf, IsFiniteSet(B),
           A \cap B = {}
    PROVE  TrashBytes(A \cup B) = TrashBytes(A) + TrashBytes(B)
<1> DEFINE f == [t \in A \cup B |-> t.entry.size]
<1>1. f \in [A \cup B -> Nat]
  BY SizesAssumption DEF TrashOf, Entry
<1>2. SumOf(f) = SumOf([t \in A |-> f[t]]) + SumOf([t \in B |-> f[t]])
  <2> HIDE DEF f
  <2> QED
    BY <1>1, SumSplits
<1>3. [t \in A |-> f[t]] = [t \in A |-> t.entry.size] /\ [t \in B |-> f[t]] = [t \in B |-> t.entry.size]
  OBVIOUS
<1> QED
  BY <1>2, <1>3 DEF TrashBytes

LEMMA TrashLe ==
    ASSUME NEW T \in SUBSET TrashOf, IsFiniteSet(T), NEW U \in SUBSET T
    PROVE  IsFiniteSet(U) /\ TrashBytes(U) <= TrashBytes(T)
<1>1. IsFiniteSet(U)
  BY FS_Subset
<1> DEFINE f == [t \in T |-> t.entry.size]
           g == [t \in U |-> t.entry.size]
<1>2. f \in [T -> Nat] /\ g \in [U -> Nat]
  BY <1>1, TrashIsNat
<1>3. \A t \in U : g[t] <= f[t]
  BY <1>2
<1>4. SumOf(g) <= SumOf(f)
  <2> HIDE DEF f, g
  <2> QED
    BY <1>2, <1>3, SumShrinks
<1> QED
  BY <1>1, <1>4 DEF TrashBytes

\* What was moved to the trash takes as much as it did.
LEMMA TrashedBytes ==
    ASSUME NEW D \in SUBSET Entry, IsFiniteSet(D), NEW p \in Procs
    PROVE  /\ Trashed(D, p) \in SUBSET TrashOf /\ IsFiniteSet(Trashed(D, p))
           /\ TrashBytes(Trashed(D, p)) <= Bytes(D)
<1> DEFINE T == Trashed(D, p)
           h == [e \in D |-> [entry |-> e, by |-> p]]
<1>1. T \in SUBSET TrashOf
  BY DEF Trashed, TrashOf
<1>2. h \in Surjection(D, T)
  BY DEF Trashed, Surjection
<1>3. IsFiniteSet(T)
  <2> HIDE DEF h, T
  <2> QED
    BY <1>2, FS_Surjection
<1> DEFINE f == [e \in D |-> e.size]
           g == [t \in T |-> t.entry.size]
<1>4. f \in [D -> Nat]
  BY EntryBytes
<1>5. g \in [T -> Nat]
  <2> HIDE DEF T
  <2> QED
    BY <1>1, <1>3, TrashIsNat
<1>6. \A t \in T : \E e \in D : h[e] = t /\ g[t] <= f[e]
  <2> SUFFICES ASSUME NEW t \in T PROVE \E e \in D : h[e] = t /\ g[t] <= f[e]
    OBVIOUS
  <2>1. t.entry \in D /\ t = [entry |-> t.entry, by |-> p]
    BY DEF Trashed
  <2>2. h[t.entry] = t
    BY <2>1
  <2>3. g[t] = f[t.entry] /\ f[t.entry] \in Nat
    BY <1>4, <2>1
  <2> HIDE DEF f, g, h, T
  <2> QED
    BY <2>1, <2>2, <2>3
<1>7. SumOf(g) <= SumOf(f)
  <2> HIDE DEF f, g, h, T
  <2> QED
    BY <1>4, <1>5, <1>6, SumLe
<1> QED
  BY <1>1, <1>3, <1>7 DEF TrashBytes, Bytes

\* The trash of p becomes nobody's.
LEMMA Disowned ==
    ASSUME NEW T \in SUBSET TrashOf, IsFiniteSet(T), NEW p \in Procs
    PROVE  LET U == {[t EXCEPT !.by = IF @ = p THEN NoProc ELSE @] : t \in T}
           IN  /\ U \in SUBSET TrashOf /\ IsFiniteSet(U)
               /\ TrashBytes(U) <= TrashBytes(T)
<1> DEFINE to(t) == [t EXCEPT !.by = IF @ = p THEN NoProc ELSE @]
           U == {to(t) : t \in T}
           h == [t \in T |-> to(t)]
<1>1. \A t \in TrashOf : to(t) \in TrashOf /\ to(t).entry = t.entry
  BY DEF TrashOf
<1> HIDE DEF to
<1>2. U \in SUBSET TrashOf
  BY <1>1
<1>3. h \in Surjection(T, U)
  BY DEF Surjection
<1>4. IsFiniteSet(U)
  <2> HIDE DEF h, U
  <2> QED
    BY <1>3, FS_Surjection
<1> DEFINE f == [t \in T |-> t.entry.size]
           g == [t \in U |-> t.entry.size]
<1>5. f \in [T -> Nat]
  BY TrashIsNat
<1>6. g \in [U -> Nat]
  <2> HIDE DEF U
  <2> QED
    BY <1>2, <1>4, TrashIsNat
<1>7. \A u \in U : \E t \in T : h[t] = u /\ g[u] <= f[t]
  <2> SUFFICES ASSUME NEW u \in U PROVE \E t \in T : h[t] = u /\ g[u] <= f[t]
    OBVIOUS
  <2>1. PICK t \in T : u = to(t)
    OBVIOUS
  <2>2. h[t] = u /\ g[u] = u.entry.size /\ f[t] = t.entry.size /\ u.entry = t.entry
    BY <1>1, <2>1
  <2> HIDE DEF f, g, h, U
  <2> QED
    BY <1>5, <2>2
<1>8. SumOf(g) <= SumOf(f)
  <2> HIDE DEF f, g, h, U
  <2> QED
    BY <1>5, <1>6, <1>7, SumLe
<1>9. U \in SUBSET TrashOf /\ IsFiniteSet(U) /\ TrashBytes(U) <= TrashBytes(T)
  BY <1>2, <1>4, <1>8 DEF TrashBytes
<1> QED
  BY <1>9 DEF to
-----------------------------------------------------------------------------
(* The invariant of the limits.                                            *)

Rooms == [total : Int, count : Int, front : SUBSET Entry, rest : SUBSET Entry]

FolderTypes ==
    /\ IsFiniteSet(entries) /\ trash \in SUBSET TrashOf /\ IsFiniteSet(trash)
    /\ room \in Rooms

\* Who holds no lock makes no room; only what is there is tried.
RoomOfOne ==
    /\ Free => room = NoRoom
    /\ room.front \cup room.rest \subseteq entries

\* Nobody writes before it has registered, nor more than it registered.
InBoundsOf(p) ==
    /\ job[p].at \in {"idle", "begin", "ready", "maintain"} => scratch[p] = 0
    /\ Live(p) => scratch[p] <= job[p].need
InBounds == \A p \in Procs : InBoundsOf(p)

\* What Q may write, and what the others have written.
Claims(Q) == [p \in Procs |-> IF p \in Q THEN job[p].need ELSE scratch[p]]
NotOf(Q) == {t \in trash : t.by \notin Q}
Load(Q) == Bytes(entries) + TrashBytes(NotOf(Q)) + SumOf(Claims(Q))

\* Whichever of those that are about to write do so, once they have removed
\* what they moved to the trash, the folder stays within its limit.
Writers == {p \in Procs : job[p].at = "ready"}
Bearable == \A Q \in SUBSET Writers : Load(Q) <= MaxBytes

\* What there would be if p and all others wrote what they asked for.
Ahead(p) == [q \in Procs |-> IF q = p \/ Live(q) THEN job[q].need ELSE scratch[q]]
LoadWith(p) == Bytes(entries) + TrashBytes(NotOf({p})) + SumOf(Ahead(p))

\* A writer that makes room counts all of that, and its own entry.
RoomAhead == \A p \in Procs : job[p].at = "begin" => LoadWith(p) <= room.total
EntryAhead == \A p \in Procs : job[p].at = "commit" => Cardinality(entries) + 1 <= room.count

Limits ==
    /\ FolderTypes /\ RoomOfOne /\ InBounds
    /\ Bearable /\ RoomAhead /\ EntryAhead
    /\ Cardinality(entries) <= MaxEntries
-----------------------------------------------------------------------------
(* What is deleted stays on the disk.                                      *)

LEMMA TrashUnion ==
    ASSUME NEW A \in SUBSET TrashOf, IsFiniteSet(A), NEW B \in SUBSET TrashOf, IsFiniteSet(B),
           NEW C \in SUBSET (A \cup B)
    PROVE  IsFiniteSet(C) /\ TrashBytes(C) <= TrashBytes(A) + TrashBytes(B)
<1> DEFINE D == B \ A
<1>1. IsFiniteSet(D) /\ D \in SUBSET TrashOf /\ TrashBytes(D) <= TrashBytes(B)
  BY TrashLe
<1>2. A \cup D = A \cup B /\ A \cap D = {}
  OBVIOUS
<1> HIDE DEF D
<1>3. IsFiniteSet(A \cup B)
  BY FS_Union
<1>4. TrashBytes(A \cup B) = TrashBytes(A) + TrashBytes(D)
  BY <1>1, <1>2, TrashSplit
<1>5. IsFiniteSet(C) /\ TrashBytes(C) <= TrashBytes(A \cup B)
  BY <1>3, TrashLe
<1>6. TrashBytes(A) \in Nat /\ TrashBytes(B) \in Nat /\ TrashBytes(D) \in Nat /\ TrashBytes(C) \in Nat
  <2>1. C \in SUBSET TrashOf
    OBVIOUS
  <2> QED
    BY <1>1, <1>5, <2>1, TrashIsNat
<1> QED
  BY <1>1, <1>4, <1>5, <1>6

\* The numbers of the invariant are numbers.
Numbers ==
    /\ Bytes(entries) \in Nat /\ Cardinality(entries) \in Nat
    /\ \A Q : TrashBytes(NotOf(Q)) \in Nat /\ IsFiniteSet(NotOf(Q)) /\ NotOf(Q) \in SUBSET TrashOf
    /\ \A Q : SumOf(Claims(Q)) \in Nat /\ Claims(Q) \in [Procs -> Nat]
    /\ \A p : SumOf(Ahead(p)) \in Nat /\ Ahead(p) \in [Procs -> Nat]

LEMMA NumbersHere == IInv /\ FolderTypes => Numbers
<1> SUFFICES ASSUME IInv, FolderTypes PROVE Numbers
  OBVIOUS
<1>1. Bytes(entries) \in Nat /\ Cardinality(entries) \in Nat
  BY EntryBytes, FS_CardinalityType DEF IInv, TypeInv, FolderTypes
<1>2. ASSUME NEW Q
      PROVE  TrashBytes(NotOf(Q)) \in Nat /\ IsFiniteSet(NotOf(Q)) /\ NotOf(Q) \in SUBSET TrashOf
  <2>1. NotOf(Q) \in SUBSET trash /\ NotOf(Q) \in SUBSET TrashOf
    BY DEF NotOf, FolderTypes
  <2>2. IsFiniteSet(NotOf(Q))
    BY <2>1, FS_Subset DEF FolderTypes
  <2> QED
    BY <2>1, <2>2, TrashIsNat
<1>3. ASSUME NEW Q PROVE SumOf(Claims(Q)) \in Nat /\ Claims(Q) \in [Procs -> Nat]
  <2>1. Claims(Q) \in [Procs -> Nat]
    BY DEF Claims, IInv, TypeInv, Jobs
  <2> QED
    BY <2>1, ProcsAssumption, SumIsNat
<1>4. ASSUME NEW p PROVE SumOf(Ahead(p)) \in Nat /\ Ahead(p) \in [Procs -> Nat]
  <2>1. Ahead(p) \in [Procs -> Nat]
    BY DEF Ahead, IInv, TypeInv, Jobs
  <2> QED
    BY <2>1, ProcsAssumption, SumIsNat
<1> QED
  BY <1>1, <1>2, <1>3, <1>4 DEF Numbers

LEMMA NumbersThere == IInv' /\ FolderTypes' => Numbers'
BY NumbersHere, PTL

\* Entries go to the trash of a process, or trash goes: the folder takes no
\* more than before, whoever's trash is left out of the count.
LEMMA Deletion ==
    ASSUME IInv, FolderTypes, NEW p \in Procs,
           entries' \subseteq entries, trash' \subseteq trash \cup Trashed(entries \ entries', p)
    PROVE  /\ IsFiniteSet(entries') /\ Cardinality(entries') <= Cardinality(entries)
           /\ trash' \in SUBSET TrashOf /\ IsFiniteSet(trash')
           /\ \A Q \in SUBSET Procs :
                 Bytes(entries') + TrashBytes(NotOf(Q)') <= Bytes(entries) + TrashBytes(NotOf(Q))
<1> DEFINE E == entries'
           D == entries \ E
<1>1. IsFiniteSet(entries) /\ entries \in SUBSET Entry /\ D \in SUBSET entries /\ E \in SUBSET entries
  BY DEF IInv, TypeInv, FolderTypes
<1>2. IsFiniteSet(E) /\ IsFiniteSet(D) /\ Cardinality(E) <= Cardinality(entries)
  BY <1>1, FS_Subset
<1>3. D \in SUBSET Entry /\ E \in SUBSET Entry /\ E \cap D = {} /\ E \cup D = entries
  BY <1>1
<1> HIDE DEF D
<1>4. Bytes(entries) = Bytes(E) + Bytes(D)
  BY <1>2, <1>3, BytesSplit
<1>5. /\ Trashed(D, p) \in SUBSET TrashOf /\ IsFiniteSet(Trashed(D, p))
      /\ TrashBytes(Trashed(D, p)) <= Bytes(D)
  BY <1>2, <1>3, TrashedBytes
<1>6. trash' \subseteq trash \cup Trashed(D, p)
  BY DEF D
<1>7. IsFiniteSet(trash') /\ trash' \in SUBSET TrashOf
  BY <1>5, <1>6, TrashUnion DEF FolderTypes
<1>8. ASSUME NEW Q \in SUBSET Procs
      PROVE  Bytes(entries') + TrashBytes(NotOf(Q)') <= Bytes(entries) + TrashBytes(NotOf(Q))
  <2>1. NotOf(Q)' \subseteq NotOf(Q) \cup Trashed(D, p)
    BY <1>6 DEF NotOf
  <2>2. IsFiniteSet(NotOf(Q)) /\ NotOf(Q) \in SUBSET TrashOf /\ TrashBytes(NotOf(Q)) \in Nat
    BY NumbersHere DEF Numbers
  <2>3. TrashBytes(NotOf(Q)') <= TrashBytes(NotOf(Q)) + TrashBytes(Trashed(D, p))
    BY <1>5, <2>1, <2>2, TrashUnion
  <2>4. TrashBytes(Trashed(D, p)) \in Nat /\ Bytes(D) \in Nat /\ Bytes(E) \in Nat
    BY <1>2, <1>3, <1>5, TrashIsNat, EntryBytes
  <2>5. TrashBytes(NotOf(Q)') \in Nat
    <3>1. NotOf(Q)' \in SUBSET trash'
      BY DEF NotOf
    <3>2. IsFiniteSet(NotOf(Q)') /\ NotOf(Q)' \in SUBSET TrashOf
      BY <1>7, <3>1, FS_Subset
    <3> QED
      BY <3>2, TrashIsNat
  <2> QED
    BY <1>4, <1>5, <2>2, <2>3, <2>4, <2>5
<1> QED
  BY <1>2, <1>7, <1>8

\* Nobody new is about to write, nobody writes, and the folder takes no more.
LEMMA BearableKept ==
    ASSUME IInv, IInv', Limits, FolderTypes',
           \A Q \in SUBSET Writers' :
               Bytes(entries') + TrashBytes(NotOf(Q)') <= Bytes(entries) + TrashBytes(NotOf(Q)),
           \A q \in Procs : scratch'[q] <= scratch[q],
           Writers' \subseteq Writers, \A q \in Writers' : job'[q].need = job[q].need
    PROVE  Bearable'
<1> SUFFICES ASSUME NEW Q \in SUBSET Writers' PROVE Load(Q)' <= MaxBytes
  BY DEF Bearable
<1>1. Claims(Q)' \in [Procs -> Nat] /\ Claims(Q) \in [Procs -> Nat]
  BY NumbersHere, NumbersThere DEF Limits, Numbers
<1>2. \A q \in Procs : Claims(Q)'[q] <= Claims(Q)[q]
  <2>1. \A q \in Procs : job[q].need \in Nat /\ scratch[q] \in Nat /\ scratch'[q] \in Nat
    BY DEF IInv, TypeInv, Jobs
  <2> QED
    BY <2>1 DEF Claims
<1>3. SumOf(Claims(Q)') <= SumOf(Claims(Q))
  BY <1>1, <1>2, ProcsAssumption, SumShrinks
<1>4. Load(Q) <= MaxBytes
  BY DEF Limits, Bearable
<1>5. /\ Bytes(entries) \in Nat /\ TrashBytes(NotOf(Q)) \in Nat /\ SumOf(Claims(Q)) \in Nat
      /\ Bytes(entries') \in Nat /\ TrashBytes(NotOf(Q)') \in Nat /\ SumOf(Claims(Q)') \in Nat
  BY NumbersHere, NumbersThere DEF Limits, Numbers
<1>6. /\ Load(Q) = Bytes(entries) + TrashBytes(NotOf(Q)) + SumOf(Claims(Q))
      /\ Load(Q)' = Bytes(entries') + TrashBytes(NotOf(Q)') + SumOf(Claims(Q)')
  BY DEF Load
<1>7. Bytes(entries') + TrashBytes(NotOf(Q)') <= Bytes(entries) + TrashBytes(NotOf(Q))
  OBVIOUS
<1> QED
  BY <1>3, <1>4, <1>5, <1>6, <1>7, SizesAssumption
-----------------------------------------------------------------------------
(* The room being made.                                                    *)

\* Nobody has the lock.
LEMMA LockLeft ==
    ASSUME \A q \in Procs : job'[q].at \notin InLock, room' = NoRoom
    PROVE  RoomOfOne' /\ RoomAhead' /\ EntryAhead'
BY DEF RoomOfOne, RoomAhead, EntryAhead, NoRoom, InLock

\* Another process moves than the one that makes room, and not into the lock.
LEMMA LockElsewhere ==
    ASSUME IInv, IInv', Limits, FolderTypes', NEW p \in Procs,
           room' = room, entries' = entries,
           \A q \in Procs \ {p} :
               /\ job'[q] = job[q] /\ scratch'[q] = scratch[q]
               /\ TrashBytes(NotOf({q})') <= TrashBytes(NotOf({q}))
               /\ Ahead(q)'[p] <= Ahead(q)[p],
           job[p].at \notin InLock, job'[p].at \notin InLock
    PROVE  RoomOfOne' /\ RoomAhead' /\ EntryAhead'
<1>1. \A q \in Procs : job'[q].at \in InLock => q # p /\ job'[q] = job[q]
  OBVIOUS
<1>2. RoomOfOne'
  <2>1. Free' => Free
    BY <1>1 DEF Free
  <2> QED
    BY <2>1 DEF Limits, RoomOfOne
<1>3. EntryAhead'
  BY <1>1 DEF Limits, EntryAhead, InLock
<1>4. ASSUME NEW q \in Procs, job'[q].at = "begin" PROVE LoadWith(q)' <= room'.total
  <2>1. q # p /\ job[q].at = "begin"
    BY <1>1, <1>4 DEF InLock
  <2>2. Ahead(q)' \in [Procs -> Nat] /\ Ahead(q) \in [Procs -> Nat]
    BY NumbersHere, NumbersThere DEF Limits, Numbers
  <2>3. \A r \in Procs \ {p} : Ahead(q)'[r] = Ahead(q)[r]
    BY DEF Ahead, Live
  <2>4. ASSUME NEW r \in Procs PROVE Ahead(q)'[r] <= Ahead(q)[r]
    <3>1. CASE r = p
      BY <2>1, <3>1
    <3>2. CASE r # p
      <4>1. Ahead(q)[r] \in Nat
        BY <2>2
      <4> QED
        BY <2>3, <3>2, <4>1
    <3> QED
      BY <3>1, <3>2
  <2>5. SumOf(Ahead(q)') <= SumOf(Ahead(q))
    BY <2>2, <2>4, ProcsAssumption, SumShrinks
  <2>6. LoadWith(q) <= room.total
    BY <2>1 DEF Limits, RoomAhead
  <2>7. /\ Bytes(entries) \in Nat /\ TrashBytes(NotOf({q})) \in Nat /\ SumOf(Ahead(q)) \in Nat
        /\ TrashBytes(NotOf({q})') \in Nat /\ SumOf(Ahead(q)') \in Nat
    BY NumbersHere, NumbersThere DEF Limits, Numbers
  <2>8. /\ LoadWith(q) = Bytes(entries) + TrashBytes(NotOf({q})) + SumOf(Ahead(q))
        /\ LoadWith(q)' = Bytes(entries) + TrashBytes(NotOf({q})') + SumOf(Ahead(q)')
    BY DEF LoadWith
  <2>9. TrashBytes(NotOf({q})') <= TrashBytes(NotOf({q})) /\ room.total \in Int
    BY <2>1 DEF Limits, FolderTypes, Rooms
  <2> QED
    BY <2>5, <2>6, <2>7, <2>8, <2>9
<1> QED
  BY <1>2, <1>3, <1>4 DEF RoomAhead

\* What the others reserved is a number.
LEMMA ReservedIsNat ==
    ASSUME IInv, NEW p
    PROVE  /\ Reserved(p) \in Nat /\ Cardinality(Others(p)) \in Nat
           /\ [q \in Others(p) |-> job[q].need] \in [Others(p) -> Nat]
           /\ IsFiniteSet(Others(p))
<1>1. Others(p) \in SUBSET Procs
  BY DEF Others
<1>2. IsFiniteSet(Others(p))
  BY <1>1, ProcsAssumption, FS_Subset
<1>3. [q \in Others(p) |-> job[q].need] \in [Others(p) -> Nat]
  BY <1>1 DEF IInv, TypeInv, Jobs
<1> QED
  BY <1>2, <1>3, SumIsNat, FS_CardinalityType DEF Reserved

\* The room a process starts to make.
LEMMA MakingRoom ==
    ASSUME IInv, NEW p \in Procs, NEW E \in SUBSET Entry, IsFiniteSet(E),
           NEW T \in SUBSET TrashOf, IsFiniteSet(T), NEW need \in Nat, NEW n \in Nat, NEW first,
           room' = Making(E, T, Reserved(p), need, n, first)
    PROVE  /\ room' \in Rooms
           /\ room'.front \cup room'.rest \subseteq E
           /\ room'.total = Bytes(E) + Reserved(p) + need + TrashBytes(T)
           /\ room'.count = Cardinality(E) + n
<1>1. Bytes(E) \in Nat /\ TrashBytes(T) \in Nat /\ Cardinality(E) \in Nat /\ Reserved(p) \in Nat
  BY EntryBytes, TrashIsNat, FS_CardinalityType, ReservedIsNat
<1> QED
  BY <1>1 DEF Making, Total, Count, Rooms

\* The process that begins to write counts all there may be.
LEMMA CountsAll ==
    ASSUME IInv, NEW p \in Procs, NEW n \in Nat, InBounds, Free,
           \A q \in Procs \ {p} : job'[q] = Swept[q] /\ scratch'[q] = SweptScratch[q],
           job'[p].need = n, IInv', FolderTypes'
    PROVE  SumOf(Ahead(p)') <= Reserved(p) + n
<1> DEFINE O == Others(p)
           S == O \cup {p}
           f == [q \in S |-> IF q = p THEN n ELSE job[q].need]
           a == [q \in O |-> f[q]]
           b == [q \in {p} |-> f[q]]
<1>1. /\ IsFiniteSet(O) /\ IsFiniteSet({p}) /\ O \cap {p} = {} /\ O \subseteq Procs
      /\ Reserved(p) \in Nat
  BY ReservedIsNat, FS_Singleton DEF Others
<1>2. f \in [S -> Nat]
  BY <1>1 DEF IInv, TypeInv, Jobs
<1>3. IsFiniteSet(S)
  <2> HIDE DEF O
  <2> QED
    BY <1>1, FS_Union
<1>4. SumOf(f) = SumOf(a) + SumOf(b)
  <2> HIDE DEF O, f
  <2> QED
    BY <1>1, <1>2, SumSplits
<1>5. a = [q \in O |-> job[q].need] /\ b = [q \in {p} |-> n]
  BY <1>1
<1>6. SumOf(f) = Reserved(p) + n
  <2>1. SumOf(b) = n
    <3>1. SumOf([q \in {p} |-> n]) = n
      BY SumOfOne
    <3> HIDE DEF b
    <3> QED
      BY <1>5, <3>1
  <2>2. SumOf(a) = Reserved(p)
    BY <1>5 DEF Reserved
  <2> HIDE DEF a, b, f
  <2> QED
    BY <1>4, <2>1, <2>2
<1>7. Ahead(p)' \in [Procs -> Nat]
  BY NumbersThere DEF Numbers
<1>8. ASSUME NEW q \in Procs
      PROVE  Ahead(p)'[q] = 0 \/ (q \in S /\ Ahead(p)'[q] <= f[q])
  <2>1. CASE q = p
    BY <2>1, <1>2 DEF Ahead
  <2>2. CASE q \in O
    <3>1. q # p /\ job'[q] = job[q]
      BY <2>2 DEF Others, Live, Swept, Dead
    <3>2. Ahead(p)'[q] = job[q].need /\ f[q] = job[q].need /\ job[q].need \in Nat
      BY <2>2, <3>1 DEF Ahead, Others, Live, IInv, TypeInv, Jobs
    <3> QED
      BY <2>2, <3>2
  <2>3. CASE q # p /\ q \notin O
    <3>1. ~Live(q) /\ job[q] \in Jobs
      BY <2>3 DEF Others, IInv, TypeInv
    <3>2. CASE Dead(q)
      <4>1. job'[q] = Idle /\ scratch'[q] = 0
        BY <2>3, <3>2 DEF Swept, SweptScratch
      <4> QED
        BY <2>3, <4>1 DEF Ahead, Live, Idle, HasRecord
    <3>3. CASE ~Dead(q)
      <4>1. job'[q] = job[q] /\ scratch'[q] = scratch[q]
        BY <2>3, <3>3 DEF Swept, SweptScratch
      <4>2. job[q].at \in {"idle", "begin", "maintain"}
        BY <3>1, <3>3 DEF Live, HasRecord, Dead, Jobs, Ats, Free, InLock
      <4>3. scratch[q] = 0
        BY <4>2 DEF InBounds, InBoundsOf
      <4> QED
        BY <2>3, <3>1, <4>1, <4>3 DEF Ahead, Live
    <3> QED
      BY <3>2, <3>3
  <2> QED
    BY <2>1, <2>2, <2>3
<1>9. SumOf(Ahead(p)') <= SumOf(f)
  <2> HIDE DEF f, S
  <2> QED
    BY <1>2, <1>3, <1>7, <1>8, SumShrinks
<1> QED
  BY <1>6, <1>9
-----------------------------------------------------------------------------
(* The steps.                                                              *)

\* A process moves on, others at most are swept up.
LEMMA InBoundsKept ==
    ASSUME IInv, InBounds, NEW p \in Procs, InBoundsOf(p)',
           \A q \in Procs \ {p} : \/ job'[q] = job[q] /\ scratch'[q] = scratch[q]
                                  \/ job'[q] = Idle /\ scratch'[q] = 0
    PROVE  InBounds'
<1> SUFFICES ASSUME NEW q \in Procs PROVE InBoundsOf(q)'
  BY DEF InBounds
<1>1. CASE q = p
  BY <1>1
<1>2. CASE q # p /\ job'[q] = job[q] /\ scratch'[q] = scratch[q]
  BY <1>2 DEF InBounds, InBoundsOf, Live
<1>3. CASE job'[q] = Idle /\ scratch'[q] = 0
  BY <1>3 DEF InBoundsOf, Live, Idle, HasRecord
<1> QED
  BY <1>1, <1>2, <1>3

LEMMA SweptOthers ==
    ASSUME IInv, InBounds
    PROVE  \A q \in Procs : \/ Swept[q] = job[q] /\ SweptScratch[q] = scratch[q]
                            \/ Swept[q] = Idle /\ SweptScratch[q] = 0
BY DEF Swept, SweptScratch

\* Nobody writes and nobody is about to who was not; entries may go.
LEMMA Lighter ==
    ASSUME IInv, IInv', Limits, NEW p \in Procs,
           entries' \subseteq entries, trash' \subseteq trash \cup Trashed(entries \ entries', p),
           room' \in Rooms,
           \A q \in Procs : scratch'[q] <= scratch[q],
           \A q \in Procs : job'[q].at = "ready" => job[q].at = "ready" /\ job'[q].need = job[q].need
    PROVE  FolderTypes' /\ Bearable' /\ Cardinality(entries') <= MaxEntries
<1>1. /\ IsFiniteSet(entries') /\ Cardinality(entries') <= Cardinality(entries)
      /\ trash' \in SUBSET TrashOf /\ IsFiniteSet(trash')
      /\ \A Q \in SUBSET Procs :
            Bytes(entries') + TrashBytes(NotOf(Q)') <= Bytes(entries) + TrashBytes(NotOf(Q))
  BY Deletion DEF Limits
<1>2. FolderTypes'
  BY <1>1 DEF FolderTypes
<1>3. Cardinality(entries') \in Nat /\ Cardinality(entries) \in Nat
  BY <1>2, NumbersHere, NumbersThere DEF Numbers, Limits
<1>4. Writers' \subseteq Writers /\ \A q \in Writers' : job'[q].need = job[q].need
  BY DEF Writers
<1>5. \A Q \in SUBSET Writers' : Q \in SUBSET Procs
  BY DEF Writers
<1>6. Bearable'
  BY <1>1, <1>2, <1>4, <1>5, BearableKept
<1> QED
  BY <1>1, <1>2, <1>3, <1>6, EntriesAssumption DEF Limits

\* A process takes the lock: others are swept up, entries may go.
LEMMA LockTaken ==
    ASSUME IInv, IInv', Limits, NEW p \in Procs, NEW j, NEW need \in Nat, NEW n \in Nat, NEW first,
           Free, entries' \subseteq entries,
           trash' \subseteq trash \cup Trashed(entries \ entries', p),
           job' = [Swept EXCEPT ![p] = j], scratch' = SweptScratch, j.at \in InLock,
           room' = Making(entries', trash', Reserved(p), need, n, first),
           InBoundsOf(p)',
           j.at = "begin" => j.need = need,
           j.at = "commit" => n >= 1
    PROVE  Limits'
<1>1. /\ IsFiniteSet(entries') /\ entries' \in SUBSET Entry
      /\ trash' \in SUBSET TrashOf /\ IsFiniteSet(trash')
  BY Deletion DEF Limits, IInv, TypeInv
<1>2. /\ room' \in Rooms /\ room'.front \cup room'.rest \subseteq entries'
      /\ room'.total = Bytes(entries') + Reserved(p) + need + TrashBytes(trash')
      /\ room'.count = Cardinality(entries') + n
  BY <1>1, MakingRoom
<1>3. job'[p] = j /\ \A q \in Procs \ {p} : job'[q] = Swept[q] /\ scratch'[q] = SweptScratch[q]
  BY DEF Swept
<1>4. \A q \in Procs \ {p} : \/ job'[q] = job[q] /\ scratch'[q] = scratch[q]
                             \/ job'[q] = Idle /\ scratch'[q] = 0
  BY <1>3, SweptOthers DEF Limits
<1>5. InBounds'
  BY <1>4, InBoundsKept DEF Limits
<1>6. \A q \in Procs : scratch'[q] <= scratch[q]
  BY SweptOthers DEF IInv, TypeInv, Limits
<1>7. \A q \in Procs : job'[q].at = "ready" => job[q].at = "ready" /\ job'[q].need = job[q].need
  BY <1>3, <1>4 DEF Idle, InLock
<1>8. FolderTypes' /\ Bearable' /\ Cardinality(entries') <= MaxEntries
  BY <1>2, <1>6, <1>7, Lighter
<1>9. \A q \in Procs : job'[q].at \in InLock => q = p
  BY <1>3, <1>4 DEF Free, Idle, InLock
<1>10. RoomOfOne'
  BY <1>2, <1>3 DEF RoomOfOne, Free
<1>11. EntryAhead'
  <2> SUFFICES ASSUME NEW q \in Procs, job'[q].at = "commit"
               PROVE  Cardinality(entries') + 1 <= room'.count
    BY DEF EntryAhead
  <2>1. q = p
    BY <1>9 DEF InLock
  <2>2. Cardinality(entries') \in Nat
    BY <1>8, NumbersThere DEF Numbers
  <2> QED
    BY <1>2, <1>3, <2>1, <2>2
<1>12. RoomAhead'
  <2> SUFFICES ASSUME NEW q \in Procs, job'[q].at = "begin" PROVE LoadWith(q)' <= room'.total
    BY DEF RoomAhead
  <2>1. q = p /\ job'[p].need = need
    BY <1>3, <1>9 DEF InLock
  <2>2. SumOf(Ahead(p)') <= Reserved(p) + need
    BY <1>3, <1>8, <2>1, CountsAll DEF Limits
  <2>3. NotOf({p})' \in SUBSET trash'
    BY DEF NotOf
  <2>4. TrashBytes(NotOf({p})') <= TrashBytes(trash') /\ TrashBytes(trash') \in Nat
    BY <1>1, <2>3, TrashLe, TrashIsNat
  <2>5. /\ Bytes(entries') \in Nat /\ TrashBytes(NotOf({p})') \in Nat /\ SumOf(Ahead(p)') \in Nat
        /\ Reserved(p) \in Nat
    BY <1>8, NumbersThere, ReservedIsNat DEF Numbers
  <2>6. LoadWith(p)' = Bytes(entries') + TrashBytes(NotOf({p})') + SumOf(Ahead(p)')
    BY DEF LoadWith
  <2> QED
    BY <1>2, <2>1, <2>2, <2>4, <2>5, <2>6
<1> QED
  BY <1>5, <1>8, <1>10, <1>11, <1>12 DEF Limits

\* Housekeeping only moves entries to the trash, or empties it.
LEMMA HousekeptMoves ==
    ASSUME NEW p \in Procs, NEW h \in Housekept(p)
    PROVE  h.E \subseteq entries /\ h.T \subseteq trash \cup Trashed(entries \ h.E, p)
<1>1. CASE h.E = entries /\ h.T = trash
  BY <1>1
<1>2. ASSUME NEW D, D \subseteq entries, h.E = entries \ D, h.T = Trashed(D, p)
      PROVE  h.E \subseteq entries /\ h.T \subseteq trash \cup Trashed(entries \ h.E, p)
  <2>1. entries \ h.E = D
    BY <1>2
  <2> QED
    BY <1>2, <2>1
<1>3. \A g : Deletable(Removable(entries, g)) \subseteq entries
  BY DEF Deletable, Removable, DeadEntries
<1> QED
  BY <1>1, <1>2, <1>3 DEF Housekept

LEMMA BeginsLimits ==
    ASSUME IInv, IInv', Limits, NEW p \in Procs, NEW k \in Keys, NEW v \in Versions, NEW n \in Sizes,
           Begins(p, k, v, n)
    PROVE  Limits'
<1> DEFINE j == [Idle EXCEPT !.at = "begin", !.key = k, !.ver = v, !.need = n, !.val = begun']
<1>1. PICK h \in Housekept(p) :
          /\ entries' = h.E /\ trash' = h.T
          /\ room' = Making(h.E, h.T, Reserved(p), n, Cardinality(Others(p)) + 1,
                            DeadEntries(h.E) \cup {e \in h.E : e.key = k})
  BY DEF Begins
<1>2. entries' \subseteq entries /\ trash' \subseteq trash \cup Trashed(entries \ entries', p)
  BY <1>1, HousekeptMoves
<1>3. /\ job' = [Swept EXCEPT ![p] = j] /\ scratch' = SweptScratch /\ Free
      /\ j.at = "begin" /\ j.need = n /\ job[p].at = "idle"
  BY DEF Begins, Ready, Idle
<1>4. n \in Nat /\ Cardinality(Others(p)) + 1 \in Nat
  BY SizesAssumption, ReservedIsNat
<1> HIDE DEF j
<1>5. scratch'[p] = 0 /\ job'[p] = j
  BY <1>3, SweptOthers DEF Limits, InBounds, InBoundsOf, Swept
<1>6. InBoundsOf(p)'
  BY <1>3, <1>5 DEF InBoundsOf, Live, HasRecord
<1>7. room' = Making(entries', trash', Reserved(p), n, Cardinality(Others(p)) + 1,
                     DeadEntries(entries') \cup {e \in entries' : e.key = k})
  BY <1>1
<1> QED
  BY <1>2, <1>3, <1>4, <1>6, <1>7, LockTaken DEF InLock

LEMMA StartsCommitLimits ==
    ASSUME IInv, IInv', Limits, NEW p \in Procs, StartsCommit(p)
    PROVE  Limits'
<1> DEFINE j == [job[p] EXCEPT !.at = "commit", !.gen = NextGen(job[p].key, entries)]
           n == Cardinality(Others(p)) + 1
<1>1. job[p].at = "written" /\ job[p] \in Jobs /\ Free
  BY DEF StartsCommit, Ready, IInv, TypeInv
<1>2. entries' \subseteq entries /\ trash' = trash \cup Trashed(entries \ entries', p)
  <2> DEFINE D == Deletable({e \in entries : e.key = job[p].key})
  <2>1. D \subseteq entries /\ entries' = entries \ D /\ trash' = trash \cup Trashed(D, p)
    BY DEF StartsCommit, Deletable
  <2>2. entries \ entries' = D
    BY <2>1
  <2> HIDE DEF D
  <2> QED
    BY <2>1, <2>2
<1>3. job' = [Swept EXCEPT ![p] = j] /\ scratch' = SweptScratch /\ j.at = "commit" /\ j.need = job[p].need
  BY <1>1 DEF StartsCommit, Jobs
<1>4. job[p].size \in Nat /\ job[p].need \in Nat /\ n \in Nat /\ n >= 1
  BY <1>1, ReservedIsNat DEF Jobs
<1>5. room' = Making(entries', trash', Reserved(p), job[p].size, n, DeadEntries(entries))
  BY DEF StartsCommit
<1> HIDE DEF j, n
<1>6. scratch'[p] = scratch[p] /\ job'[p] = j
  BY <1>1, <1>3 DEF SweptScratch, Swept, Dead
<1>7. scratch[p] <= job[p].need
  BY <1>1 DEF Limits, InBounds, InBoundsOf, Live, HasRecord
<1>8. InBoundsOf(p)'
  BY <1>3, <1>6, <1>7 DEF InBoundsOf
<1> QED
  BY <1>1, <1>2, <1>3, <1>4, <1>5, <1>8, LockTaken DEF InLock

LEMMA MaintainsLimits ==
    ASSUME IInv, IInv', Limits, NEW p \in Procs, Maintains(p)
    PROVE  Limits'
<1> DEFINE j == [Idle EXCEPT !.at = "maintain"]
<1>1. PICK h \in Housekept(p) :
          /\ entries' = h.E /\ trash' = h.T
          /\ room' = Making(h.E, h.T, Reserved(p), 0, Cardinality(Others(p)), DeadEntries(h.E))
  BY DEF Maintains
<1>2. entries' \subseteq entries /\ trash' \subseteq trash \cup Trashed(entries \ entries', p)
  BY <1>1, HousekeptMoves
<1>3. /\ job' = [Swept EXCEPT ![p] = j] /\ scratch' = SweptScratch /\ Free
      /\ j.at = "maintain" /\ job[p].at = "idle"
  BY DEF Maintains, Ready, Idle
<1>4. Cardinality(Others(p)) \in Nat
  BY ReservedIsNat
<1> HIDE DEF j
<1>5. scratch'[p] = 0 /\ job'[p] = j
  BY <1>3, SweptOthers DEF Limits, InBounds, InBoundsOf, Swept
<1>6. InBoundsOf(p)'
  BY <1>3, <1>5 DEF InBoundsOf, Live, HasRecord
<1>7. room' = Making(entries', trash', Reserved(p), 0, Cardinality(Others(p)), DeadEntries(entries'))
  BY <1>1
<1> QED
  BY <1>2, <1>3, <1>4, <1>6, <1>7, LockTaken DEF InLock

\* A process gives the lock back, and nothing else happens.
LEMMA LockReturned ==
    ASSUME IInv, IInv', Limits, NEW p \in Procs, NEW j, job[p].at \in InLock,
           UNCHANGED <<entries, trash, scratch>>, room' = NoRoom,
           job' = [job EXCEPT ![p] = j], j.at \notin InLock, j.at # "ready",
           InBoundsOf(p)'
    PROVE  Limits'
<1>1. job'[p] = j /\ \A q \in Procs \ {p} : job'[q] = job[q]
  BY DEF IInv, TypeInv
<1>2. \A q \in Procs : job'[q].at \notin InLock
  BY <1>1 DEF IInv, OneInLock
<1>3. RoomOfOne' /\ RoomAhead' /\ EntryAhead'
  BY <1>2, LockLeft
<1>4. InBounds'
  BY <1>1, InBoundsKept DEF Limits
<1>5. room' \in Rooms
  BY DEF NoRoom, Rooms
<1>6. FolderTypes' /\ Bearable' /\ Cardinality(entries') <= MaxEntries
  <2>1. \A q \in Procs : scratch'[q] <= scratch[q]
    BY DEF IInv, TypeInv
  <2> QED
    BY <1>1, <1>5, <2>1, Lighter
<1> QED
  BY <1>3, <1>4, <1>6 DEF Limits

LEMMA RefusedLimits ==
    ASSUME IInv, IInv', Limits, NEW p \in Procs, IsRefused(p) \/ IsRefusedLate(p) \/ IsMaintained(p)
    PROVE  Limits'
<1>1. UNCHANGED <<entries, trash, scratch>> /\ room' = NoRoom /\ job[p].at \in InLock
  BY DEF IsRefused, IsRefusedLate, IsMaintained, Unlocks, folder, InLock
<1>2. CASE IsRefused(p) \/ IsMaintained(p)
  <2>1. job' = [job EXCEPT ![p] = Idle] /\ job[p].at \in {"begin", "maintain"}
    BY <1>2 DEF IsRefused, IsMaintained, Unlocks
  <2>2. job'[p] = Idle /\ scratch'[p] = 0
    BY <1>1, <2>1 DEF IInv, TypeInv, Limits, InBounds, InBoundsOf
  <2>3. InBoundsOf(p)'
    BY <2>2 DEF InBoundsOf, Live, Idle, HasRecord
  <2>4. Idle.at \notin InLock /\ Idle.at # "ready"
    BY DEF Idle, InLock
  <2> QED
    BY <1>1, <2>1, <2>3, <2>4, LockReturned
<1>3. CASE IsRefusedLate(p)
  <2> DEFINE j == [job[p] EXCEPT !.at = "close"]
  <2>1. job' = [job EXCEPT ![p] = j] /\ job[p].at = "commit" /\ job[p] \in Jobs
    BY <1>3 DEF IsRefusedLate, Unlocks, IInv, TypeInv
  <2>2. j.at = "close" /\ j.need = job[p].need
    BY <2>1 DEF Jobs
  <2> HIDE DEF j
  <2>3. job'[p] = j
    BY <2>1 DEF IInv, TypeInv
  <2>4. InBoundsOf(p)'
    BY <1>1, <2>1, <2>2, <2>3 DEF Limits, InBounds, InBoundsOf, Live, HasRecord
  <2>5. j.at \notin InLock /\ j.at # "ready"
    BY <2>2 DEF InLock
  <2> QED
    BY <1>1, <2>1, <2>4, <2>5, LockReturned
<1> QED
  BY <1>2, <1>3

\* An entry goes to the trash, or is read and stays.
LEMMA EvictsLimits ==
    ASSUME IInv, IInv', Limits, NEW p \in Procs, Evicts(p)
    PROVE  Limits'
<1>1. PICK e \in IF room.front # {} THEN room.front ELSE room.rest :
          /\ room' = [room EXCEPT
                !.front = room.front \ {e},
                !.rest = room.rest \ {e},
                !.total = IF Leased(e) THEN room.total ELSE room.total - e.size,
                !.count = IF Leased(e) THEN room.count ELSE room.count - 1]
          /\ entries' = entries \ Deletable({e})
          /\ trash' = trash \cup Trashed(Deletable({e}), p)
  BY DEF Evicts, Tried, Limits, FolderTypes, Rooms
<1>2. job[p].at \in InLock /\ UNCHANGED <<scratch, job>>
  BY DEF Evicts
<1>3. room \in Rooms /\ e \in entries /\ e \in Entry /\ e.size \in Nat
  BY <1>1, SizesAssumption DEF Limits, FolderTypes, RoomOfOne, IInv, TypeInv, Entry
<1>4. room' \in Rooms
  <2>1. /\ room.total \in Int /\ room.total - e.size \in Int
        /\ room.count \in Int /\ room.count - 1 \in Int
        /\ room.front \ {e} \in SUBSET Entry /\ room.rest \ {e} \in SUBSET Entry
    BY <1>3 DEF Rooms
  <2>2. CASE Leased(e)
    BY <1>1, <1>3, <2>1, <2>2 DEF Rooms
  <2>3. CASE ~Leased(e)
    BY <1>1, <1>3, <2>1, <2>3 DEF Rooms
  <2> QED
    BY <2>2, <2>3
<1>5. entries' \subseteq entries /\ entries \ entries' = Deletable({e})
  BY <1>1, <1>3 DEF Deletable
<1>6. FolderTypes' /\ Bearable' /\ Cardinality(entries') <= MaxEntries
  <2>1. \A q \in Procs : scratch'[q] <= scratch[q]
    BY <1>2 DEF IInv, TypeInv
  <2>2. trash' \subseteq trash \cup Trashed(entries \ entries', p)
    BY <1>1, <1>5
  <2> QED
    BY <1>2, <1>4, <1>5, <2>1, <2>2, Lighter
<1>7. InBounds'
  BY <1>2 DEF Limits, InBounds, InBoundsOf, Live
<1>8. RoomOfOne'
  <2>1. ~Free'
    BY <1>2 DEF Free
  <2>2. room'.front = room.front \ {e} /\ room'.rest = room.rest \ {e}
    BY <1>1, <1>3 DEF Rooms
  <2>3. Deletable({e}) \subseteq {e}
    BY DEF Deletable
  <2> QED
    BY <1>1, <2>1, <2>2, <2>3 DEF RoomOfOne, Limits
<1>9. CASE Leased(e)
  <2>1. Deletable({e}) = {} /\ Trashed({}, p) = {}
    BY <1>9 DEF Deletable, Trashed
  <2>2. entries' = entries /\ trash' = trash
    BY <1>1, <2>1
  <2>3. room'.total = room.total /\ room'.count = room.count
    BY <1>1, <1>3, <1>9 DEF Rooms
  <2>4. RoomAhead' /\ EntryAhead'
    BY <1>2, <2>2, <2>3 DEF Limits, RoomAhead, EntryAhead, LoadWith, NotOf, Ahead, Live
  <2> QED
    BY <1>6, <1>7, <1>8, <2>4 DEF Limits
<1>10. CASE ~Leased(e)
  <2>1. Deletable({e}) = {e}
    BY <1>10 DEF Deletable
  <2>2. entries' = entries \ {e} /\ \A t \in trash' : t \in trash \/ t.by = p
    BY <1>1, <2>1 DEF Trashed
  <2>3. room'.total = room.total - e.size /\ room'.count = room.count - 1
        /\ room.total \in Int /\ room.count \in Int
    BY <1>1, <1>3, <1>10 DEF Rooms
  <2>4. IsFiniteSet(entries') /\ IsFiniteSet({e}) /\ entries' \in SUBSET Entry
        /\ IsFiniteSet(entries) /\ entries' \cap {e} = {} /\ entries' \cup {e} = entries
    BY <1>3, <1>6, <2>2, FS_Singleton DEF FolderTypes, IInv, TypeInv, Limits
  <2>5. Bytes(entries) = Bytes(entries') + e.size
    BY <1>3, <2>4, BytesSplit, BytesOfOne
  <2>6. Cardinality(entries) = Cardinality(entries') + 1
    <3>1. Cardinality(entries') = Cardinality(entries) - 1 /\ Cardinality(entries) \in Nat
      BY <1>3, <2>2, <2>4, FS_RemoveElement, FS_CardinalityType
    <3> QED
      BY <3>1
  <2>7. EntryAhead'
    <3> SUFFICES ASSUME NEW q \in Procs, job'[q].at = "commit"
                 PROVE  Cardinality(entries') + 1 <= room'.count
      BY DEF EntryAhead
    <3>1. Cardinality(entries) + 1 <= room.count
      BY <1>2 DEF Limits, EntryAhead
    <3>2. Cardinality(entries') \in Nat
      BY <2>4, FS_CardinalityType
    <3> QED
      BY <2>3, <2>6, <3>1, <3>2
  <2>8. RoomAhead'
    <3> SUFFICES ASSUME NEW q \in Procs, job'[q].at = "begin" PROVE LoadWith(q)' <= room'.total
      BY DEF RoomAhead
    <3>1. q = p
      BY <1>2 DEF IInv, OneInLock, InLock
    <3>2. NotOf({p})' \in SUBSET NotOf({p})
      BY <2>2 DEF NotOf
    <3>3. TrashBytes(NotOf({p})') <= TrashBytes(NotOf({p}))
      BY <3>2, NumbersHere, TrashLe DEF Limits, Numbers
    <3>4. Ahead(p)' = Ahead(p)
      BY <1>2 DEF Ahead, Live
    <3>5. LoadWith(p) <= room.total
      BY <1>2, <3>1 DEF Limits, RoomAhead
    <3>6. /\ Bytes(entries') \in Nat /\ TrashBytes(NotOf({p})) \in Nat /\ SumOf(Ahead(p)) \in Nat
          /\ TrashBytes(NotOf({p})') \in Nat
      BY <1>6, NumbersHere, NumbersThere DEF Limits, Numbers
    <3>7. /\ LoadWith(p) = Bytes(entries) + TrashBytes(NotOf({p})) + SumOf(Ahead(p))
          /\ LoadWith(p)' = Bytes(entries') + TrashBytes(NotOf({p})') + SumOf(Ahead(p))
      BY <3>4 DEF LoadWith
    <3> QED
      BY <1>3, <2>3, <2>5, <3>1, <3>3, <3>5, <3>6, <3>7
  <2> QED
    BY <1>6, <1>7, <1>8, <2>7, <2>8 DEF Limits
<1> QED
  BY <1>9, <1>10

\* A process moves outside the lock and writes nothing.
LEMMA MovesOutside ==
    ASSUME IInv, IInv', Limits, NEW p \in Procs, NEW j \in Jobs, NEW n \in 0..scratch[p],
           entries' = entries, trash' \subseteq trash, room' = room,
           job' = [job EXCEPT ![p] = j], scratch' = [scratch EXCEPT ![p] = n],
           job[p].at \notin InLock, j.at \notin InLock,
           j.at = "ready" => j = job[p],
           Live(p)' => Live(p) /\ j.need = job[p].need,
           InBoundsOf(p)'
    PROVE  Limits'
<1>1. job'[p] = j /\ scratch'[p] = n /\ \A q \in Procs \ {p} : job'[q] = job[q] /\ scratch'[q] = scratch[q]
  BY DEF IInv, TypeInv
<1>2. scratch[p] \in Nat /\ job[p].need \in Nat /\ n \in Nat /\ n <= scratch[p]
  BY DEF IInv, TypeInv, Jobs
<1>3. \A q \in Procs : scratch'[q] <= scratch[q]
  BY <1>1, <1>2 DEF IInv, TypeInv
<1>4. FolderTypes' /\ Bearable' /\ Cardinality(entries') <= MaxEntries
  <2>1. room' \in Rooms
    BY DEF Limits, FolderTypes
  <2>2. \A q \in Procs : job'[q].at = "ready" => job[q].at = "ready" /\ job'[q].need = job[q].need
    BY <1>1
  <2> QED
    BY <1>3, <2>1, <2>2, Lighter
<1>5. InBounds'
  BY <1>1, InBoundsKept DEF Limits
<1>6. ASSUME NEW q \in Procs \ {p}
      PROVE  TrashBytes(NotOf({q})') <= TrashBytes(NotOf({q})) /\ Ahead(q)'[p] <= Ahead(q)[p]
  <2>1. NotOf({q})' \in SUBSET NotOf({q})
    BY DEF NotOf
  <2>2. TrashBytes(NotOf({q})') <= TrashBytes(NotOf({q}))
    BY <2>1, NumbersHere, TrashLe DEF Limits, Numbers
  <2>3. CASE Live(p)'
    BY <1>1, <1>2, <2>2, <2>3 DEF Ahead
  <2>4. CASE ~Live(p)'
    <3>1. Ahead(q)'[p] = n
      BY <1>1, <2>4 DEF Ahead
    <3>2. Live(p) => scratch[p] <= job[p].need
      BY DEF Limits, InBounds, InBoundsOf
    <3>3. Ahead(q)[p] = IF Live(p) THEN job[p].need ELSE scratch[p]
      BY DEF Ahead
    <3> QED
      BY <1>2, <2>2, <3>1, <3>2, <3>3
  <2> QED
    BY <2>3, <2>4
<1>7. RoomOfOne' /\ RoomAhead' /\ EntryAhead'
  BY <1>1, <1>4, <1>6, LockElsewhere
<1> QED
  BY <1>4, <1>5, <1>7 DEF Limits

LEMMA OutsideLimits ==
    ASSUME IInv, IInv', Limits, NEW p \in Procs, RemovesTrash(p) \/ Abandons(p) \/ Closes(p)
    PROVE  Limits'
<1>1. job[p] \in Jobs /\ scratch[p] \in Nat
  BY DEF IInv, TypeInv
<1>2. CASE RemovesTrash(p)
  <2>1. /\ entries' = entries /\ trash' \subseteq trash /\ room' = room
        /\ job' = [job EXCEPT ![p] = job[p]] /\ scratch' = [scratch EXCEPT ![p] = scratch[p]]
        /\ job[p].at \notin InLock
    BY <1>2 DEF RemovesTrash, IInv, TypeInv
  <2>2. job' = job /\ scratch' = scratch
    BY <1>2 DEF RemovesTrash
  <2>3. InBoundsOf(p)' /\ (Live(p)' => Live(p))
    BY <2>2 DEF Limits, InBounds, InBoundsOf, Live
  <2>4. scratch[p] \in 0..scratch[p]
    BY <1>1
  <2> QED
    BY <1>1, <2>1, <2>3, <2>4, MovesOutside
<1>3. CASE Abandons(p)
  <2> DEFINE j == [job[p] EXCEPT !.at = "close"]
  <2>1. /\ entries' = entries /\ trash' \subseteq trash /\ room' = room
        /\ job' = [job EXCEPT ![p] = j] /\ scratch' = [scratch EXCEPT ![p] = scratch[p]]
        /\ job[p].at \in {"ready", "written"}
    BY <1>3 DEF Abandons, Ready, folder, IInv, TypeInv
  <2>2. j \in Jobs /\ j.at = "close" /\ j.need = job[p].need
    BY <1>1 DEF Jobs, Ats
  <2>3. scratch' = scratch
    BY <1>3 DEF Abandons
  <2> HIDE DEF j
  <2>4. job'[p] = j
    BY <2>1 DEF IInv, TypeInv
  <2>5. Live(p) /\ scratch[p] <= job[p].need
    BY <2>1 DEF Limits, InBounds, InBoundsOf, Live, HasRecord
  <2>6. InBoundsOf(p)'
    BY <2>2, <2>3, <2>4, <2>5 DEF InBoundsOf
  <2>7. scratch[p] \in 0..scratch[p] /\ job[p].at \notin InLock /\ j.at \notin InLock /\ j.at # "ready"
    BY <1>1, <2>1, <2>2 DEF InLock
  <2> QED
    BY <2>1, <2>2, <2>5, <2>6, <2>7, MovesOutside
<1>4. CASE Closes(p)
  <2>1. /\ entries' = entries /\ trash' \subseteq trash /\ room' = room
        /\ job' = [job EXCEPT ![p] = Idle] /\ scratch' = [scratch EXCEPT ![p] = 0]
        /\ job[p].at = "close"
    BY <1>4 DEF Closes, Ready, folder
  <2>2. job'[p] = Idle /\ scratch'[p] = 0
    BY <2>1 DEF IInv, TypeInv
  <2>3. InBoundsOf(p)' /\ ~Live(p)'
    BY <2>2 DEF InBoundsOf, Live, HasRecord, Idle
  <2>4. 0 \in 0..scratch[p] /\ job[p].at \notin InLock /\ Idle.at \notin InLock /\ Idle.at # "ready"
    BY <1>1, <2>1 DEF InLock, Idle
  <2> QED
    BY <2>1, <2>3, <2>4, IdleIsJob, MovesOutside
<1> QED
  BY <1>2, <1>3, <1>4

\* With its own trash gone, a writer may write what it reserved.
LEMMA WritesLimits ==
    ASSUME IInv, IInv', Limits, NEW p \in Procs, Writes(p)
    PROVE  Limits'
<1>1. job[p] \in Jobs /\ job[p].at = "ready" /\ NoTrash(p) /\ UNCHANGED <<entries, trash, room>>
  BY DEF IInv, TypeInv, Writes, Ready, folder
<1>2. PICK n \in 1..job[p].need :
          /\ scratch' = [scratch EXCEPT ![p] = n]
          /\ job' = [job EXCEPT ![p].at = "written", ![p].size = n]
  BY DEF Writes
<1> DEFINE j == [job[p] EXCEPT !.at = "written", !.size = n]
<1>3. job' = [job EXCEPT ![p] = j]
  BY <1>2 DEF IInv, TypeInv
<1>4. job[p].need \in Nat /\ n \in Nat /\ n <= job[p].need
  BY <1>1, <1>2 DEF Jobs
<1>5. j.at = "written" /\ j.need = job[p].need
  BY <1>1 DEF Jobs
<1> HIDE DEF j
<1>6. job'[p] = j /\ scratch'[p] = n /\ \A q \in Procs \ {p} : job'[q] = job[q] /\ scratch'[q] = scratch[q]
  BY <1>2, <1>3 DEF IInv, TypeInv
<1>7. Live(p) /\ Live(p)'
  BY <1>1, <1>5, <1>6 DEF Live, HasRecord
<1>8. InBounds'
  <2>1. InBoundsOf(p)'
    BY <1>4, <1>5, <1>6 DEF InBoundsOf
  <2> QED
    BY <1>6, <2>1, InBoundsKept DEF Limits
<1>9. FolderTypes' /\ Cardinality(entries') <= MaxEntries
  BY <1>1 DEF Limits, FolderTypes
<1>10. RoomOfOne' /\ RoomAhead' /\ EntryAhead'
  <2>1. \A q \in Procs : NotOf({q})' = NotOf({q})
    BY <1>1 DEF NotOf
  <2>2. \A q \in Procs : TrashBytes(NotOf({q})') <= TrashBytes(NotOf({q}))
    BY <2>1, NumbersHere DEF Limits, Numbers
  <2>3. \A q \in Procs \ {p} : Ahead(q)'[p] <= Ahead(q)[p]
    BY <1>4, <1>5, <1>6, <1>7 DEF Ahead
  <2>4. job[p].at \notin InLock /\ job'[p].at \notin InLock
    BY <1>1, <1>5, <1>6 DEF InLock
  <2> QED
    BY <1>1, <1>6, <1>9, <2>2, <2>3, <2>4, LockElsewhere
<1>11. Bearable'
  <2> SUFFICES ASSUME NEW Q \in SUBSET Writers' PROVE Load(Q)' <= MaxBytes
    BY DEF Bearable
  <2>1. p \notin Q /\ Q \subseteq Writers
    BY <1>5, <1>6 DEF Writers
  <2> DEFINE R == Q \cup {p}
  <2>2. R \in SUBSET Writers
    BY <1>1, <2>1 DEF Writers
  <2>3. NotOf(Q)' = NotOf(R)
    BY <1>1 DEF NotOf, NoTrash
  <2>4. Claims(Q)' \in [Procs -> Nat] /\ Claims(R) \in [Procs -> Nat]
    BY <1>9, NumbersHere, NumbersThere DEF Limits, Numbers
  <2>5. \A q \in Procs : Claims(Q)'[q] <= Claims(R)[q]
    <3> SUFFICES ASSUME NEW q \in Procs PROVE Claims(Q)'[q] <= Claims(R)[q]
      OBVIOUS
    <3>1. job[q].need \in Nat /\ scratch[q] \in Nat
      BY DEF IInv, TypeInv, Jobs
    <3>2. CASE q = p
      BY <1>4, <1>6, <2>1, <3>2 DEF Claims
    <3>3. CASE q # p
      BY <1>6, <3>1, <3>3 DEF Claims
    <3> QED
      BY <3>2, <3>3
  <2>6. SumOf(Claims(Q)') <= SumOf(Claims(R))
    BY <2>4, <2>5, ProcsAssumption, SumShrinks
  <2>7. Load(R) <= MaxBytes
    BY <2>2 DEF Limits, Bearable
  <2>8. /\ Bytes(entries) \in Nat /\ TrashBytes(NotOf(R)) \in Nat /\ SumOf(Claims(R)) \in Nat
        /\ SumOf(Claims(Q)') \in Nat
    BY <1>9, NumbersHere, NumbersThere DEF Limits, Numbers
  <2>9. /\ Load(R) = Bytes(entries) + TrashBytes(NotOf(R)) + SumOf(Claims(R))
        /\ Load(Q)' = Bytes(entries) + TrashBytes(NotOf(R)) + SumOf(Claims(Q)')
    BY <1>1, <2>3 DEF Load
  <2> HIDE DEF R
  <2> QED
    BY <2>6, <2>7, <2>8, <2>9, SizesAssumption
<1> QED
  BY <1>8, <1>9, <1>10, <1>11 DEF Limits

\* The room that was found covers all that others may write.
LEMMA RegistersLimits ==
    ASSUME IInv, IInv', Limits, NEW p \in Procs, Registers(p)
    PROVE  Limits'
<1> DEFINE j == [job[p] EXCEPT !.at = "ready"]
<1>1. /\ job[p] \in Jobs /\ job[p].at = "begin" /\ UNCHANGED <<entries, trash, scratch>>
      /\ room' = NoRoom /\ job' = [job EXCEPT ![p] = j] /\ room.total <= MaxBytes
  BY DEF IInv, TypeInv, Registers, Unlocks, Fits, folder
<1>2. j.at = "ready" /\ j.need = job[p].need
  BY <1>1 DEF Jobs
<1> HIDE DEF j
<1>3. job'[p] = j /\ \A q \in Procs \ {p} : job'[q] = job[q]
  BY <1>1 DEF IInv, TypeInv
<1>4. InBounds'
  <2>1. scratch[p] = 0
    BY <1>1 DEF Limits, InBounds, InBoundsOf
  <2>2. job[p].need \in Nat
    BY <1>1 DEF Jobs
  <2>3. InBoundsOf(p)'
    BY <1>1, <1>2, <1>3, <2>1, <2>2 DEF InBoundsOf
  <2> QED
    BY <1>1, <1>3, <2>3, InBoundsKept DEF Limits
<1>5. RoomOfOne' /\ RoomAhead' /\ EntryAhead'
  <2>1. \A q \in Procs : job'[q].at \notin InLock
    BY <1>1, <1>2, <1>3 DEF IInv, OneInLock, InLock
  <2> QED
    BY <1>1, <2>1, LockLeft
<1>6. FolderTypes' /\ Cardinality(entries') <= MaxEntries
  BY <1>1 DEF Limits, FolderTypes, NoRoom, Rooms
<1>7. ASSUME NEW Q \in SUBSET Writers' PROVE Load(Q)' <= MaxBytes
  <2>1. Q \subseteq Writers \cup {p} /\ Q \subseteq Procs
    BY <1>3 DEF Writers
  <2>2. NotOf(Q)' = NotOf(Q) /\ Claims(Q)' = Claims(Q)
    <3>1. \A q \in Procs : job'[q].need = job[q].need
      BY <1>2, <1>3
    <3> QED
      BY <1>1, <3>1 DEF NotOf, Claims
  <2>3. Load(Q)' = Load(Q)
    BY <1>1, <2>2 DEF Load
  <2>4. CASE p \notin Q
    BY <2>1, <2>3, <2>4 DEF Limits, Bearable
  <2>5. CASE p \in Q
    <3>1. NotOf(Q) \in SUBSET NotOf({p})
      BY <2>5 DEF NotOf
    <3>2. TrashBytes(NotOf(Q)) <= TrashBytes(NotOf({p}))
      BY <3>1, NumbersHere, TrashLe DEF Limits, Numbers
    <3>3. Claims(Q) \in [Procs -> Nat] /\ Ahead(p) \in [Procs -> Nat]
      BY NumbersHere DEF Limits, Numbers
    <3>4. \A q \in Procs : Claims(Q)[q] <= Ahead(p)[q]
      <4> SUFFICES ASSUME NEW q \in Procs PROVE Claims(Q)[q] <= Ahead(p)[q]
        OBVIOUS
      <4>1. job[q].need \in Nat /\ scratch[q] \in Nat
        BY DEF IInv, TypeInv, Jobs
      <4>2. q \in Q => q = p \/ Live(q)
        BY <2>1 DEF Writers, Live, HasRecord
      <4>3. Live(q) => scratch[q] <= job[q].need
        BY DEF Limits, InBounds, InBoundsOf
      <4> QED
        BY <2>5, <4>1, <4>2, <4>3 DEF Claims, Ahead
    <3>5. SumOf(Claims(Q)) <= SumOf(Ahead(p))
      BY <3>3, <3>4, ProcsAssumption, SumShrinks
    <3>6. LoadWith(p) <= room.total
      BY <1>1 DEF Limits, RoomAhead
    <3>7. /\ Bytes(entries) \in Nat /\ TrashBytes(NotOf(Q)) \in Nat /\ SumOf(Claims(Q)) \in Nat
          /\ TrashBytes(NotOf({p})) \in Nat /\ SumOf(Ahead(p)) \in Nat /\ room.total \in Int
      BY NumbersHere DEF Limits, Numbers, FolderTypes, Rooms
    <3>8. /\ Load(Q) = Bytes(entries) + TrashBytes(NotOf(Q)) + SumOf(Claims(Q))
          /\ LoadWith(p) = Bytes(entries) + TrashBytes(NotOf({p})) + SumOf(Ahead(p))
      BY DEF Load, LoadWith
    <3> QED
      BY <1>1, <2>3, <3>2, <3>5, <3>6, <3>7, <3>8, SizesAssumption
  <2> QED
    BY <2>4, <2>5
<1> QED
  BY <1>4, <1>5, <1>6, <1>7 DEF Limits, Bearable

\* What was written changes from scratch folder to entry, or to trash.
LEMMA CommitsLimits ==
    ASSUME IInv, IInv', Limits, NEW p \in Procs, Renames(p) \/ IsUndone(p)
    PROVE  Limits'
<1> DEFINE j == [job[p] EXCEPT !.at = "close"]
           w == Written(p)
           t == [entry |-> w, by |-> p]
<1>1. /\ job[p] \in Jobs /\ job[p].at = "commit" /\ room' = NoRoom
      /\ job' = [job EXCEPT ![p] = j] /\ scratch' = [scratch EXCEPT ![p] = 0]
      /\ room.count <= MaxEntries
  BY DEF IInv, TypeInv, Renames, IsUndone, Unlocks, Fits
<1>2. j.at = "close" /\ j.need = job[p].need /\ job[p].need \in Nat
  BY <1>1 DEF Jobs
<1>3. w \in Entry /\ w.size = job[p].size /\ w.size \in Nat /\ scratch[p] = w.size
  <2>1. w \in Entry
    BY <1>1, WrittenIsEntry
  <2>2. job[p].size \in 1..MaxBytes /\ scratch[p] = job[p].size
    BY <1>1 DEF IInv, Fine
  <2>3. w.size = job[p].size
    BY DEF Written
  <2> HIDE DEF w
  <2> QED
    BY <2>1, <2>2, <2>3, SizesAssumption
<1> HIDE DEF j, w
<1>4. t \in TrashOf /\ t.entry = w
  BY <1>3 DEF TrashOf
<1>5. \/ entries' = entries \cup {w} /\ trash' = trash
      \/ entries' = entries /\ trash' = trash \cup {t}
  BY DEF Renames, IsUndone, Trashed, w
<1> HIDE DEF t
<1>6. job'[p] = j /\ scratch'[p] = 0 /\ \A q \in Procs \ {p} : job'[q] = job[q] /\ scratch'[q] = scratch[q]
  BY <1>1 DEF IInv, TypeInv
<1>7. InBounds'
  <2>1. InBoundsOf(p)'
    BY <1>2, <1>6 DEF InBoundsOf
  <2> QED
    BY <1>6, <2>1, InBoundsKept DEF Limits
<1>8. RoomOfOne' /\ RoomAhead' /\ EntryAhead'
  <2>1. \A q \in Procs : job'[q].at \notin InLock
    BY <1>1, <1>2, <1>6 DEF IInv, OneInLock, InLock
  <2> QED
    BY <1>1, <2>1, LockLeft
<1>9. Numbers /\ IsFiniteSet(entries) /\ IsFiniteSet(trash) /\ trash \in SUBSET TrashOf
      /\ entries \in SUBSET Entry /\ room.count \in Int
  BY NumbersHere DEF Limits, FolderTypes, Rooms, IInv, TypeInv
<1>10. FolderTypes' /\ Cardinality(entries') <= MaxEntries
  <2>1. Cardinality(entries) + 1 <= MaxEntries /\ Cardinality(entries) \in Nat
    BY <1>1, <1>9, EntriesAssumption DEF Limits, EntryAhead, Numbers
  <2>2. /\ IsFiniteSet(entries \cup {w})
        /\ Cardinality(entries \cup {w}) = IF w \in entries THEN Cardinality(entries) ELSE Cardinality(entries) + 1
    BY <1>9, FS_AddElement
  <2>3. IsFiniteSet(trash \cup {t})
    BY <1>9, FS_AddElement
  <2>4. NoRoom \in Rooms
    BY DEF NoRoom, Rooms
  <2>5. Cardinality(entries') <= MaxEntries /\ IsFiniteSet(entries') /\ IsFiniteSet(trash')
    <3>1. Cardinality(entries \cup {w}) <= MaxEntries /\ Cardinality(entries) <= MaxEntries
      BY <2>1, <2>2, EntriesAssumption
    <3> QED
      BY <1>5, <1>9, <2>2, <2>3, <3>1
  <2> QED
    BY <1>1, <1>4, <1>5, <1>9, <2>4, <2>5 DEF FolderTypes
<1>11. Numbers'
  BY <1>10, NumbersThere
<1>12. ASSUME NEW Q \in SUBSET Writers' PROVE Load(Q)' <= MaxBytes
  <2>1. p \notin Q /\ Q \in SUBSET Writers
    BY <1>2, <1>6 DEF Writers
  <2>2. Claims(Q)' = [Claims(Q) EXCEPT ![p] = 0] /\ Claims(Q)[p] = scratch[p]
    BY <1>1, <1>6, <2>1 DEF Claims, IInv, TypeInv
  <2>3. Claims(Q) \in [Procs -> Nat]
    BY <1>9 DEF Numbers
  <2>4. SumOf(Claims(Q)') = SumOf(Claims(Q)) - w.size
    <3>1. SumOf([Claims(Q) EXCEPT ![p] = 0]) = SumOf(Claims(Q)) - Claims(Q)[p] + 0
      <4>1. \A n \in Nat : SumOf([Claims(Q) EXCEPT ![p] = n]) = SumOf(Claims(Q)) - Claims(Q)[p] + n
        BY <2>3, ProcsAssumption, SumChanges
      <4> QED
        BY <4>1
    <3>2. SumOf(Claims(Q)) \in Nat
      BY <1>9 DEF Numbers
    <3> QED
      BY <1>3, <2>2, <3>1, <3>2
  <2>5. Bytes(entries') + TrashBytes(NotOf(Q)') <= Bytes(entries) + TrashBytes(NotOf(Q)) + w.size
    <3>1. CASE entries' = entries \cup {w} /\ trash' = trash
      <4>1. NotOf(Q)' = NotOf(Q)
        BY <3>1 DEF NotOf
      <4>2. CASE w \in entries
        <5>1. entries' = entries
          BY <3>1, <4>2
        <5> QED
          BY <1>3, <1>9, <4>1, <5>1 DEF Numbers
      <4>3. CASE w \notin entries
        <5>1. entries \cap {w} = {} /\ IsFiniteSet({w}) /\ {w} \in SUBSET Entry
          BY <1>3, <4>3, FS_Singleton
        <5>2. Bytes(entries') = Bytes(entries) + Bytes({w})
          BY <1>9, <3>1, <5>1, BytesSplit
        <5>3. Bytes({w}) = w.size
          BY <1>3, BytesOfOne
        <5> QED
          BY <1>3, <1>9, <4>1, <5>2, <5>3 DEF Numbers
      <4> QED
        BY <4>2, <4>3
    <3>2. CASE entries' = entries /\ trash' = trash \cup {t}
      <4>1. NotOf(Q)' \in SUBSET (NotOf(Q) \cup {t})
        BY <3>2 DEF NotOf
      <4>2. IsFiniteSet({t}) /\ {t} \in SUBSET TrashOf
        BY <1>4, FS_Singleton
      <4>3. TrashBytes(NotOf(Q)') <= TrashBytes(NotOf(Q)) + TrashBytes({t})
        BY <1>9, <4>1, <4>2, TrashUnion DEF Numbers
      <4>4. TrashBytes({t}) = w.size
        <5>1. [u \in {t} |-> u.entry.size] = [u \in {t} |-> w.size]
          BY <1>4
        <5>2. SumOf([u \in {t} |-> w.size]) = w.size
          BY <1>3, SumOfOne
        <5> QED
          BY <5>1, <5>2 DEF TrashBytes
      <4> QED
        BY <1>3, <1>9, <1>11, <3>2, <4>3, <4>4 DEF Numbers
    <3> QED
      BY <1>5, <3>1, <3>2
  <2>6. Load(Q) <= MaxBytes
    BY <2>1 DEF Limits, Bearable
  <2>7. /\ Bytes(entries) \in Nat /\ TrashBytes(NotOf(Q)) \in Nat /\ SumOf(Claims(Q)) \in Nat
        /\ Bytes(entries') \in Nat /\ TrashBytes(NotOf(Q)') \in Nat
    BY <1>9, <1>11 DEF Numbers
  <2>8. /\ Load(Q) = Bytes(entries) + TrashBytes(NotOf(Q)) + SumOf(Claims(Q))
        /\ Load(Q)' = Bytes(entries') + TrashBytes(NotOf(Q)') + SumOf(Claims(Q)')
    BY DEF Load
  <2> QED
    BY <1>3, <2>4, <2>5, <2>6, <2>7, <2>8, SizesAssumption
<1> QED
  BY <1>7, <1>8, <1>10, <1>12 DEF Limits, Bearable

\* Nobody has the lock, before or after.
LEMMA FreeLimits ==
    ASSUME IInv, IInv', Limits, NEW p \in Procs,
           Free, entries' \subseteq entries,
           trash' \subseteq trash \cup Trashed(entries \ entries', p), room' = room,
           \A q \in Procs : \/ job'[q] = job[q] /\ scratch'[q] = scratch[q]
                            \/ job'[q] = Idle /\ scratch'[q] = 0
    PROVE  Limits'
<1>1. room' = NoRoom /\ room' \in Rooms
  BY DEF Limits, RoomOfOne, NoRoom, Rooms
<1>2. \A q \in Procs : job'[q].at \notin InLock
  BY DEF Free, Idle, InLock
<1>3. RoomOfOne' /\ RoomAhead' /\ EntryAhead'
  BY <1>1, <1>2, LockLeft
<1>4. \A q \in Procs : scratch'[q] <= scratch[q]
  BY DEF IInv, TypeInv
<1>5. \A q \in Procs : job'[q].at = "ready" => job[q].at = "ready" /\ job'[q].need = job[q].need
  BY DEF Idle
<1>6. FolderTypes' /\ Bearable' /\ Cardinality(entries') <= MaxEntries
  BY <1>1, <1>4, <1>5, Lighter
<1>7. InBoundsOf(p)'
  BY DEF Limits, InBounds, InBoundsOf, Live, Idle, HasRecord
<1>8. InBounds'
  BY <1>7, InBoundsKept DEF Limits
<1> QED
  BY <1>3, <1>6, <1>8 DEF Limits

LEMMA GetLimits ==
    ASSUME IInv, IInv', Limits, NEW p \in Procs, NEW k \in Keys, NEW v \in Versions, Get(p, k, v)
    PROVE  Limits'
<1>1. Free /\ room' = room
  BY DEF Get
<1>2. PICK h \in Housekept(p), e \in NewestOf(k, v) :
          LET D == IF e \in expired /\ e \in h.E THEN Deletable({e}) ELSE {} IN
          /\ entries' = h.E \ D
          /\ trash' = h.T \cup Trashed(D, p)
  BY DEF Get
<1> DEFINE D == IF e \in expired /\ e \in h.E THEN Deletable({e}) ELSE {}
<1>3. entries' = h.E \ D /\ trash' = h.T \cup Trashed(D, p) /\ D \subseteq h.E
  BY <1>2 DEF Deletable
<1> HIDE DEF D
<1>4. h.E \subseteq entries /\ h.T \subseteq trash \cup Trashed(entries \ h.E, p)
  BY HousekeptMoves
<1>5. entries' \subseteq entries /\ trash' \subseteq trash \cup Trashed(entries \ entries', p)
  BY <1>3, <1>4 DEF Trashed
<1>6. \A q \in Procs : \/ job'[q] = job[q] /\ scratch'[q] = scratch[q]
                       \/ job'[q] = Idle /\ scratch'[q] = 0
  BY GetSteps, SweptOthers DEF Limits
<1> QED
  BY <1>1, <1>5, <1>6, FreeLimits

LEMMA DeletesLimits ==
    ASSUME IInv, IInv', Limits, NEW p \in Procs, NEW D, Deletes(p, D), D \subseteq entries
    PROVE  Limits'
<1>1. /\ Free /\ entries' \subseteq entries /\ UNCHANGED <<room, job, scratch>>
      /\ entries \ entries' = D /\ trash' = trash \cup Trashed(D, p)
  BY DEF Deletes
<1> QED
  BY <1>1, FreeLimits

\* The folder goes, and nobody has anything in it.
LEMMA ClaimedLimits ==
    ASSUME IInv, IInv', Limits, IsClaimed
    PROVE  Limits'
<1>1. /\ Free /\ entries' = {} /\ trash' = {} /\ room' = room
      /\ job' = Swept /\ scratch' = SweptScratch
  BY DEF IsClaimed
<1>2. CASE Procs = {}
  <2>1. room' = NoRoom
    BY <1>1 DEF Limits, RoomOfOne
  <2>2. RoomOfOne' /\ RoomAhead' /\ EntryAhead' /\ InBounds'
    BY <1>2, <2>1, LockLeft DEF InBounds
  <2>3. FolderTypes' /\ Cardinality(entries') <= MaxEntries
    BY <1>1, <2>1, FS_EmptySet, EntriesAssumption DEF FolderTypes, NoRoom, Rooms
  <2>4. Bearable'
    <3> SUFFICES ASSUME NEW Q \in SUBSET Writers' PROVE Load(Q)' <= MaxBytes
      BY DEF Bearable
    <3>1. Bytes({}) = 0 /\ TrashBytes({}) = 0
      BY SumOfNone DEF Bytes, TrashBytes
    <3>2. NotOf(Q)' = {}
      BY <1>1 DEF NotOf
    <3>3. SumOf(Claims(Q)') = 0
      <4>1. DOMAIN (Claims(Q)') = {}
        BY <1>2 DEF Claims
      <4> QED
        BY <4>1, SumOfNone
    <3>4. Load(Q)' = Bytes({}) + TrashBytes({}) + 0
      BY <1>1, <3>2, <3>3 DEF Load
    <3> QED
      BY <3>1, <3>4, SizesAssumption
  <2> QED
    BY <2>2, <2>3, <2>4 DEF Limits
<1>3. CASE Procs # {}
  <2>1. PICK p \in Procs : TRUE
    BY <1>3
  <2>2. \A q \in Procs : \/ job'[q] = job[q] /\ scratch'[q] = scratch[q]
                         \/ job'[q] = Idle /\ scratch'[q] = 0
    BY <1>1, SweptOthers DEF Limits
  <2> QED
    BY <1>1, <2>2, FreeLimits
<1> QED
  BY <1>2, <1>3

\* Nothing that counts changes.
LEMMA StillLimits ==
    ASSUME Limits, UNCHANGED <<entries, trash, scratch, job, room>>
    PROVE  Limits'
BY DEF Limits, FolderTypes, RoomOfOne, InBounds, InBoundsOf, Bearable, RoomAhead, EntryAhead, Load, LoadWith,
       Claims, NotOf, Ahead, Writers, Live, Free

\* Who dies writes no more, and what it reserved covers what it wrote.
LEMMA CrashLimits ==
    ASSUME IInv, IInv', Limits, NEW p \in Procs, Crash(p)
    PROVE  Limits'
<1> DEFINE j == IF Live(p) THEN [job[p] EXCEPT !.at = "dead"] ELSE Idle
<1>1. job[p] \in Jobs /\ scratch[p] \in Nat /\ job[p].need \in Nat
  BY DEF IInv, TypeInv, Jobs
<1>2. /\ job' = [job EXCEPT ![p] = j] /\ UNCHANGED <<entries, scratch>>
      /\ room' = IF job[p].at \in InLock THEN NoRoom ELSE room
      /\ trash' = {[t EXCEPT !.by = IF @ = p THEN NoProc ELSE @] : t \in trash}
      /\ ~Dead(p)
  BY DEF Crash, IInv, TypeInv
<1>3. j.at \in {"dead", "idle"} /\ (j.at = "idle" <=> ~Live(p))
  BY <1>1 DEF Jobs, Idle
<1> HIDE DEF j
<1>4. job'[p] = j /\ \A q \in Procs \ {p} : job'[q] = job[q]
  BY <1>2 DEF IInv, TypeInv
<1>5. ~Live(p)'
  BY <1>3, <1>4 DEF Live, HasRecord
<1>6. InBounds'
  <2>1. CASE Live(p)
    <3>1. InBoundsOf(p)'
      BY <1>3, <1>4, <1>5, <2>1 DEF InBoundsOf
    <3> QED
      BY <1>2, <1>4, <3>1, InBoundsKept DEF Limits
  <2>2. CASE ~Live(p)
    <3>1. job[p].at \in {"idle", "begin", "maintain"}
      BY <1>1, <1>2, <2>2 DEF Live, HasRecord, Dead, Jobs, Ats
    <3>2. scratch[p] = 0
      BY <3>1 DEF Limits, InBounds, InBoundsOf
    <3>3. InBoundsOf(p)'
      BY <1>2, <1>5, <3>2 DEF InBoundsOf
    <3> QED
      BY <1>2, <1>4, <3>3, InBoundsKept DEF Limits
  <2> QED
    BY <2>1, <2>2
<1>7. FolderTypes' /\ Cardinality(entries') <= MaxEntries
  <2>1. trash' \in SUBSET TrashOf /\ IsFiniteSet(trash')
    BY <1>2, Disowned DEF Limits, FolderTypes
  <2>2. room' \in Rooms
    BY <1>2 DEF Limits, FolderTypes, NoRoom, Rooms
  <2> QED
    BY <1>2, <2>1, <2>2 DEF Limits, FolderTypes
<1>8. ASSUME NEW Q \in SUBSET Procs, p \notin Q
      PROVE  TrashBytes(NotOf(Q)') <= TrashBytes(NotOf(Q))
  <2>1. NotOf(Q)' = {[t EXCEPT !.by = IF @ = p THEN NoProc ELSE @] : t \in NotOf(Q)}
    <3> DEFINE to(t) == [t EXCEPT !.by = IF @ = p THEN NoProc ELSE @]
    <3>1. \A t \in trash : t \in TrashOf
      BY DEF Limits, FolderTypes
    <3>2. \A t \in TrashOf : to(t).by \notin Q <=> t.by \notin Q
      BY <1>8, NoProcAssumption DEF TrashOf
    <3>3. trash' = {to(t) : t \in trash}
      BY <1>2
    <3> HIDE DEF to
    <3>4. NotOf(Q)' = {to(t) : t \in NotOf(Q)}
      BY <3>1, <3>2, <3>3 DEF NotOf
    <3> QED
      BY <3>4 DEF to
  <2>2. NotOf(Q) \in SUBSET TrashOf /\ IsFiniteSet(NotOf(Q))
    BY NumbersHere DEF Limits, Numbers
  <2> QED
    BY <2>1, <2>2, Disowned
<1>9. Bearable'
  <2>1. Writers' \subseteq Writers /\ p \notin Writers' /\ Writers' \subseteq Procs
        /\ \A q \in Writers' : job'[q].need = job[q].need
    BY <1>3, <1>4 DEF Writers
  <2>2. ASSUME NEW Q \in SUBSET Writers'
        PROVE  Bytes(entries') + TrashBytes(NotOf(Q)') <= Bytes(entries) + TrashBytes(NotOf(Q))
    <3>1. TrashBytes(NotOf(Q)') <= TrashBytes(NotOf(Q))
      BY <1>8, <2>1
    <3>2. TrashBytes(NotOf(Q)') \in Nat /\ TrashBytes(NotOf(Q)) \in Nat /\ Bytes(entries) \in Nat
      BY <1>7, NumbersHere, NumbersThere DEF Limits, Numbers
    <3> QED
      BY <1>2, <3>1, <3>2
  <2>3. \A q \in Procs : scratch'[q] <= scratch[q]
    BY <1>2 DEF IInv, TypeInv
  <2> QED
    BY <1>7, <2>1, <2>2, <2>3, BearableKept
<1>10. RoomOfOne' /\ RoomAhead' /\ EntryAhead'
  <2>1. CASE job[p].at \in InLock
    <3>1. \A q \in Procs : job'[q].at \notin InLock
      BY <1>3, <1>4, <2>1 DEF IInv, OneInLock, InLock
    <3> QED
      BY <1>2, <2>1, <3>1, LockLeft
  <2>2. CASE job[p].at \notin InLock
    <3>1. room' = room /\ job'[p].at \notin InLock
      BY <1>2, <1>3, <1>4, <2>2 DEF InLock
    <3>2. ASSUME NEW q \in Procs \ {p}
          PROVE  /\ TrashBytes(NotOf({q})') <= TrashBytes(NotOf({q}))
                 /\ Ahead(q)'[p] <= Ahead(q)[p]
      <4>1. TrashBytes(NotOf({q})') <= TrashBytes(NotOf({q}))
        BY <1>8
      <4>2. Ahead(q)'[p] = scratch[p]
        BY <1>2, <1>5 DEF Ahead
      <4>3. Live(p) => scratch[p] <= job[p].need
        BY DEF Limits, InBounds, InBoundsOf
      <4>4. Ahead(q)[p] = IF Live(p) THEN job[p].need ELSE scratch[p]
        BY DEF Ahead
      <4> QED
        BY <1>1, <4>1, <4>2, <4>3, <4>4
    <3> QED
      BY <1>2, <1>4, <1>7, <2>2, <3>1, <3>2, LockElsewhere
  <2> QED
    BY <2>1, <2>2
<1> QED
  BY <1>6, <1>7, <1>9, <1>10 DEF Limits

\* An empty folder satisfies it.
LEMMA InitLimits == Init => Limits
<1> SUFFICES ASSUME Init PROVE Limits
  OBVIOUS
<1>1. entries = {} /\ trash = {} /\ room = NoRoom /\ \A p \in Procs : job[p].at = "idle" /\ scratch[p] = 0
  BY DEF Init, Idle
<1>2. FolderTypes /\ RoomOfOne
  BY <1>1, FS_EmptySet DEF FolderTypes, RoomOfOne, NoRoom, Rooms
<1>3. InBounds /\ RoomAhead /\ EntryAhead
  BY <1>1 DEF InBounds, InBoundsOf, RoomAhead, EntryAhead, Live, HasRecord
<1>4. Cardinality(entries) <= MaxEntries
  BY <1>1, FS_EmptySet, EntriesAssumption
<1>5. Bearable
  <2> SUFFICES ASSUME NEW Q \in SUBSET Writers PROVE Load(Q) <= MaxBytes
    BY DEF Bearable
  <2>1. Q = {} /\ NotOf(Q) = {} /\ Claims(Q) \in [Procs -> Nat] /\ \A p \in Procs : Claims(Q)[p] = 0
    BY <1>1 DEF Writers, NotOf, Claims
  <2>2. Bytes({}) = 0 /\ TrashBytes({}) = 0
    BY SumOfNone DEF Bytes, TrashBytes
  <2>3. SumOf(Claims(Q)) = 0
    <3> DEFINE none == [x \in {} |-> 0]
    <3>1. none \in [{} -> Nat] /\ SumOf(none) = 0
      BY SumOfNone
    <3> HIDE DEF none
    <3>2. SumOf(Claims(Q)) <= SumOf(none)
      BY <2>1, <3>1, FS_EmptySet, SumShrinks
    <3>3. SumOf(Claims(Q)) \in Nat
      BY <2>1, ProcsAssumption, SumIsNat
    <3> QED
      BY <3>1, <3>2, <3>3
  <2>4. Load(Q) = Bytes({}) + TrashBytes({}) + SumOf(Claims(Q))
    BY <1>1, <2>1 DEF Load
  <2> QED
    BY <2>2, <2>3, <2>4, SizesAssumption
<1> QED
  BY <1>2, <1>3, <1>4, <1>5 DEF Limits

LEMMA StepLimits == IInv /\ IInv' /\ Limits /\ [Next]_vars => Limits'
<1> SUFFICES ASSUME IInv, IInv', Limits, [Next]_vars PROVE Limits'
  OBVIOUS
<1>1. CASE UNCHANGED vars \/ Expires
  BY <1>1, StillLimits DEF vars, Expires
<1>2. CASE IsClaimed
  BY <1>2, ClaimedLimits
<1>3. ASSUME NEW p \in Procs, Goes(p) PROVE Limits'
  BY <1>3, EvictsLimits, OutsideLimits, RegistersLimits, RefusedLimits, WritesLimits, StartsCommitLimits,
     CommitsLimits DEF Goes
<1>4. ASSUME NEW p \in Procs, Crash(p) \/ ClosesLease(p) \/ Maintains(p) PROVE Limits'
  BY <1>4, CrashLimits, StillLimits, MaintainsLimits DEF ClosesLease, folder
<1>5. ASSUME NEW p \in Procs, PurgeStale(p) \/ \E k \in Keys : Discard(p, k) PROVE Limits'
  <2>2. CASE PurgeStale(p)
    <3>1. Deletable({e \in entries : Stale(e)}) \subseteq entries
      BY DEF Deletable
    <3> QED
      BY <2>2, <3>1, DeletesLimits DEF PurgeStale
  <2>3. ASSUME NEW k \in Keys, Discard(p, k) PROVE Limits'
    <3>1. Deletable({e \in entries : e.key = k}) \subseteq entries
      BY DEF Deletable
    <3> QED
      BY <2>3, <3>1, DeletesLimits DEF Discard
  <2> QED
    BY <1>5, <2>2, <2>3
<1>6. ASSUME NEW p \in Procs, NEW k \in Keys, NEW v \in Versions,
             Get(p, k, v) \/ \E n \in Sizes : Begins(p, k, v, n)
      PROVE  Limits'
  BY <1>6, GetLimits, BeginsLimits
<1> QED
  BY <1>1, <1>2, <1>3, <1>4, <1>5, <1>6 DEF Next

LEMMA AlwaysLimits == Spec => []Limits
<1>1. IInv /\ IInv' /\ Limits /\ [Next]_vars => Limits'
  BY StepLimits
<1> QED
  BY <1>1, InitLimits, InvHolds, PTL DEF Spec

\* The folder never takes more than max_bytes and never holds more than
\* max_entries, whatever the number of writers, their sizes and their deaths
\* (_begin, _commit, _reclaim, _live_writers).
THEOREM LimitHolds == Spec => []WithinLimit
<1>1. IInv /\ Limits => WithinLimit
  <2> SUFFICES ASSUME IInv, Limits PROVE WithinLimit
    OBVIOUS
  <2>1. Load({}) <= MaxBytes
    BY DEF Limits, Bearable
  <2>2. NotOf({}) = trash /\ Claims({}) = scratch
    BY DEF NotOf, Claims, IInv, TypeInv
  <2> QED
    BY <2>1, <2>2 DEF Load, WithinLimit, Limits
<1> QED
  BY <1>1, InvHolds, AlwaysLimits, PTL
=============================================================================
