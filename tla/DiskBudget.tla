----------------------------- MODULE DiskBudget -----------------------------
(***************************************************************************)
(* A cache folder shared by processes and kept inside a byte limit:        *)
(* src/levi/performance/budget.py (DiskBudget).                            *)
(*                                                                         *)
(* Every change of the folder runs under an exclusive flock on it.  What   *)
(* is done without it interleaves: a writer fills its scratch folder, what *)
(* was renamed to the trash is removed once the lock is released, a reader *)
(* closes its lease, a finished writer takes its record away, a process    *)
(* dies (the kernel drops its locks: the folder's, its record's and its    *)
(* leases').  Making room for a write is one step for each entry tried, so *)
(* all of these, and a crash, come in between.                             *)
(*                                                                         *)
(* Simplifications.  Sizes count the .meta file; a writer stays within its *)
(* reservation (put and open_file stop there; a raw write beyond it is the *)
(* exception the class documents).  The order of last use is the folder's  *)
(* mtime, a wall clock others may set: among entries of the same rank any  *)
(* one may be tried next.  Age is a choice (Expires, the grace of a stale  *)
(* entry, whether housekeeping is due).  A refusal by min_free_bytes,      *)
(* before anything was changed, changes nothing and is left out, and so    *)
(* are tools that change the folder from outside (_resize, a damaged       *)
(* entry) and a removal that fails.                                        *)
(*                                                                         *)
(* A definition marked "Mutant" is the bug the definition below it would   *)
(* have to contain for some property to break; nothing uses it.            *)
(***************************************************************************)
EXTENDS Integers, FiniteSets

CONSTANTS
    Procs,       \* processes (or threads), each in one call at a time
    NoProc,      \* whose trash it is when its process died
    Keys,
    Versions,
    Current,     \* DiskBudget.version
    Sizes,       \* bytes a write asks for
    MaxBytes,    \* max_bytes
    MaxEntries,  \* max_entries
    MaxWrites,   \* bound: writes begun
    MaxCrashes   \* bound: processes that die in a call

ASSUME NoProcAssumption == NoProc \notin Procs
ASSUME ProcsAssumption == IsFiniteSet(Procs)
ASSUME SizesAssumption == Sizes \subseteq 1..MaxBytes /\ MaxBytes \in Nat
ASSUME EntriesAssumption == MaxEntries \in Nat \ {0}
ASSUME VersionsAssumption == Current \in Versions

VARIABLES
    entries,     \* the entry folders: [key, ver, gen, size, val]
    expired,     \* those idle for longer than ttl_s
    trash,       \* renamed away, not removed yet: [entry, by]
    scratch,     \* [Procs -> Nat]: bytes in a writer's private folder
    job,         \* [Procs -> Jobs]: the call a process is in; its reservation
    room,        \* the room being made, by the process that has the lock
    lease,       \* [Procs -> entry or NoEntry]: the shared flock it holds
    \* Ghosts and bounds.
    late,        \* a write was refused room after its data was written
    begun,       \* writes begun; the number of one is the val it stores
    crashes

vars == <<entries, expired, trash, scratch, job, room, lease, late, begun, crashes>>
folder == <<entries, expired, trash>>
ghosts == <<late, begun, crashes>>

Ats == {"idle", "begin", "ready", "written", "commit", "close", "dead", "maintain"}
Jobs == [at : Ats, key : Keys \cup {"none"}, ver : Versions \cup {"none"}, need : Nat,
         size : Nat, val : Nat, gen : Nat]
Entry == [key : Keys, ver : Versions, gen : Nat, size : 1..MaxBytes, val : Nat]
NoEntry == [key |-> "none", ver |-> "none", gen |-> 0, size |-> 0, val |-> 0]

\* need: bytes reserved; size: bytes written.
Idle == [at |-> "idle", key |-> "none", ver |-> "none", need |-> 0, size |-> 0, val |-> 0,
         gen |-> 0]

\* Bytes and entries there would be, and the entries still to be tried.
NoRoom == [total |-> 0, count |-> 0, front |-> {}, rest |-> {}]

Init ==
    /\ entries = {} /\ expired = {} /\ trash = {}
    /\ scratch = [p \in Procs |-> 0]
    /\ job = [p \in Procs |-> Idle]
    /\ room = NoRoom
    /\ lease = [p \in Procs |-> NoEntry]
    /\ late = FALSE /\ begun = 0 /\ crashes = 0

\* The sum of what f gives, counted in units: f[x] of them for each x.
Units(f) == UNION {{x} \X (1..f[x]) : x \in DOMAIN f}
SumOf(f) == Cardinality(Units(f))

Bytes(E) == SumOf([e \in E |-> e.size])
TrashBytes(T) == SumOf([t \in T |-> t.entry.size])
-----------------------------------------------------------------------------
(* The flock on the folder, the writers' records and the readers' leases.  *)

\* "begin", "commit", "maintain": making room, with the folder's lock.
InLock == {"begin", "commit", "maintain"}
Free == \A p \in Procs : job[p].at \notin InLock

\* What a process moved to the trash it removes right after the lock.
NoTrash(p) == \A t \in trash : t.by # p
Ready(p, at) == job[p].at = at /\ NoTrash(p)

\* A writer's record is there from its reservation to the end of its call,
\* and after its death until somebody reclaims it.
HasRecord == {"ready", "written", "commit", "close", "dead"}
Live(p) == job[p].at \in HasRecord \ {"dead"}

\* Mutant: a record is reclaimed while its writer writes.
Dead_Anybody(p) == job[p].at \in {"dead", "written"}

\* Its lock can be taken: the writer is gone.
Dead(p) == job[p].at = "dead"

\* _live_writers: what dead writers left is removed ...
Swept == [p \in Procs |-> IF Dead(p) THEN Idle ELSE job[p]]
SweptScratch == [p \in Procs |-> IF Dead(p) THEN 0 ELSE scratch[p]]
\* ... and the others' reservations are counted.
Others(p) == {q \in Procs \ {p} : Live(q)}

\* Mutant: only writers that have written count.
Reserved_Written(p) == SumOf([q \in Others(p) |-> scratch[q]])

Reserved(p) == SumOf([q \in Others(p) |-> job[q].need])

\* Mutant: an entry that expired goes although it is read.
Leased_Fresh(e) == e \notin expired /\ \E p \in Procs : lease[p] = e

Leased(e) == \E p \in Procs : lease[p] = e
-----------------------------------------------------------------------------
(* Entry.stale, superseded, dead.                                          *)

Stale(e) == e.ver # Current
Superseded(e, E) == \E f \in E : f.key = e.key /\ f.ver = e.ver /\ f.gen > e.gen
DeadEntries(E) == {e \in E : Stale(e) \/ Superseded(e, E) \/ e \in expired}

\* _try_delete of every entry of D: what is leased stays.
Deletable(D) == {e \in D : ~Leased(e)}
Trashed(D, p) == [entry : D, by : {p}]

\* _housekeep, when it is due: all trash, and what is dead, save the stale
\* entries that are within their grace.
Removable(E, graced) == DeadEntries(E) \ graced
Graced(E) == SUBSET {e \in E : Stale(e) /\ e \notin expired}

\* The folder as a call finds it under the lock, housekeeping done or not due.
Housekept(p) ==
    {[due |-> FALSE, E |-> entries, T |-> trash]}
      \cup {[due |-> TRUE, E |-> entries \ D, T |-> Trashed(D, p)] :
                D \in {Deletable(Removable(entries, g)) : g \in Graced(entries)}}
-----------------------------------------------------------------------------
(* _reclaim: entries are tried one by one until the rest fits.             *)

Total(E, T, reserved, need) == Bytes(E) + reserved + need + TrashBytes(T)

Count(E, n) == Cardinality(E) + n

\* The entries in first are tried before the others.
Making(E, T, reserved, need, n, first) ==
    [total |-> Total(E, T, reserved, need), count |-> Count(E, n),
     front |-> E \cap first, rest |-> E \ first]

Fits == room.total <= MaxBytes /\ room.count <= MaxEntries
NothingLeft == room.front \cup room.rest = {}

\* Mutant: an entry that stays is tried again.
Tried_Deleted(e) == IF Leased(e) THEN {} ELSE {e}

\* An entry that was tried is not tried again, deleted or not.
Tried(e) == {e}

Evicts(p) ==
    /\ job[p].at \in InLock /\ ~Fits
    /\ \E e \in IF room.front # {} THEN room.front ELSE room.rest :
          /\ room' = [room EXCEPT
                !.front = @ \ Tried(e),
                !.rest = @ \ Tried(e),
                !.total = IF Leased(e) THEN @ ELSE @ - e.size,
                !.count = IF Leased(e) THEN @ ELSE @ - 1]
          /\ entries' = entries \ Deletable({e})
          /\ expired' = expired \ Deletable({e})
          /\ trash' = trash \cup Trashed(Deletable({e}), p)
    /\ UNCHANGED <<scratch, job, lease, ghosts>>

\* The lock is released first.
RemovesTrash(p) ==
    /\ job[p].at \notin InLock
    /\ \E t \in trash : t.by = p /\ trash' = trash \ {t}
    /\ UNCHANGED <<entries, expired, scratch, job, room, lease, ghosts>>
-----------------------------------------------------------------------------
(* Writing: _begin, the caller's block, _commit, _Writer.close.            *)

Begins(p, k, v, n) ==
    /\ Ready(p, "idle") /\ Free /\ begun < MaxWrites
    /\ begun' = begun + 1
    /\ \E h \in Housekept(p) :
          /\ entries' = h.E /\ expired' = expired \cap h.E /\ trash' = h.T
          /\ room' = Making(h.E, h.T, Reserved(p), n, Cardinality(Others(p)) + 1,
                            DeadEntries(h.E) \cup {e \in h.E : e.key = k})
    /\ job' = [Swept EXCEPT ![p] = [Idle EXCEPT !.at = "begin", !.key = k, !.ver = v,
                                               !.need = n, !.val = begun']]
    /\ scratch' = SweptScratch
    /\ UNCHANGED <<lease, late, crashes>>

\* The lock is released.
Unlocks(p, j) == job' = [job EXCEPT ![p] = j] /\ room' = NoRoom

Registers(p) ==
    /\ job[p].at = "begin" /\ Fits
    /\ Unlocks(p, [job[p] EXCEPT !.at = "ready"])
    /\ UNCHANGED <<folder, scratch, lease, ghosts>>

\* BudgetRejected("busy"), before anything is written.
IsRefused(p) ==
    /\ job[p].at = "begin" /\ ~Fits /\ NothingLeft
    /\ Unlocks(p, Idle)
    /\ UNCHANGED <<folder, scratch, lease, ghosts>>

Writes(p) ==
    /\ Ready(p, "ready")
    /\ \E n \in 1..job[p].need :
          /\ scratch' = [scratch EXCEPT ![p] = n]
          /\ job' = [job EXCEPT ![p].at = "written", ![p].size = n]
    /\ UNCHANGED <<folder, room, lease, ghosts>>

\* The caller's block raises, the disk is full or the folder's lock times out.
Abandons(p) ==
    /\ Ready(p, "ready") \/ Ready(p, "written")
    /\ job' = [job EXCEPT ![p].at = "close"]
    /\ UNCHANGED <<folder, scratch, room, lease, ghosts>>

\* Generations never go backwards, whatever the clocks say.
NextGen(k, E) ==
    LET gens == {0} \cup {e.gen : e \in {f \in E : f.key = k}}
    IN  1 + CHOOSE g \in gens : \A h \in gens : h <= g

\* Older generations of the key, in any version, go first.
StartsCommit(p) ==
    /\ Ready(p, "written") /\ Free
    /\ LET D == Deletable({e \in entries : e.key = job[p].key})
           E == entries \ D
           T == trash \cup Trashed(D, p)
       IN  /\ entries' = E /\ expired' = expired \ D /\ trash' = T
           /\ room' = Making(E, T, Reserved(p), job[p].size, Cardinality(Others(p)) + 1,
                             DeadEntries(entries))
    /\ job' = [Swept EXCEPT ![p] = [job[p] EXCEPT !.at = "commit",
                                                 !.gen = NextGen(job[p].key, entries)]]
    /\ scratch' = SweptScratch
    /\ UNCHANGED <<lease, ghosts>>

Written(p) ==
    [key |-> job[p].key, ver |-> job[p].ver, gen |-> job[p].gen, size |-> job[p].size,
     val |-> job[p].val]

Renames(p) ==
    /\ job[p].at = "commit" /\ Fits
    /\ entries' = entries \cup {Written(p)}
    /\ scratch' = [scratch EXCEPT ![p] = 0]
    /\ Unlocks(p, [job[p] EXCEPT !.at = "close"])
    /\ UNCHANGED <<expired, trash, lease, late, begun, crashes>>

\* The fsync of the folder fails after the rename: taken out of sight again.
IsUndone(p) ==
    /\ job[p].at = "commit" /\ Fits
    /\ trash' = trash \cup Trashed({Written(p)}, p)
    /\ scratch' = [scratch EXCEPT ![p] = 0]
    /\ Unlocks(p, [job[p] EXCEPT !.at = "close"])
    /\ UNCHANGED <<entries, expired, lease, ghosts>>

\* BudgetRejected("busy") from _commit.
IsRefusedLate(p) ==
    /\ job[p].at = "commit" /\ ~Fits /\ NothingLeft
    /\ Unlocks(p, [job[p] EXCEPT !.at = "close"])
    /\ late' = TRUE
    /\ UNCHANGED <<folder, scratch, lease, begun, crashes>>

Closes(p) ==
    /\ Ready(p, "close")
    /\ scratch' = [scratch EXCEPT ![p] = 0]
    /\ job' = [job EXCEPT ![p] = Idle]
    /\ UNCHANGED <<folder, room, lease, ghosts>>
-----------------------------------------------------------------------------
(* Reading and cleaning up.                                                *)

NewestOf(k, v) ==
    {e \in entries : e.key = k /\ e.ver = v /\ ~Superseded(e, entries)}

\* get: the candidate is chosen before housekeeping, which may delete it; an
\* expired one is deleted.
Get(p, k, v) ==
    /\ Ready(p, "idle") /\ Free /\ lease[p] = NoEntry
    /\ \E h \in Housekept(p), e \in NewestOf(k, v) :
          LET D == IF e \in expired /\ e \in h.E THEN Deletable({e}) ELSE {} IN
          /\ entries' = h.E \ D
          /\ expired' = expired \cap entries'
          /\ trash' = h.T \cup Trashed(D, p)
          /\ lease' = IF e \in expired \/ e \notin h.E THEN lease
                      ELSE [lease EXCEPT ![p] = e]
          /\ IF h.due
             THEN scratch' = SweptScratch /\ job' = Swept
             ELSE UNCHANGED <<scratch, job>>
    /\ UNCHANGED <<room, ghosts>>

ClosesLease(p) ==
    /\ lease[p] # NoEntry
    /\ lease' = [lease EXCEPT ![p] = NoEntry]
    /\ UNCHANGED <<folder, scratch, job, room, ghosts>>

Deletes(p, D) ==
    /\ Ready(p, "idle") /\ Free
    /\ entries' = entries \ D /\ expired' = expired \ D
    /\ trash' = trash \cup Trashed(D, p)
    /\ UNCHANGED <<scratch, job, room, lease, ghosts>>

Discard(p, k) == Deletes(p, Deletable({e \in entries : e.key = k}))
PurgeStale(p) == Deletes(p, Deletable({e \in entries : Stale(e)}))

\* maintain: housekeeping whether it is due or not, then prune.
Maintains(p) ==
    /\ Ready(p, "idle") /\ Free
    /\ \E h \in Housekept(p) :
          /\ h.due
          /\ entries' = h.E /\ expired' = expired \cap h.E /\ trash' = h.T
          /\ room' = Making(h.E, h.T, Reserved(p), 0, Cardinality(Others(p)),
                            DeadEntries(h.E))
    /\ job' = [Swept EXCEPT ![p] = [Idle EXCEPT !.at = "maintain"]]
    /\ scratch' = SweptScratch
    /\ UNCHANGED <<lease, ghosts>>

IsMaintained(p) ==
    /\ job[p].at = "maintain" /\ (Fits \/ NothingLeft)
    /\ Unlocks(p, Idle)
    /\ UNCHANGED <<folder, scratch, lease, ghosts>>
\* claim_abandoned: a cleaner removes the whole folder of a cache that nobody
\* writes to, reads or has touched for long.
IsClaimed ==
    /\ Free /\ \A p \in Procs : ~Live(p) /\ lease[p] = NoEntry
    /\ entries # {}
    /\ entries' = {} /\ expired' = {} /\ trash' = {}
    /\ scratch' = SweptScratch /\ job' = Swept
    /\ UNCHANGED <<room, lease, ghosts>>
-----------------------------------------------------------------------------
(* Time passes, a process dies.                                            *)

Expires ==
    /\ \E e \in entries \ expired : expired' = expired \cup {e}
    /\ UNCHANGED <<entries, trash, scratch, job, room, lease, ghosts>>

\* At any step of a call.  A reservation that was registered stays on disk.
Crash(p) ==
    /\ ~Ready(p, "idle") /\ ~Dead(p) /\ crashes < MaxCrashes
    /\ crashes' = crashes + 1
    /\ job' = [job EXCEPT ![p] = IF Live(p) THEN [@ EXCEPT !.at = "dead"] ELSE Idle]
    /\ room' = IF job[p].at \in InLock THEN NoRoom ELSE room
    /\ lease' = [lease EXCEPT ![p] = NoEntry]
    /\ trash' = {[t EXCEPT !.by = IF @ = p THEN NoProc ELSE @] : t \in trash}
    /\ UNCHANGED <<entries, expired, scratch, late, begun>>

\* What a process does once its call has begun.
Goes(p) ==
    \/ Evicts(p) \/ RemovesTrash(p) \/ Registers(p) \/ IsRefused(p)
    \/ Writes(p) \/ Abandons(p) \/ StartsCommit(p)
    \/ Renames(p) \/ IsUndone(p) \/ IsRefusedLate(p) \/ Closes(p) \/ IsMaintained(p)

Next ==
    \/ Expires
    \/ IsClaimed
    \/ \E p \in Procs :
          \/ Goes(p) \/ Crash(p) \/ ClosesLease(p) \/ Maintains(p) \/ PurgeStale(p)
          \/ \E k \in Keys :
                \/ Discard(p, k)
                \/ \E v \in Versions :
                      Get(p, k, v) \/ \E n \in Sizes : Begins(p, k, v, n)

Spec == Init /\ [][Next]_vars

\* A call that has begun goes on.
FairSpec == Spec /\ \A p \in Procs : WF_vars(Goes(p))
-----------------------------------------------------------------------------
(* Properties.                                                             *)

TypeOK ==
    /\ entries \subseteq Entry
    /\ expired \subseteq entries
    /\ \A t \in trash : t.entry \in Entry /\ t.by \in Procs \cup {NoProc}
    /\ scratch \in [Procs -> 0..MaxBytes]
    /\ job \in [Procs -> Jobs]
    /\ room.front \cup room.rest \subseteq entries
    /\ lease \in [Procs -> Entry \cup {NoEntry}]

\* The folder never holds more than max_bytes, whatever the number of writers:
\* entries, data being written and what is in the trash but still on disk; nor
\* more than max_entries entries.
WithinLimit ==
    /\ Bytes(entries) + TrashBytes(trash) + SumOf(scratch) <= MaxBytes
    /\ Cardinality(entries) <= MaxEntries

\* A live writer is never reclaimed: what it wrote is there until it commits.
WritersKeepData ==
    \A p \in Procs : job[p].at \in {"written", "commit"} => scratch[p] = job[p].size

\* Readers and writers see the promised store.
Store == INSTANCE EntryStore WITH stored <- entries, held <- lease
ImplementsStore == Store!Spec

\* A write that cannot be given room is refused before any data is written.
RefusedBeforeWriting == ~late

\* Every call ends, also when leases hold what it wants to evict.
CallsEnd ==
    \A p \in Procs : job[p].at # "idle" ~> job[p].at \in {"idle", "dead"}
=============================================================================
