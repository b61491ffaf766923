----------------------------- MODULE EntryStore -----------------------------
(***************************************************************************)
(* What the cache promises its users (src/levi/performance/budget.py, the  *)
(* module's docstring): entries appear whole and at once, as the newest of *)
(* their key; what a reader holds stays; a reader is given the newest      *)
(* entry there is.  There is no folder, lock, reservation or trash here.   *)
(***************************************************************************)
EXTENDS Integers

CONSTANTS
    Procs,       \* readers and writers
    Entry,       \* what may be stored: records with key, ver and gen
    NoEntry      \* a process holds nothing

VARIABLES
    stored,      \* the entries that can be read
    held         \* [Procs -> Entry or NoEntry]: the entry a process reads

Init ==
    /\ stored = {}
    /\ held = [p \in Procs |-> NoEntry]

Held == {held[p] : p \in Procs}

\* The entries a reader of key k and version v may be given.
Newest(k, v) ==
    {e \in stored :
        /\ e.key = k /\ e.ver = v
        /\ \A f \in stored : f.key = k /\ f.ver = v => f.gen <= e.gen}

\* A rewrite never goes back behind what is there, in any version.
Adds ==
    \E e \in stored' \ stored :
        /\ e \in Entry
        /\ \A f \in stored : f.key = e.key => f.gen < e.gen
        /\ stored' = stored \cup {e}
        /\ UNCHANGED held

\* Entries go at any moment, except the ones that are held.
Drops ==
    \E D \in SUBSET (stored \ Held) :
        /\ stored' = stored \ D
        /\ UNCHANGED held

\* A reader takes hold of an entry; others may go in the same step.
Takes(p) ==
    \E D \in SUBSET (stored \ Held) : \E e \in stored \ D :
        /\ held[p] = NoEntry
        /\ e \in Newest(e.key, e.ver)
        /\ stored' = stored \ D
        /\ held' = [held EXCEPT ![p] = e]

LetsGo(p) ==
    /\ held[p] # NoEntry
    /\ held' = [held EXCEPT ![p] = NoEntry]
    /\ UNCHANGED stored

Next == Adds \/ Drops \/ \E p \in Procs : Takes(p) \/ LetsGo(p)

Spec == Init /\ [][Next]_<<stored, held>>
=============================================================================
