--------------------------- MODULE LedgerRetention ---------------------------
(***************************************************************************)
(* The retention of ledger states: how the indexing pipeline persists one  *)
(* ledger state per block in the content-addressed arena, counts the gc    *)
(* roots that keep it alive, lets the oldest ones go, and finds its way    *)
(* back to the tip state after the process dies at any point.              *)
(*                                                                         *)
(* Blocks are heights; chain[h] is the arena key of the ledger state after *)
(* block h, and two blocks may share one key.  A retention window is the   *)
(* set of heights whose keys it holds: keys are pushed in height order, so *)
(* the code's vector is this set read in increasing order.                 *)
(*                                                                         *)
(* Everything a process death leaves behind is in the "disk" variables.    *)
(* The arena and the index share one fjall keyspace and one journal, so a  *)
(* crash that loses unsynced writes leaves an earlier disk state: the same *)
(* as a crash at that earlier moment, which Crash already covers.          *)
(***************************************************************************)
EXTENDS Integers, FiniteSets, FiniteSetsExt

CONSTANTS Key,         \* arena keys (hashes) of ledger states
          NoKey,       \* the fresh, never persisted ledger state
          MaxHeight,   \* bound: blocks the chain has
          Retentions,  \* LEDGER_STATE_RETENTION of the builds that may be started
          MaxCrashes   \* bound: process deaths

ASSUME RetentionsAssumption == Retentions \subseteq Nat \ {0}
ASSUME MaxHeightAssumption == MaxHeight \in Nat
ASSUME MaxCrashesAssumption == MaxCrashes \in Nat
ASSUME NoKeyAssumption == NoKey \notin Key

Heights == 0 .. MaxHeight - 1

VARIABLES
    chain,         \* rigid: the ledger state key after each block
    (* disk *)
    indexed,       \* blocks committed; meta.last_height is indexed - 1
    storedWindow,  \* meta.ledger_state_window
    rootCount,     \* the arena's roots partition
    intact,        \* keys whose whole DAG is in the arena's nodes partition
    (* process memory *)
    pc, limit, window,
    pending,       \* storage-core's unflushed root count deltas
    ledger,        \* key of the in-memory ledger state
    crashes        \* history: process deaths so far

disk == <<indexed, storedWindow, rootCount, intact>>
vars == <<chain, indexed, storedWindow, rootCount, intact, pc, limit, window,
          pending, ledger, crashes>>

----------------------------------------------------------------------------
(* Windows *)

\* Blocks of S whose ledger state is k: how often a window references the root.
Occurrences(S, k) == {h \in S : chain[h] = k}
Occ(S, k) == Cardinality(Occurrences(S, k))

\* The n newest members of S: what `while len > n { remove(0) }` leaves.
Newest(S, n) == {h \in S : Cardinality({g \in S : g > h}) < n}

NoDelta == [k \in Key |-> 0]

\* Each key as often as counts says, that is what counts add up to.
References(counts) == UNION {{k} \X (1 .. counts[k]) : k \in Key}

----------------------------------------------------------------------------
TypeOK ==
    /\ chain \in [Heights -> Key]
    /\ indexed \in 0 .. MaxHeight
    /\ storedWindow \subseteq Heights
    /\ rootCount \in [Key -> Nat]
    /\ intact \subseteq Key
    /\ pc \in {"down", "repaired", "ready", "persisted", "written", "advanced",
               "bailed"}
    /\ limit \in Retentions
    /\ window \subseteq Heights
    /\ pending \in [Key -> Int] /\ \A k \in Key : pending[k] <= 0
    /\ ledger \in Key \cup {NoKey}
    /\ crashes \in Nat

\* A data directory nothing was ever indexed into.
FreshDisk ==
    /\ indexed = 0
    /\ storedWindow = {}
    /\ rootCount = [k \in Key |-> 0]
    /\ intact = {}

\* A data directory written before root counts were read back as numbers:
\* counts of states shared by several blocks are too low, down to no row at
\* all, and of a state without a row the gc may have culled any part.  The
\* tip's state was the last one persisted and still has its row.
UndercountedDisk ==
    /\ indexed \in 1 .. MaxHeight
    /\ \E n \in Retentions : storedWindow = Newest(0 .. indexed - 1, n)
    /\ rootCount \in [Key -> 0 .. MaxHeight]
    /\ \A k \in Key : rootCount[k] <= Occ(storedWindow, k)
    /\ rootCount[chain[indexed - 1]] > 0
    /\ intact \in SUBSET Key
    /\ \A k \in Key : rootCount[k] > 0 => k \in intact

NoProcess ==
    /\ pc = "down"
    /\ window = {}
    /\ pending = NoDelta
    /\ ledger = NoKey

Init ==
    /\ chain \in [Heights -> Key]
    /\ FreshDisk
    /\ NoProcess
    /\ limit \in Retentions
    /\ crashes = 0

LegacyInit ==
    /\ chain \in [Heights -> Key]
    /\ UndercountedDisk
    /\ NoProcess
    /\ limit \in Retentions
    /\ crashes = 0

----------------------------------------------------------------------------
(* Start-up *)

\* Faulty: a repair that does not look at the stored count; one that re-roots
\* without walking the DAG; one that also drops stray rows.
ReraisedCount(k) == rootCount[k] + Occ(storedWindow, k)
RaisedUncheckedCount(k) ==
    IF rootCount[k] < Occ(storedWindow, k) THEN Occ(storedWindow, k)
                                           ELSE rootCount[k]
ResetCount(k) ==
    IF rootCount[k] = 0 /\ k \notin intact THEN 0 ELSE Occ(storedWindow, k)

\* The count repair_root_counts leaves for k.  A root brought back from no
\* row at all is checked first: its DAG may have been swept.
RaisedCount(k) ==
    IF rootCount[k] = 0 /\ k \notin intact
    THEN 0
    ELSE IF rootCount[k] < Occ(storedWindow, k) THEN Occ(storedWindow, k)
                                                ELSE rootCount[k]

\* main loads the stored window's newest state to bring the wallet side indexes
\* up to date, before anything is repaired.
TipLoads == storedWindow # {} => chain[Max(storedWindow)] \in intact

\* A build with some retention starts, loads the tip's state and repairs the
\* root counts of the stored window; raise_root_counts ends with one flush.
Start ==
    /\ pc = "down"
    /\ limit' \in Retentions
    /\ IF TipLoads
       THEN pc' = "repaired" /\ rootCount' = [k \in Key |-> RaisedCount(k)]
       ELSE pc' = "bailed" /\ UNCHANGED rootCount
    /\ UNCHANGED <<chain, indexed, storedWindow, intact, window, pending,
                   ledger, crashes>>

\* The heights of the stored window whose root is still persisted.
Rooted == {h \in storedWindow : rootCount[chain[h]] > 0}

\* Faulty: load the oldest retained state instead of the newest.
SeedOldest ==
    /\ pc = "repaired"
    /\ window' = Rooted
    /\ \/ Rooted # {} /\ ledger' = chain[Min(Rooted)]
       \/ Rooted = {} /\ ledger' = NoKey
    /\ pc' = "ready"
    /\ UNCHANGED <<chain, disk, limit, pending, crashes>>

\* Seed the in-memory window and load the newest state in it; with blocks
\* indexed and no state left the run ends in an error.
Seed ==
    /\ pc = "repaired"
    /\ window' = Rooted
    /\ \/ /\ Rooted # {}
          /\ ledger' = chain[Max(Rooted)]
          /\ pc' = IF ledger' \in intact THEN "ready" ELSE "bailed"
       \/ /\ Rooted = {}
          /\ ledger' = NoKey
          /\ pc' = IF indexed > 0 THEN "bailed" ELSE "ready"
    /\ UNCHANGED <<chain, disk, limit, pending, crashes>>

----------------------------------------------------------------------------
(* One block *)

\* Replaying block indexed on the in-memory state reproduces the node's root
\* (genesis replaces the state, every later block builds on its parent's).
ReplayMatches ==
    indexed > 0 => ledger = chain[indexed - 1] /\ ledger \in intact

\* Faulty: reading a root's row as present or absent, not as a count.
SaturatedCount(k) == (IF rootCount[k] > 0 THEN 1 ELSE 0) + pending[k]

\* storage-core refuses a flush that drives a root count below zero.
FlushedCount(k) == rootCount[k] + pending[k]
Underflow == \E k \in Key : FlushedCount(k) < 0

\* Faulty: the persist is not flushed, so write_block's batch overtakes it.
PersistBlockUnflushed ==
    /\ pc = "ready"
    /\ indexed < MaxHeight
    /\ ReplayMatches
    /\ LET new == chain[indexed] IN
       /\ pending' = [pending EXCEPT ![new] = @ + 1]
       /\ intact' = intact \cup {new}
       /\ ledger' = new
    /\ pc' = "persisted"
    /\ UNCHANGED <<chain, indexed, storedWindow, rootCount, limit, window,
                   crashes>>

\* index_block up to the arena: replay, compare the roots, persist the new
\* state and flush every delta that is pending.  On a root mismatch, or when
\* the flush panics, the run is over.
PersistBlock ==
    /\ pc = "ready"
    /\ indexed < MaxHeight
    /\ IF ReplayMatches /\ ~Underflow
       THEN LET new == chain[indexed] IN
            /\ rootCount' = [k \in Key |->
                               FlushedCount(k) + IF k = new THEN 1 ELSE 0]
            /\ intact' = intact \cup {new}
            /\ ledger' = new
            /\ pending' = NoDelta
            /\ pc' = "persisted"
       ELSE /\ pc' = "bailed"
            /\ UNCHANGED <<rootCount, intact, ledger, pending>>
    /\ UNCHANGED <<chain, indexed, storedWindow, limit, window, crashes>>

\* Faulty: the stored window is cut before the new key is pushed.
WriteBlockCutFirst ==
    /\ pc = "persisted"
    /\ indexed' = indexed + 1
    /\ storedWindow' = Newest(window, limit) \cup {indexed}
    /\ pc' = "written"
    /\ UNCHANGED <<chain, rootCount, intact, limit, window, pending, ledger,
                   crashes>>

\* write_block: one batch moves the cursor and stores the window with the new
\* key in it, cut to the retention.
WriteBlock ==
    /\ pc = "persisted"
    /\ indexed' = indexed + 1
    /\ storedWindow' = Newest(window \cup {indexed}, limit)
    /\ pc' = "written"
    /\ UNCHANGED <<chain, rootCount, intact, limit, window, pending, ledger,
                   crashes>>

\* Back in the loop: push the new key, and unpersist the ones that aged out.
\* Unpersisting only records a delta; the next persist flushes it.
AdvanceWindow ==
    /\ pc = "written"
    /\ LET pushed == window \cup {indexed - 1}
           kept   == Newest(pushed, limit)
       IN  /\ window' = kept
           /\ pending' = [k \in Key |-> pending[k] - Occ(pushed \ kept, k)]
    /\ pc' = "advanced"
    /\ UNCHANGED <<chain, disk, limit, ledger, crashes>>

\* The time-bounded sweep may cull any states no root references, deltas
\* included, or none: it runs only at the tip or every 16th block.
Collect ==
    /\ pc = "advanced"
    /\ \E culled \in SUBSET {k \in intact : FlushedCount(k) <= 0} :
          intact' = intact \ culled
    /\ pc' = "ready"
    /\ UNCHANGED <<chain, indexed, storedWindow, rootCount, limit, window,
                   pending, ledger, crashes>>

\* The process ends: an error, a panic, the watchdog or a signal.  systemd
\* starts it again.
Crash ==
    /\ pc # "down"
    /\ crashes < MaxCrashes
    /\ crashes' = crashes + 1
    /\ pc' = "down"
    /\ window' = {}
    /\ pending' = NoDelta
    /\ ledger' = NoKey
    /\ UNCHANGED <<chain, disk, limit>>

Work == Start \/ Seed \/ PersistBlock \/ WriteBlock
           \/ AdvanceWindow \/ Collect
Next == Work \/ Crash

Spec == Init /\ [][Next]_vars /\ WF_vars(Work)
LegacySpec == LegacyInit /\ [][Next]_vars

----------------------------------------------------------------------------
(* Properties *)

\* The in-memory window never unpersists a state more often than it was
\* persisted: no flush can drive a root count below zero and panic.
NoUnderflow == \A k \in Key : FlushedCount(k) >= 0

\* Whatever point the process died at, the next run finds a loadable state
\* and replays the next block on the right one: it never bails, with "no
\* loadable ledger state root remains" or a root mismatch.
NeverStranded == pc # "bailed"

\* At every moment, and so for every crash and every API reader, each state
\* the stored window names is rooted and whole.
StoredWindowLoadable ==
    \A h \in storedWindow : rootCount[chain[h]] > 0 /\ chain[h] \in intact

\* With one retention, restarts never lose or resurrect a height: the stored
\* window is exactly the newest blocks.
StoredWindowExact ==
    storedWindow = {h \in 0 .. indexed - 1 : h >= indexed - limit}

\* Repair and seeding never report as loadable a state that was swept: a
\* rooted state of the stored window is whole, in an undercounted store too.
RootedIsWhole ==
    \A h \in storedWindow : rootCount[chain[h]] > 0 => chain[h] \in intact

\* Each process death leaks at most one root count: the orphan of a block
\* persisted but not written, or the pending unpersist of the oldest state.
OrphanRootsBounded ==
    Cardinality(References(rootCount))
        <= Cardinality(storedWindow) + crashes
              + (IF pc \in {"persisted", "written", "advanced", "ready"}
                 THEN 1 ELSE 0)

\* Start-up only ever raises root counts, and never of a swept state.
RepairOnlyRaises ==
    [][pc = "down" => \A k \in Key :
         /\ rootCount'[k] >= rootCount[k]
         /\ rootCount'[k] > rootCount[k] => k \in intact]_vars

\* Deaths are finitely many, so the pipeline reaches the end of the chain.
IndexingCompletes == <>[](indexed = MaxHeight)

----------------------------------------------------------------------------
(* The inductive invariant: what each stage of a run knows about the roots. *)

\* What holds on disk at every moment, whatever the process is doing.
DiskInv ==
    /\ storedWindow \subseteq 0 .. indexed - 1
    /\ indexed > 0 => /\ indexed - 1 \in storedWindow
                      /\ rootCount[chain[indexed - 1]] > 0
    /\ RootedIsWhole

\* Every state of the window is whole and every root is counted once, deltas
\* included, for each block of the window.
Backed(S) ==
    /\ \A h \in S : chain[h] \in intact
    /\ \A k \in Key : FlushedCount(k) >= Occ(S, k)

StageInv ==
    /\ pc \in {"down", "repaired", "persisted", "written"} => pending = NoDelta
    /\ pc = "repaired" =>
          \A k \in Key : rootCount[k] > 0 => rootCount[k] >= Occ(storedWindow, k)
    /\ pc \in {"ready", "advanced"} =>
          /\ window \subseteq 0 .. indexed - 1
          /\ indexed > 0 => indexed - 1 \in window /\ ledger = chain[indexed - 1]
          /\ Backed(window)
    /\ pc = "advanced" => window = storedWindow
    /\ pc = "persisted" =>
          /\ indexed < MaxHeight
          /\ window \subseteq 0 .. indexed - 1
          /\ ledger = chain[indexed]
          /\ Backed(window \cup {indexed})
    /\ pc = "written" =>
          /\ indexed > 0
          /\ window \subseteq 0 .. indexed - 2
          /\ ledger = chain[indexed - 1]
          /\ Backed(window \cup {indexed - 1})
          /\ storedWindow = Newest(window \cup {indexed - 1}, limit)

IInv == TypeOK /\ DiskInv /\ NeverStranded /\ StageInv

\* From a fresh directory the counts always pay for the stored window, and
\* the window in memory is the stored one but for the block under way.
StoredInv ==
    /\ \A h \in storedWindow : chain[h] \in intact
    /\ \A k \in Key : rootCount[k] >= Occ(storedWindow, k)
    /\ pc \in {"ready", "persisted", "advanced"} => window = storedWindow

\* With one retention: once the deltas are flushed there is a root count for
\* every block of the window in memory and every death, and as a window lets
\* go of one block at most, there is no more than one to flush.
OrphanInv ==
    LET rooted  == Cardinality(References(rootCount))
        flushed == References([k \in Key |-> FlushedCount(k)])
    IN  /\ IsFiniteSet(References(rootCount))
        /\ pc \in {"down", "repaired"} => rooted <= Cardinality(storedWindow) + crashes
        /\ pc \in {"ready", "advanced"} =>
              /\ Cardinality(flushed) <= Cardinality(storedWindow) + crashes
              /\ rooted <= Cardinality(flushed) + 1
        /\ pc = "persisted" => rooted <= Cardinality(storedWindow) + 1 + crashes
        /\ pc = "written" =>
              /\ rooted <= Cardinality(window) + 1 + crashes
              /\ window = {h \in 0 .. indexed - 2 : h >= indexed - 1 - limit}
=============================================================================
