------------------------------ MODULE Backfills ------------------------------
(***************************************************************************)
(* The resumable rewrites of a data directory that an older build left:    *)
(*   states    schema 1 to 2: inline contract states become content        *)
(*             addressed blobs, then the legacy partition is deleted       *)
(*   events    contract events are correlated with the emitting call       *)
(*   dust      dust generation rows are keyed by night UTXO hash           *)
(*   sidecars  wallet indexes, at every start of the indexer               *)
(* One process runs at a time and does one of them; it may die between any *)
(* two steps and be started again with any of the four.  Every task reads  *)
(* the committed store only and writes batches of CommitEvery rows.        *)
(*                                                                         *)
(* Ids start at 1, every block has one transaction, and a blob stands for  *)
(* its own hash.  A batch is kept as the store it would commit to: draft.  *)
(***************************************************************************)
EXTENDS Naturals, Sequences, FiniteSets, SequencesExt

CONSTANTS Chains,       \* chains: their actions and their events, by id
          Empty,        \* the state of a failed contract action
          Blob,         \* the other contract states
          BaseIndex,    \* Zswap first-free index before the first transaction
          CommitEvery,  \* COMMIT_EVERY: writes of a batch
          CacheLimit,   \* transactions the event backfill caches, 10_000
          MaxHeight,    \* bound: blocks
          MaxCrashes    \* bound: process deaths

\* write_block gives out ids block by block.
InOrderOfBlocks(rows) == \A i, j \in DOMAIN rows : i <= j => rows[i].tx <= rows[j].tx

ASSUME CommitEveryAssumption == CommitEvery \in Nat \ {0}
ASSUME CacheLimitAssumption == CacheLimit \in Nat
ASSUME BaseIndexAssumption == BaseIndex \in Nat
ASSUME MaxHeightAssumption == MaxHeight \in Nat \ {0}
ASSUME BlobAssumption == Empty \notin Blob
ASSUME ChainsAssumption ==
    \A c \in Chains :
       /\ c.actions \in Seq(ToSet(c.actions)) /\ c.events \in Seq(ToSet(c.events))
       /\ \A a \in DOMAIN c.actions : /\ c.actions[a].tx \in 1 .. MaxHeight
                                      /\ c.actions[a].state \in Blob \cup {Empty}
       /\ \A e \in DOMAIN c.events : c.events[e].tx \in 1 .. MaxHeight
       /\ InOrderOfBlocks(c.actions) /\ InOrderOfBlocks(c.events)

VARIABLES
    chain,    \* rigid: the blocks' actions and events
    store,    \* what is committed
    draft,    \* what is committed once the batch in hand is
    task,     \* what the process does, "down" without a process
    at,       \* id or round the task has come to
    pending,  \* writes counted in the batch
    hashes,   \* pending_hashes: blobs in the batch
    plan,     \* of the dust rebuild: keys to remove, events to insert
    cached,   \* keys of actions_cache: transactions
    done,     \* history: tasks completed and not begun anew since
    crashes   \* history: process deaths so far

progress == <<task, at, pending, hashes, plan, cached>>
vars == <<chain, store, draft, progress, done, crashes>>

None == 0
Tasks == {"states", "events", "dust", "sidecars"}
NoPlan == [old |-> <<>>, oldOwner |-> <<>>, new |-> <<>>]

----------------------------------------------------------------------------
(* What the chain holds up to a transaction *)

UpTo(rows, n) == SubSeq(rows, 1, Cardinality({i \in DOMAIN rows : rows[i].tx <= n}))

Actions(n) == UpTo(chain.actions, n)
Events(n) == UpTo(chain.events, n)

Outputs(events) == Cardinality({e \in DOMAIN events : events[e].kind = "output"})

\* The Zswap first-free index after n transactions, as the ledger has it.
FirstFree(n) == BaseIndex + Outputs(Events(n))

\* The events that have a dust generation row, and all that are grouped as dust:
\* spends and parameters, too.
IsGeneration(event) == event.kind \in {"initial", "dtime"}
IsDust(event) == IsGeneration(event) \/ event.kind = "dust"

\* The call of the event's transaction that has its contract and entry point,
\* if there is exactly one.
Correlate(event, actions) ==
    LET matching == {a \in DOMAIN actions : /\ actions[a].tx = event.tx
                                            /\ actions[a].call = event.of}
    IN  IF event.kind = "contract" /\ Cardinality(matching) = 1
        THEN CHOOSE a \in matching : TRUE ELSE None

V2Record(action) == [tx |-> action.tx, call |-> action.call,
                     hash |-> IF action.state = Empty THEN None ELSE action.state]

\* The event that determines each dust generation row: the last of its UTXO.
DustRows(events) ==
    [u \in {events[e].of : e \in {i \in DOMAIN events : IsGeneration(events[i])}} |->
        Max({e \in DOMAIN events : IsGeneration(events[e]) /\ events[e].of = u})]

\* A UTXO's dtime is updated after it was created, and created once.
Legal(events) ==
    \A e \in DOMAIN events :
       LET Creates(i) == events[i].kind = "initial" /\ events[i].of = events[e].of IN
       /\ events[e].kind = "dtime" => \E i \in 1 .. e - 1 : Creates(i)
       /\ events[e].kind = "initial" => \A i \in 1 .. e - 1 : ~Creates(i)

----------------------------------------------------------------------------
(* The store *)

\* Rows, with new ones that replace those of the same key.
With(new, rows) == [k \in DOMAIN new \cup DOMAIN rows |->
                       IF k \in DOMAIN new THEN new[k] ELSE rows[k]]

\* Where older builds kept an event's dust row: under an index that differs
\* between the events of one UTXO.
OldKey(event, e) == IF event.kind = "initial" THEN <<"index", event.of>>
                                              ELSE <<"path", e>>

\* A data directory with n blocks, the first old of which were written by a
\* build without dust keys by UTXO and without event correlation.
OldStore(n, schema, old, sidecars) ==
    LET actions == Actions(n)
        events == Events(n)
        before == {e \in DOMAIN events : events[e].tx <= old}
        oldDust == {e \in before : IsGeneration(events[e])}
        newDust == DustRows([e \in DOMAIN events |->
                      IF e \in before THEN [events[e] EXCEPT !.kind = "other"]
                                      ELSE events[e]])
    IN [height |-> n, schema |-> schema, legacy |-> schema = None /\ n > 0,
        v2 |-> IF schema = None THEN <<>>
               ELSE [a \in DOMAIN actions |-> V2Record(actions[a])],
        blobs |-> [b \in Blob |-> IF /\ schema # None
                                     /\ \E a \in DOMAIN actions : actions[a].state = b
                                  THEN 1 ELSE 0],
        cursor |-> None,
        byContract |-> {e \in DOMAIN events \ before : events[e].kind = "contract"},
        correlated |-> [e \in DOMAIN events |-> IF e \in before THEN None
                                                ELSE Correlate(events[e], actions)],
        dustGen |-> With(newDust, [k \in {OldKey(events[e], e) : e \in oldDust} |->
                       CHOOSE e \in oldDust : OldKey(events[e], e) = k]),
        dustByOwner |-> {OldKey(events[e], e) : e \in oldDust} \cup DOMAIN newDust,
        walletTx |-> IF sidecars
                     THEN [t \in 1 .. n |-> [start |-> FirstFree(t - 1),
                                             end |-> FirstFree(t)]] ELSE <<>>,
        txThrough |-> IF sidecars THEN n ELSE 0,
        walletDust |-> IF sidecars
                       THEN {e \in DOMAIN events : IsDust(events[e])} ELSE {},
        dustThrough |-> IF sidecars THEN Len(events) ELSE 0]

\* The schema the store is opened with, which also names the partition that
\* contract actions are read from; an empty store is current.
Opened(s) == IF s.schema = None /\ s.height = 0 THEN [s EXCEPT !.schema = 2] ELSE s

Current(s) == s.schema # None

TypeOK ==
    /\ DOMAIN store = DOMAIN draft
    /\ store.height \in 0 .. MaxHeight /\ store.schema \in {None, 2}
    /\ store.cursor \in 0 .. Len(Actions(store.height))
    /\ store.txThrough \in 0 .. store.height
    /\ store.dustThrough \in 0 .. Len(Events(store.height))
    /\ task \in {"down", "states", "reclaim", "events", "dust", "sidecars",
                 "dustEvents", "indexing", "failed"}
    /\ at \in Nat
    /\ pending \in 0 .. CommitEvery - 1
    /\ pending = 0 => draft = store
    /\ hashes \subseteq Blob
    /\ cached \subseteq 1 .. MaxHeight
    /\ done \subseteq Tasks

Init ==
    /\ chain \in {c \in Chains : Legal(c.events)}
    /\ \/ store = OldStore(0, None, 0, FALSE)
       \/ \E schema \in {None, 2}, old \in 0 .. MaxHeight - 1, sidecars \in BOOLEAN :
             store = OldStore(MaxHeight - 1, schema, old, sidecars)
    /\ draft = store
    /\ task = "down" /\ at = 1 /\ pending = 0 /\ hashes = {} /\ plan = NoPlan
    /\ cached = {} /\ done = {} /\ crashes = 0

----------------------------------------------------------------------------
(* Batches *)

\* s is the batch with n more writes; it commits once there are enough.
Write(s, n) ==
    /\ draft' = s
    /\ IF pending + n >= CommitEvery
       THEN store' = s /\ pending' = 0
       ELSE pending' = pending + n /\ UNCHANGED store

\* The last batch of a task.
Complete(s, next) ==
    /\ store' = s /\ draft' = s
    /\ task' = next
    /\ pending' = 0 /\ hashes' = {} /\ plan' = NoPlan /\ cached' = {} /\ at' = 1

----------------------------------------------------------------------------
(* contract states: schema 1 to 2 *)

\* Faulty: blobs of the batch in hand count as absent.
NewInStore(state) == state # Empty /\ store.blobs[state] = 0

NewBlob(state) == state # Empty /\ store.blobs[state] = 0 /\ state \notin hashes

\* One record; the cursor is written with the batch that the record fills.
MigrateAction ==
    /\ task = "states"
    /\ at \in DOMAIN Actions(store.height)
    /\ LET action == Actions(store.height)[at]
           fresh == {b \in {action.state} : NewBlob(b)}
           migrated == [draft EXCEPT !.v2 = With([a \in {at} |-> V2Record(action)], @),
                                     !.blobs = [b \in Blob |-> IF b \in fresh
                                                   THEN @[b] + 1 ELSE @[b]]]
           full == pending + 1 >= CommitEvery
       IN  /\ Write(IF full THEN [migrated EXCEPT !.cursor = at] ELSE migrated, 1)
           /\ hashes' = IF full THEN {} ELSE hashes \cup fresh
    /\ at' = at + 1
    /\ UNCHANGED <<chain, task, plan, cached, done, crashes>>

CutOver ==
    /\ task = "states"
    /\ at \notin DOMAIN Actions(store.height)
    /\ Complete([draft EXCEPT !.cursor = None, !.schema = 2], "reclaim")
    /\ UNCHANGED <<chain, done, crashes>>

\* The legacy partition, if it is still there, is deleted.
Reclaim ==
    /\ task = "reclaim"
    /\ Complete([store EXCEPT !.legacy = FALSE], "down")
    /\ done' = done \cup {"states"}
    /\ UNCHANGED <<chain, crashes>>

----------------------------------------------------------------------------
(* contract events *)

\* Faulty: the cache is full one entry early.
CachedOneLess(tx) == IF tx \in cached THEN cached
                     ELSE IF Cardinality(cached \cup {tx}) >= CacheLimit THEN {}
                     ELSE cached \cup {tx}

\* actions_cache once a transaction was looked up in it and, if it was not
\* there, inserted: one entry too many clears it, the new one included.
Cached(tx) == IF tx \in cached THEN cached
              ELSE IF Cardinality(cached \cup {tx}) > CacheLimit THEN {}
              ELSE cached \cup {tx}

\* Each contract event gets its index row; its record is rewritten if the
\* correlation changes, never to lose one it has.
CorrelateEvent ==
    /\ task = "events"
    /\ at \in DOMAIN Events(store.height)
    /\ LET event == Events(store.height)[at]
           found == Correlate(event, Actions(store.height))
           has == store.correlated[at]
           rewrite == found \notin {None, has}
       IN  IF event.kind = "contract"
           THEN /\ event.tx \in Cached(event.tx)
                /\ cached' = Cached(event.tx)
                /\ Write([draft EXCEPT !.byContract = @ \cup {at},
                                       !.correlated[at] = IF rewrite THEN found ELSE @],
                         IF rewrite THEN 2 ELSE 1)
           ELSE UNCHANGED <<store, draft, pending, cached>>
    /\ at' = at + 1
    /\ UNCHANGED <<chain, task, hashes, plan, done, crashes>>

\* The entry that was just cleared is indexed: the process panics, and what
\* the batch has of the event and those before it is lost.
CorrelatePanics ==
    /\ task = "events"
    /\ at \in DOMAIN Events(store.height)
    /\ LET event == Events(store.height)[at]
       IN  event.kind = "contract" /\ event.tx \notin Cached(event.tx)
    /\ Complete(store, "down")
    /\ UNCHANGED <<chain, done, crashes>>

\* Faulty: the batch that did not fill is dropped.
FinishEventsUncommitted ==
    /\ task = "events"
    /\ at \notin DOMAIN Events(store.height)
    /\ Complete(store, "down")
    /\ done' = done \cup {"events"}
    /\ UNCHANGED <<chain, crashes>>

FinishEvents ==
    /\ task = "events"
    /\ at \notin DOMAIN Events(store.height)
    /\ Complete(draft, "down")
    /\ done' = done \cup {"events"}
    /\ UNCHANGED <<chain, crashes>>

----------------------------------------------------------------------------
(* dust generation *)

\* Ids in the order of an iterator.
Ascending(ids) ==
    [i \in 1 .. Cardinality(ids) |->
        CHOOSE e \in ids : Cardinality({f \in ids : f <= e}) = i]

\* Faulty: every old key is removed, in key order, while it is also inserted,
\* in event order.
PlanRemovingAll(s) ==
    [old |-> SetToSeq(DOMAIN s.dustGen),
     oldOwner |-> SetToSeq(s.dustByOwner),
     new |-> Ascending({e \in DOMAIN Events(s.height) : IsGeneration(Events(s.height)[e])})]

\* Faulty: nothing is removed.
PlanRemovingNone(s) == [PlanRemovingAll(s) EXCEPT !.old = <<>>, !.oldOwner = <<>>]

\* The rebuild is computed from the events before anything is written: rows
\* to insert in event order, and as garbage the keys that none of them has.
Plan(s) ==
    LET events == Events(s.height)
        rebuilt == {events[e].of : e \in {i \in DOMAIN events : IsGeneration(events[i])}}
    IN [old |-> SetToSeq(DOMAIN s.dustGen \ rebuilt),
        oldOwner |-> SetToSeq(s.dustByOwner \ rebuilt),
        new |-> Ascending({e \in DOMAIN events : IsGeneration(events[e])})]

Rounds == DOMAIN plan.old \cup DOMAIN plan.oldOwner \cup DOMAIN plan.new

\* The next of each of the four streams that has one: two removals, then two
\* insertions.  The batch commits only after such a round.
DustRound ==
    /\ task = "dust"
    /\ at \in Rounds
    /\ LET Next(stream) == {stream[i] : i \in {at} \cap DOMAIN stream}
           Key(e) == Events(store.height)[e].of
           new == Next(plan.new)
           kept == [k \in DOMAIN draft.dustGen \ Next(plan.old) |-> draft.dustGen[k]]
       IN  Write([draft EXCEPT
                    !.dustGen = With([k \in {Key(e) : e \in new} |->
                                         CHOOSE e \in new : TRUE], kept),
                    !.dustByOwner = (@ \ Next(plan.oldOwner)) \cup {Key(e) : e \in new}],
                 Cardinality(Next(plan.old)) + Cardinality(Next(plan.oldOwner))
                    + 2 * Cardinality(new))
    /\ at' = at + 1
    /\ UNCHANGED <<chain, task, hashes, plan, cached, done, crashes>>

FinishDust ==
    /\ task = "dust"
    /\ at \notin Rounds
    /\ Complete(draft, "down")
    /\ done' = done \cup {"dust"}
    /\ UNCHANGED <<chain, crashes>>

----------------------------------------------------------------------------
(* wallet side indexes, and the indexer they are built for *)

\* zswap_first_free of the tip's ledger state, 0 without a stored window.
CurrentEnd == IF store.height = 0 THEN 0 ELSE FirstFree(store.height)

\* Faulty: a resumed run counts back from the end again.
ZswapCountedBack == CurrentEnd - Outputs(Events(store.height))

\* Where the next transaction starts: after the last one that has a row, or
\* else as many outputs before the tip's index as there are in all events.
ZswapIndex == IF draft.txThrough = 0
              THEN CurrentEnd - Outputs(Events(store.height))
              ELSE draft.walletTx[draft.txThrough].end

IndexTx ==
    /\ task = "sidecars"
    /\ at <= store.height
    /\ LET outputs == Cardinality({e \in DOMAIN Events(store.height) :
                          Events(store.height)[e].kind = "output"
                             /\ Events(store.height)[e].tx = at})
       IN  Write([draft EXCEPT !.walletTx = With([t \in {at} |->
                                   [start |-> ZswapIndex, end |-> ZswapIndex + outputs]], @),
                               !.txThrough = at], 1)
    /\ at' = at + 1
    /\ UNCHANGED <<chain, task, hashes, plan, cached, done, crashes>>

\* The indexes must end where the ledger state is; if not, the run fails.
CheckEnd ==
    /\ task = "sidecars"
    /\ at > store.height
    /\ IF ZswapIndex = CurrentEnd
       THEN task' = "dustEvents" /\ at' = store.dustThrough + 1
       ELSE task' = "failed" /\ UNCHANGED at
    /\ UNCHANGED <<chain, store, draft, pending, hashes, plan, cached, done, crashes>>

IndexDustEvent ==
    /\ task = "dustEvents"
    /\ at \in DOMAIN Events(store.height)
    /\ LET rows == {e \in {at} : IsDust(Events(store.height)[e])}
       IN  Write([draft EXCEPT !.walletDust = @ \cup rows, !.dustThrough = at], 1)
    /\ at' = at + 1
    /\ UNCHANGED <<chain, task, hashes, plan, cached, done, crashes>>

StartIndexing ==
    /\ task = "dustEvents"
    /\ at \notin DOMAIN Events(store.height)
    /\ Complete(draft, "indexing")
    /\ done' = done \cup {"sidecars"}
    /\ UNCHANGED <<chain, crashes>>

\* write_block's rows for one more block, as far as they matter here.
Indexed(t) ==
    LET actions == Actions(t)
        events == Events(t)
        added == {e \in DOMAIN events : events[e].tx = t}
        dust == DustRows(events)
        keys == {events[e].of : e \in {i \in added : IsGeneration(events[i])}}
        written == {a \in DOMAIN actions : actions[a].tx = t}
    IN  [store EXCEPT
           !.height = t,
           !.v2 = With([a \in written |-> V2Record(actions[a])], @),
           !.blobs = [b \in Blob |->
              IF @[b] = 0 /\ \E a \in written : actions[a].state = b THEN 1 ELSE @[b]],
           !.byContract = @ \cup {e \in added : events[e].kind = "contract"},
           !.correlated = With([e \in added |-> Correlate(events[e], actions)], @),
           !.dustGen = With([k \in keys |-> dust[k]], @),
           !.dustByOwner = @ \cup keys,
           !.walletTx = With([u \in {t} |->
                               [start |-> FirstFree(u - 1), end |-> FirstFree(u)]], @),
           !.txThrough = t,
           !.walletDust = @ \cup {e \in added : IsDust(events[e])},
           !.dustThrough = Len(events)]

IndexBlock ==
    /\ task = "indexing"
    /\ store.height < MaxHeight
    /\ Complete(Indexed(store.height + 1), "indexing")
    /\ UNCHANGED <<chain, done, crashes>>

----------------------------------------------------------------------------
(* The process *)

\* Whoever reads records refuses a store that is not on the current schema.
Open(t) ==
    /\ task = "down"
    /\ t = "states" \/ Current(Opened(store))
    /\ store' = Opened(store) /\ draft' = store'
    /\ task' = IF t = "states" /\ Current(store') THEN "reclaim" ELSE t
    /\ at' = CASE t = "states"   -> store.cursor + 1
                [] t = "sidecars" -> store.txThrough + 1
                [] OTHER          -> 1
    /\ plan' = IF t = "dust" THEN Plan(store) ELSE NoPlan
    /\ pending' = 0 /\ hashes' = {} /\ cached' = {}
    /\ done' = done \ {t}
    /\ UNCHANGED <<chain, crashes>>

\* The batch in hand is lost.
Crash ==
    /\ task \notin {"down", "failed"}
    /\ crashes < MaxCrashes
    /\ crashes' = crashes + 1
    /\ Complete(store, "down")
    /\ UNCHANGED <<chain, done>>

\* The operator stops the indexer.
Stop ==
    /\ task = "indexing"
    /\ Complete(store, "down")
    /\ UNCHANGED <<chain, done, crashes>>

Work == MigrateAction \/ CutOver \/ Reclaim \/ CorrelateEvent \/ CorrelatePanics
           \/ FinishEvents \/ DustRound \/ FinishDust \/ IndexTx \/ CheckEnd \/ IndexDustEvent
           \/ StartIndexing \/ IndexBlock

Next == Work \/ Crash \/ Stop \/ \E t \in Tasks : Open(t)

Spec == Init /\ [][Next]_vars

----------------------------------------------------------------------------
(* Properties *)

\* The contract-states migration, wherever it dies and however often it is
\* run: the partition the store is opened with holds every action, each
\* action's state can be found, and no blob is in the blob log twice.
MigrationExact ==
    /\ Current(store) =>
          LET actions == Actions(store.height) IN
          /\ DOMAIN store.v2 = DOMAIN actions
          /\ \A a \in DOMAIN actions :
                /\ store.v2[a] = V2Record(actions[a])
                /\ actions[a].state # Empty => store.blobs[actions[a].state] > 0
    /\ ~Current(store) /\ store.height > 0 => store.legacy
    /\ \A b \in Blob : store.blobs[b] <= 1

\* Once the event backfill is through, and while the pipeline goes on, every
\* contract event is in the index of its contract and is attributed to the
\* call that the pipeline would have found; an attribution is never wrong.
EventsExact ==
    LET actions == Actions(store.height)
        events == Events(store.height)
    IN \A e \in DOMAIN events :
          /\ store.correlated[e] \in {None, Correlate(events[e], actions)}
          /\ e \in store.byContract => events[e].kind = "contract"
          /\ "events" \in done =>
                /\ store.correlated[e] = Correlate(events[e], actions)
                /\ events[e].kind = "contract" => e \in store.byContract

\* The transactions with contract events up to an event.
ContractTxs(n, last) ==
    {Events(n)[e].tx : e \in {i \in DOMAIN Events(n) :
                                 i <= last /\ Events(n)[i].kind = "contract"}}

\* An event backfill ends, and not because it was killed.
EventsEnd == task = "events" /\ task' = "down" /\ crashes' = crashes

\* A run of the event backfill that is not killed goes through if and only if
\* the transactions with contract events all fit in its cache.  On a store
\* with more of them every run panics, however often it is begun.
EventsGoThrough ==
    [][EventsEnd =>
          LET n == store.height
          IN  "events" \in done' <=>
                 Cardinality(ContractTxs(n, Len(Events(n)))) <= CacheLimit]_vars

\* What the module's comment says of a run: every contract event is correlated
\* as the pipeline does it, and in the index of its contract.
EventsCorrelated ==
    [][EventsEnd =>
          LET events == Events(store.height)
          IN  \A e \in DOMAIN events :
                 events[e].kind = "contract" =>
                    /\ e \in store'.byContract
                    /\ store'.correlated[e] = Correlate(events[e], Actions(store.height))]_vars

\* Once the rebuild is through, dust generation rows are those of the last
\* event of each UTXO, under its hash and nothing else, in both partitions.
DustExact ==
    "dust" \in done =>
       /\ store.dustGen = DustRows(Events(store.height))
       /\ store.dustByOwner = DOMAIN store.dustGen

\* No batch of the rebuild, and no death in it, takes away a row it should
\* keep: at every commit boundary the index still has it.
DustRowsStay ==
    [][\A e \in DOMAIN Events(store.height) :
          LET event == Events(store.height)[e] IN
          IsGeneration(event) =>
             /\ event.of \in DOMAIN store.dustGen => event.of \in DOMAIN store'.dustGen
             /\ event.of \in store.dustByOwner => event.of \in store'.dustByOwner]_vars

\* The rows up to the progress marks are those the pipeline would have
\* written, a resumed run never fails its final check, and the indexer only
\* starts once they are complete.
SidecarsExact ==
    /\ \A t \in 1 .. store.txThrough :
          store.walletTx[t] = [start |-> FirstFree(t - 1), end |-> FirstFree(t)]
    /\ store.walletDust = {e \in 1 .. store.dustThrough : IsDust(Events(store.height)[e])}
    /\ task = "indexing" => /\ store.txThrough = store.height
                            /\ store.dustThrough = Len(Events(store.height))
    /\ task # "failed"

----------------------------------------------------------------------------
(* The inductive invariant: how far the task in hand has got, and what the *)
(* store keeps if it dies now.                                             *)

Fields == {"height", "schema", "legacy", "v2", "blobs", "cursor", "byContract",
           "correlated", "dustGen", "dustByOwner", "walletTx", "txThrough",
           "walletDust", "dustThrough"}

Typed ==
    /\ chain \in Chains
    /\ DOMAIN store = Fields /\ DOMAIN draft = Fields
    /\ store.height \in 0 .. MaxHeight /\ store.schema \in {None, 2}
    /\ task \in Tasks \cup {"down", "reclaim", "dustEvents", "indexing"}
    /\ at \in Nat \ {0}
    /\ hashes \subseteq Blob

\* The rows a task writes.
Own(t) == CASE t = "states" -> {"v2", "blobs", "cursor"}
            [] t = "events" -> {"byContract", "correlated"}
            [] t = "dust"   -> {"dustGen", "dustByOwner"}
            [] t \in {"sidecars", "dustEvents"} ->
                  {"walletTx", "txThrough", "walletDust", "dustThrough"}
            [] OTHER        -> {}

\* A batch has no rows but its task's own.
FrameInv ==
    /\ \A f \in Fields \ Own(task) : draft[f] = store[f]
    /\ task \in Tasks => task \notin done
    /\ task \notin {"down", "states"} => Current(store)

\* The current partition and the blob log are those of the first n actions.
Migrated(s, n) ==
    LET actions == Actions(s.height)
    IN  /\ n \in 0 .. Len(actions)
        /\ DOMAIN s.v2 = 1 .. n
        /\ \A a \in 1 .. n : s.v2[a] = V2Record(actions[a])
        /\ s.blobs \in [Blob -> {0, 1}]
        /\ \A b \in Blob : s.blobs[b] = 1 <=> \E a \in 1 .. n : actions[a].state = b

\* Until it is cut over the store holds the actions up to its cursor; the
\* batch holds them up to the action in hand, and its new blobs are known.
MigrationInv ==
    /\ Current(store) => Migrated(store, Len(Actions(store.height)))
    /\ Current(store) => store.cursor = None
    /\ ~Current(store) => /\ Migrated(store, store.cursor)
                          /\ store.height > 0 => store.legacy
    /\ task = "states" => /\ ~Current(store)
                          /\ Migrated(draft, at - 1)
                          /\ draft.cursor = store.cursor /\ store.cursor < at
                          /\ hashes = {b \in Blob : draft.blobs[b] # store.blobs[b]}

\* The contract events up to an event are indexed and attributed.
Correlated(s, n) ==
    LET events == Events(s.height)
    IN  \A e \in DOMAIN events : e <= n =>
           /\ s.correlated[e] = Correlate(events[e], Actions(s.height))
           /\ events[e].kind = "contract" => e \in s.byContract

AttributionsRight(s) ==
    LET events == Events(s.height)
    IN  /\ DOMAIN s.correlated = DOMAIN events
        /\ s.byContract \subseteq DOMAIN events
        /\ \A e \in DOMAIN events :
              /\ s.correlated[e] \in {None, Correlate(events[e], Actions(s.height))}
              /\ e \in s.byContract => events[e].kind = "contract"

EventsInv ==
    /\ AttributionsRight(store) /\ AttributionsRight(draft)
    /\ \A e \in DOMAIN store.correlated : store.correlated[e] \in {None, draft.correlated[e]}
    /\ "events" \in done => Correlated(store, Len(Events(store.height)))
    /\ task = "events" => Correlated(draft, at - 1)

\* The cache has the transactions of the contract events so far: a run starts
\* with the first event, and has not cleared it if it still goes on.
CacheInv ==
    /\ task = "events" => /\ cached = ContractTxs(store.height, at - 1)
                          /\ Cardinality(cached) <= CacheLimit
    /\ crashes \in Nat

DustEvents(n) == {e \in DOMAIN Events(n) : IsGeneration(Events(n)[e])}
WalletEvents(n) == {e \in DOMAIN Events(n) : IsDust(Events(n)[e])}
DustKeys(n) == {Events(n)[e].of : e \in DustEvents(n)}

\* The streams of a plan: garbage that no rebuilt row has the key of, and the
\* events of the rebuilt rows in order.
PlanInv ==
    /\ \A f \in {"old", "oldOwner", "new"} : \E n \in Nat : DOMAIN plan[f] = 1 .. n
    /\ \A f \in {"old", "oldOwner"} : \A i \in DOMAIN plan[f] :
          plan[f][i] \notin DustKeys(store.height)
    /\ \A i \in DOMAIN plan.new : plan.new[i] \in DustEvents(store.height)
    /\ \A i, j \in DOMAIN plan.new : i < j => plan.new[i] < plan.new[j]
    /\ \A e \in DustEvents(store.height) : \E i \in DOMAIN plan.new : plan.new[i] = e

\* Garbage that is left is still to come in its stream; a row whose UTXO has
\* come is that of the UTXO's last event so far.
RebuildInv ==
    LET events == Events(store.height) IN
    /\ \A k \in DOMAIN draft.dustGen \ DustKeys(store.height) :
          \E i \in DOMAIN plan.old : i >= at /\ plan.old[i] = k
    /\ \A k \in draft.dustByOwner \ DustKeys(store.height) :
          \E i \in DOMAIN plan.oldOwner : i >= at /\ plan.oldOwner[i] = k
    /\ \A i \in DOMAIN plan.new : i < at =>
          LET key == events[plan.new[i]].of IN
          /\ key \in draft.dustByOwner /\ key \in DOMAIN draft.dustGen
          /\ draft.dustGen[key] \in DustEvents(store.height)
          /\ events[draft.dustGen[key]].of = key
          /\ draft.dustGen[key] >= plan.new[i]

DustTyped(s) ==
    /\ s.dustGen \in [DOMAIN s.dustGen -> Nat]
    /\ IsFiniteSet(DOMAIN s.dustGen) /\ IsFiniteSet(s.dustByOwner)

DustInv ==
    /\ DustExact
    /\ task = "dust" => PlanInv /\ RebuildInv
    /\ DustTyped(store) /\ DustTyped(draft)
    /\ \A k \in DustKeys(store.height) :
          /\ k \in DOMAIN store.dustGen => k \in DOMAIN draft.dustGen
          /\ k \in store.dustByOwner => k \in draft.dustByOwner

\* The rows up to the progress marks.
Sidecars(s) ==
    /\ s.txThrough \in 0 .. s.height /\ DOMAIN s.walletTx = 1 .. s.txThrough
    /\ \A t \in 1 .. s.txThrough :
          s.walletTx[t] = [start |-> FirstFree(t - 1), end |-> FirstFree(t)]
    /\ s.dustThrough \in 0 .. Len(Events(s.height))
    /\ s.walletDust = {e \in WalletEvents(s.height) : e <= s.dustThrough}

SidecarsInv ==
    /\ Sidecars(store) /\ Sidecars(draft)
    /\ task = "sidecars" => draft.txThrough = at - 1 /\ draft.dustThrough = store.dustThrough
    /\ task = "dustEvents" => draft.txThrough = draft.height /\ draft.dustThrough = at - 1
    /\ task = "indexing" => /\ store.txThrough = store.height
                            /\ store.dustThrough = Len(Events(store.height))

IInv == Typed /\ FrameInv /\ MigrationInv /\ EventsInv /\ DustInv /\ SidecarsInv
=============================================================================
