----------------------------- MODULE BlockCommit -----------------------------
(***************************************************************************)
(* write_block and its batch: the rows one block adds to the transaction,  *)
(* contract and event partitions, in the order the code inserts them, and  *)
(* how they become visible.  The batch is one record in the journal, so a  *)
(* crash keeps all of it or nothing; but fjall applies it to the memtables *)
(* item by item, and the API's reads take the newest value of a key        *)
(* whatever its sequence number.  A reader therefore sees every prefix of  *)
(* the batch.                                                              *)
(*                                                                         *)
(* The store is one function per partition, from keys to rows.  Rows keep  *)
(* what other rows and the API's handlers look at.                         *)
(***************************************************************************)
EXTENDS Integers, Sequences, FiniteSets, SequencesExt, FiniteSetsExt

CONSTANTS Hash,       \* transaction hashes: two transactions may share one
          Addr,       \* contract addresses
          Owner,      \* addresses of unshielded UTXOs
          State,      \* contract states, each standing for its content hash
          Failed,     \* the empty state of a failed contract action
          MaxHeight,  \* bound: blocks
          MaxTxs,     \* bound: transactions of all blocks together
          MaxCrashes  \* bound: process deaths

ASSUME FailedAssumption == Failed \notin State
ASSUME BoundsAssumption == MaxHeight \in Nat /\ MaxTxs \in Nat /\ MaxCrashes \in Nat

\* Transactions: a contract action, whose contract may emit an event, or a
\* transfer that touches an address.  None is no action, no address, no height
\* and no row.
None == -1

ASSUME NoneAssumption == None \notin Addr \cup Owner

Transaction ==
    [hash : Hash, addr : Addr, state : State \cup {Failed}, emits : BOOLEAN, owner : {None}]
        \cup [hash : Hash, addr : {None}, state : {Failed}, emits : {FALSE}, owner : Owner]

Partition == {"txs_by_hash", "contract_actions", "contract_actions_by_addr",
              "contract_states", "contracts", "events_by_contract",
              "ledger_events", "txs", "addr_txs", "blocks", "meta"}

VARIABLES
    store,    \* what a read sees
    before,   \* what it saw before the commit under way
    batch,    \* rows not yet visible
    pc,       \* "idle", "building" or "committing"
    ids,      \* the Counters
    crashes   \* history: process deaths so far

writer == <<store, before, batch, pc, ids>>
vars == <<writer, crashes>>

----------------------------------------------------------------------------
(* Rows *)

Row(partition, key, value) ==
    [partition |-> partition, key |-> key, value |-> value]

\* The value of an index entry or a blob, which nothing looks at.
Entry == TRUE

Put(rows, key, value) ==
    [k \in DOMAIN rows \cup {key} |-> IF k = key THEN value ELSE rows[k]]

Insert(s, row) == [s EXCEPT ![row.partition] = Put(@, row.key, row.value)]

\* Of several rows of a key the last one is read.
RowsOf(rows, partition) == {i \in DOMAIN rows : rows[i].partition = partition}
RowsAt(rows, partition, key) == {i \in RowsOf(rows, partition) : rows[i].key = key}

InsertAll(s, rows) ==
    [p \in DOMAIN s |->
        [k \in DOMAIN s[p] \cup {rows[i].key : i \in RowsOf(rows, p)} |->
            LET at == RowsAt(rows, p, k)
            IN  IF at = {} THEN s[p][k] ELSE rows[Max(at)].value]]

Has(s, partition, key) == key \in DOMAIN s[partition]

\* A meta row, or what the code reads for a missing one.
Meta(s, key, default) == IF Has(s, "meta", key) THEN s.meta[key] ELSE default

LastOf(s) == Meta(s, "last_indexed_height", None)
LastHeight == LastOf(store)
StoredIds(s) == [tx     |-> Meta(s, "next_tx_id", 0),
                 action |-> Meta(s, "next_action_id", 0),
                 event  |-> Meta(s, "next_event_id", 0)]

TypeOK ==
    /\ DOMAIN store = Partition
    /\ \A t \in DOMAIN store.txs :
          t \in Nat /\ store.txs[t].hash \in Hash /\ store.txs[t].height \in Nat
    /\ \A a \in DOMAIN store.contract_actions :
          a \in Nat /\ store.contract_actions[a].state \in State \cup {Failed}
    /\ DOMAIN store.contract_states \subseteq State
    /\ DOMAIN store.contracts \subseteq Addr
    /\ \A i \in DOMAIN batch : batch[i].partition \in Partition
    /\ pc \in {"idle", "building", "committing"}
    /\ DOMAIN ids = {"tx", "action", "event"}
    /\ \A i \in DOMAIN ids : ids[i] \in Nat
    /\ crashes \in 0 .. MaxCrashes

Init ==
    /\ store = [p \in Partition |-> <<>>]
    /\ before = store
    /\ batch = <<>>
    /\ pc = "idle"
    /\ ids = StoredIds(store)
    /\ crashes = 0

----------------------------------------------------------------------------
(* Building the batch *)

\* What the loop over the transactions looks up: rows of earlier blocks, and
\* the rows of this one its in-block caches hold.
StoredOnly == store
WithCaches == InsertAll(store, batch)

\* The state blob, only if its content is new.
BlobRows(t) ==
    IF t.state # Failed /\ ~Has(WithCaches, "contract_states", t.state)
    THEN <<Row("contract_states", t.state, Entry)>>
    ELSE <<>>

\* Faulty: a failed action becomes the contract's latest one.
PointerRowsOfFailed(t) ==
    LET s == WithCaches IN
    <<Row("contracts", t.addr,
          [deploy |-> IF Has(s, "contracts", t.addr)
                      THEN s.contracts[t.addr].deploy ELSE ids.action,
           latest |-> ids.action])>>

\* The contract's first and latest action; a failed one moves neither.
PointerRows(t) ==
    LET s == WithCaches IN
    IF t.state = Failed THEN <<>>
    ELSE <<Row("contracts", t.addr,
               [deploy |-> IF Has(s, "contracts", t.addr)
                           THEN s.contracts[t.addr].deploy ELSE ids.action,
                latest |-> ids.action])>>

\* Faulty: the address index comes before the record.
ActionRowsIndexFirst(t, h) ==
    IF t.addr = None THEN <<>>
    ELSE <<Row("contract_actions_by_addr", <<t.addr, ids.action>>, Entry),
           Row("contract_actions", ids.action,
               [addr |-> t.addr, state |-> t.state, tx |-> ids.tx, height |-> h])>>
         \o BlobRows(t) \o PointerRows(t)

ActionRows(t, h) ==
    IF t.addr = None THEN <<>>
    ELSE <<Row("contract_actions", ids.action,
               [addr |-> t.addr, state |-> t.state, tx |-> ids.tx, height |-> h]),
           Row("contract_actions_by_addr", <<t.addr, ids.action>>, Entry)>>
         \o BlobRows(t) \o PointerRows(t)

\* The address index of an event comes before the event.
EventRows(t, h) ==
    IF ~t.emits THEN <<>>
    ELSE <<Row("events_by_contract", <<t.addr, ids.event>>, Entry),
           Row("ledger_events", ids.event,
               [addr |-> t.addr, tx |-> ids.tx, height |-> h])>>

\* One turn of the loop over the block's transactions; the transaction's own
\* record comes last.
AddTransaction ==
    /\ pc \in {"idle", "building"}
    /\ LastHeight + 1 < MaxHeight
    /\ ids.tx < MaxTxs
    /\ \E t \in Transaction :
          LET h == LastHeight + 1 IN
          /\ batch' = batch
                \o <<Row("txs_by_hash", <<t.hash, ids.tx>>, Entry)>>
                \o ActionRows(t, h) \o EventRows(t, h)
                \o <<Row("txs", ids.tx,
                         [hash |-> t.hash, height |-> h, owner |-> t.owner,
                          actions |-> IF t.addr = None THEN {} ELSE {ids.action},
                          events |-> IF t.emits THEN {ids.event} ELSE {}])>>
          /\ ids' = [tx     |-> ids.tx + 1,
                     action |-> ids.action + IF t.addr = None THEN 0 ELSE 1,
                     event  |-> ids.event + IF t.emits THEN 1 ELSE 0]
    /\ pc' = "building"
    /\ UNCHANGED <<store, before, crashes>>

\* Faulty: the cursor is the first row of the batch's tail, not the last ones.
BlockRowsCursorFirst ==
    LET h == LastHeight + 1 IN
    <<Row("meta", "last_indexed_height", h),
      Row("meta", "next_tx_id", ids.tx),
      Row("meta", "next_action_id", ids.action),
      Row("meta", "next_event_id", ids.event),
      Row("blocks", h, [first |-> StoredIds(store).tx,
                        count |-> ids.tx - StoredIds(store).tx])>>

\* The address history of the block's transactions: address after address, in
\* whatever order the map of touched ones yields them, each one's oldest first.
HistoryRows ==
    LET touching == {t \in StoredIds(store).tx .. ids.tx - 1 :
                        WithCaches.txs[t].owner # None}
        rows == {Row("addr_txs", <<WithCaches.txs[t].owner, t>>, Entry) : t \in touching}
    IN  {f \in SetToSeqs(rows) :
            \A i, j \in DOMAIN f : i < j /\ f[i].key[1] = f[j].key[1] =>
               /\ f[i].key[2] < f[j].key[2]
               /\ \A m \in i .. j : f[m].key[1] = f[i].key[1]}

\* The batch's tail: the block, then the cursor and the counters.
BlockRows ==
    LET h == LastHeight + 1 IN
    <<Row("blocks", h, [first |-> StoredIds(store).tx,
                        count |-> ids.tx - StoredIds(store).tx]),
      Row("meta", "last_indexed_height", h),
      Row("meta", "next_tx_id", ids.tx),
      Row("meta", "next_action_id", ids.action),
      Row("meta", "next_event_id", ids.event)>>

\* Complete the batch and commit it: from here on it is in the journal.
CommitBatch ==
    /\ pc \in {"idle", "building"}
    /\ LastHeight + 1 < MaxHeight
    /\ \E history \in HistoryRows : batch' = (batch \o history) \o BlockRows
    /\ pc' = "committing"
    /\ UNCHANGED <<store, before, ids, crashes>>

\* fjall makes the next row of the batch visible.
ApplyRow ==
    /\ pc = "committing"
    /\ store' = Insert(store, Head(batch))
    /\ batch' = Tail(batch)
    /\ IF Len(batch) = 1 THEN pc' = "idle" /\ before' = store'
                         ELSE UNCHANGED <<pc, before>>
    /\ UNCHANGED <<ids, crashes>>

\* The process ends and starts again.  A batch being built is gone; one being
\* applied is recovered from the journal, or lost with the journal's end.
Crash ==
    /\ crashes < MaxCrashes
    /\ crashes' = crashes + 1
    /\ store' \in {before} \cup
          (IF pc = "committing" THEN {InsertAll(store, batch)} ELSE {})
    /\ before' = store'
    /\ batch' = <<>>
    /\ pc' = "idle"
    /\ ids' = StoredIds(store')

Write == AddTransaction \/ CommitBatch \/ ApplyRow
Next == Write \/ Crash

Spec == Init /\ [][Next]_vars

----------------------------------------------------------------------------
(* Properties: each holds of what a reader may see at any moment, half of a *)
(* batch included.                                                          *)

\* Successful actions of a contract.
Succeeded(s, a) == {i \in DOMAIN s.contract_actions :
                       /\ s.contract_actions[i].addr = a
                       /\ s.contract_actions[i].state # Failed}

PointersOf(s) ==
    /\ DOMAIN s.contracts = {a \in Addr : Succeeded(s, a) # {}}
    /\ \A a \in DOMAIN s.contracts :
          s.contracts[a] = [deploy |-> Min(Succeeded(s, a)),
                            latest |-> Max(Succeeded(s, a))]

\* Between commits a contract's pointers are its first and its last successful
\* action: failed ones, several in one block and restarts leave no trace.
PointersExact == pc # "committing" => PointersOf(store)

\* Ids of a block's transactions.
TxsOf(block) == block.first .. block.first + block.count - 1

\* A transaction has its hash entry, its actions and its events.
Filed(s, t) ==
    /\ Has(s, "txs_by_hash", <<s.txs[t].hash, t>>)
    /\ \A a \in s.txs[t].actions :
          Has(s, "contract_actions", a) /\ s.contract_actions[a].tx = t
    /\ \A e \in s.txs[t].events :
          Has(s, "ledger_events", e) /\ s.ledger_events[e].tx = t

Whole(s, h) ==
    /\ Has(s, "blocks", h)
    /\ s.blocks[h].first = IF h = 0 THEN 0
                           ELSE s.blocks[h - 1].first + s.blocks[h - 1].count
    /\ \A t \in TxsOf(s.blocks[h]) :
          /\ Has(s, "txs", t)
          /\ s.txs[t].height = h
          /\ Filed(s, t)
          /\ s.txs[t].owner # None => Has(s, "addr_txs", <<s.txs[t].owner, t>>)

\* At and below the cursor nothing is missing, at any moment: blocks tile the
\* transaction ids, and every transaction has its hash and address entries,
\* actions and events.
TipComplete == \A h \in 0 .. LastHeight : Whole(store, h)

\* No blob is inserted over one that is there: with key-value separation the
\* old copy would stay in the blob log.
BlobsWrittenOnce ==
    \A i \in DOMAIN batch : batch[i].partition = "contract_states" =>
       /\ ~Has(store, "contract_states", batch[i].key)
       /\ \A j \in DOMAIN batch : batch[j].partition = "contract_states"
                                    /\ batch[j].key = batch[i].key => i = j

----------------------------------------------------------------------------
(* What makes them inductive.                                               *)

\* A function of functions.
IsStore(s) ==
    /\ s = [p \in Partition |-> s[p]]
    /\ \A p \in Partition : s[p] = [k \in DOMAIN s[p] |-> s[p][k]]

\* The rows refer to one another: s holds all that was written before n was the
\* next id, and above its cursor at most the transactions of one more block.
Linked(s, n) ==
    LET h == LastOf(s) + 1 IN
    /\ IsStore(s)
    /\ LastOf(s) \in Nat \cup {None}
    /\ n = [tx |-> n.tx, action |-> n.action, event |-> n.event]
    /\ n.tx \in 0 .. MaxTxs /\ n.action \in 0 .. n.tx /\ n.event \in 0 .. n.tx
    /\ DOMAIN s.txs = 0 .. n.tx - 1
    /\ DOMAIN s.contract_actions = 0 .. n.action - 1
    /\ DOMAIN s.ledger_events = 0 .. n.event - 1
    /\ DOMAIN s.blocks = 0 .. LastOf(s)
    /\ StoredIds(s).tx \in 0 .. n.tx
    /\ StoredIds(s).tx = IF h = 0 THEN 0 ELSE s.blocks[h - 1].first + s.blocks[h - 1].count
    /\ \A t \in DOMAIN s.txs :
          /\ s.txs[t].height \in 0 .. h
          /\ s.txs[t].height = h <=> t >= StoredIds(s).tx
          /\ Filed(s, t)
    /\ \A i \in DOMAIN s.contract_actions :
          LET action == s.contract_actions[i] IN
          /\ action.tx \in DOMAIN s.txs /\ action.height = s.txs[action.tx].height
          /\ Has(s, "contract_actions_by_addr", <<action.addr, i>>)
          /\ action.state = Failed \/ Has(s, "contract_states", action.state)
    /\ \A i \in DOMAIN s.ledger_events :
          LET event == s.ledger_events[i] IN
          /\ event.tx \in DOMAIN s.txs /\ event.height = s.txs[event.tx].height
          /\ Has(s, "events_by_contract", <<event.addr, i>>)
    /\ \A k \in DOMAIN s.events_by_contract : Has(s, "ledger_events", k[2])
    /\ PointersOf(s)

\* What a reader may rely on in s, whatever prefix of a batch it shows.
Sound(s) ==
    /\ IsStore(s)
    /\ LastOf(s) \in Nat \cup {None}
    /\ \A h \in 0 .. LastOf(s) : Whole(s, h)
    /\ \A t \in DOMAIN s.txs : t \in 0 .. MaxTxs - 1 /\ s.txs[t].height \in Nat
    /\ \A b \in DOMAIN s.blocks :
          TxsOf(s.blocks[b]) = {t \in DOMAIN s.txs : s.txs[t].height = b}
    /\ \A i \in DOMAIN s.contract_actions :
          LET action == s.contract_actions[i] IN
          /\ i \in 0 .. MaxTxs - 1 /\ action.height \in Nat
          /\ action.height <= LastOf(s) =>
                /\ Has(s, "txs", action.tx)
                /\ Has(s, "contract_actions_by_addr", <<action.addr, i>>)
    /\ \A k \in DOMAIN s.contract_actions_by_addr :
          Has(s, "contract_actions", k[2]) /\ s.contract_actions[k[2]].addr = k[1]
    /\ \A a \in DOMAIN s.contracts :
          LET latest == s.contracts[a].latest IN
          /\ Has(s, "contract_actions", latest)
          /\ s.contract_actions[latest].state # Failed
          /\ Has(s, "contract_states", s.contract_actions[latest].state)
    /\ \A i \in DOMAIN s.ledger_events :
          LET event == s.ledger_events[i] IN
          /\ i \in 0 .. MaxTxs - 1 /\ event.height \in Nat
          /\ Has(s, "events_by_contract", <<event.addr, i>>)
          /\ event.height <= LastOf(s) => Has(s, "txs", event.tx)
    /\ \A k \in DOMAIN s.events_by_contract :
          Has(s, "ledger_events", k[2]) => s.ledger_events[k[2]].addr = k[1]
    /\ \A k \in DOMAIN s.addr_txs :
          Has(s, "txs", k[2]) /\ s.txs[k[2]].owner = k[1]

\* A row that takes nothing from a reader of s: a record or a blob is new, one with
\* a height is above the cursor, the cursor moves up, and the rows stay sound.
Heights == {"txs", "contract_actions", "ledger_events"}
Orderly(s, row) ==
    /\ row.partition \in Partition
    /\ row.partition \in Heights \cup {"contract_states", "blocks"} =>
          row.key \notin DOMAIN s[row.partition]
    /\ row.partition \in Heights => row.value.height > LastOf(s)
    /\ row.partition = "txs" => row.value.height \notin DOMAIN s.blocks
    /\ LastOf(Insert(s, row)) >= LastOf(s)
    /\ Sound(Insert(s, row))

\* Each row of rows in its turn.
AllOrderly(s, rows) ==
    \A i \in DOMAIN rows : Orderly(InsertAll(s, SubSeq(rows, 1, i - 1)), rows[i])

IInv ==
    /\ Sound(before) /\ Linked(before, StoredIds(before))
    /\ Sound(store) /\ AllOrderly(store, batch) /\ Linked(WithCaches, ids)
    /\ pc \in {"idle", "building", "committing"}
    /\ batch \in Seq(ToSet(batch))
    /\ pc = "idle" => batch = <<>>
    /\ pc # "committing" => store = before /\ WithCaches.meta = store.meta
    /\ pc = "committing" => batch # <<>> /\ ids = StoredIds(WithCaches)
=============================================================================
