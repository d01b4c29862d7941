# nightfrost: verification project

nightfrost is a lean indexer of the Midnight chain. It follows a node's finalized
blocks, replays their transactions on an in-memory ledger state, compares the
resulting roots with the node's, keeps the recent ledger states in a
content-addressed arena, writes everything derived from a block into a fjall
key-value store in one batch, and serves the result over REST. One process runs
all of it; systemd starts it again when it ends.

These modules model the parts of that in which order, failure and concurrency
matter. TLC checks them on small instances; TLAPS proves part of it for all.

## 1. Inventory

| Component | Source (under `src/crates`) | State it keeps | Operations |
|---|---|---|---|
| Indexing loop, ledger state retention | `nightfrost-chain/src/pipeline.rs` (`run`, `index_block`), `nightfrost-core/src/domain/ledger/ledger_state.rs`, `nightfrost-core/src/ledger_db.rs` | retention window in memory and in `meta`, root counts and nodes of the arena, pending root count deltas, ledger state | start and repair, seed, persist, write the window, unpersist, gc, die |
| Following the node | `nightfrost-chain/src/subxt_node.rs`, `pipeline.rs` (`node_blocks`) | last accepted block, subscription filter, catch-up position, authority cache, buffer of 32 blocks | subscribe, catch up by height and by hash, live, resubscribe |
| Transaction replay | `pipeline.rs` (`index_block`, `apply_transactions`), `ledger_state.rs`, `ledger/transaction.rs` | ledger state, block fullness, parent timestamp, "first regular" flag | establish or keep the version, apply, retry without the time bump, finish the block |
| Contract log decoding | `ledger_state.rs` (`make_contract_event_attributes`) | none | one decoder per event type |
| Block batch | `pipeline.rs` (`write_block`, `apply_registration_event`), `nightfrost-core/src/store.rs` | 22 entity partitions, `meta` cursor and id counters, in-block caches | one batch per block |
| REST API | `nightfrost-api/src/routes.rs`, `routes/entities.rs`, `pagination.rs` | none of its own; cursors at the client | point reads, anchored lists, current-state lists |
| Wallet sync | `routes/entities.rs` (`wallet_shielded_sync`, `wallet_events`, `wallet_dust_sync`) | scan progress and relevant transactions of each viewing key | scan, Merkle updates, event feed, DUST feed |
| Arena lock | `ledger_state.rs` (`ARENA_LOCK`) | one RwLock | `hold_arena`, `exclusive_arena`, `gc` |
| Migrations and backfills | `nightfrost/src/backfill.rs`, `store.rs` (`open`) | schema version, progress marks, legacy partition | rewrites that can be run again |
| Supervision | `pipeline.rs` (watchdog, `select!`), `nightfrost/src/main.rs` | time of last progress, node tip | exit, abort |
| fjall | `../vendor/fjall` | journal, memtables | only what `Batch::commit` shows to readers and leaves behind a crash |

The node pushes blocks to `finalized_blocks`, a pull stream consumed by
`node_blocks`, which fills the buffer the indexing loop reads. The loop replays
the block's transactions, calls the arena (persist, unpersist, gc) and commits the
batch. API handlers run on other threads, read the same store with no lock and the
arena under `ARENA_LOCK`; the wallet scan also writes, its progress, under a mutex.
Migrations and backfills run alone, before the pipeline starts.

What is hard here: the process may die between any two of these writes; the arena
and the index are written by separate batches; a batch becomes visible to readers
row by row; subscriptions repeat, skip, die silently; catch-up work is prefetched
with a cache that a block in the middle may invalidate; batches are write-only, so
a block's own earlier rows must be kept aside; a replay must reproduce the node's
state from inputs (times, fullness) that no row of the block spells out. `hazards`
in `PROJECT.json` lists each one with its line and the properties that watch it.

What makes each part correct:

- retention: the tip's state can always be loaded, root counts match the window
  and never go below zero, leaks are bounded, a death never stops indexing;
- following: the index is a gap-free prefix of the canonical chain and grows to
  its end; derived authors never come from a replaced authority set;
- replay: every persisted state is the node's; what is indexed of a block agrees
  with it; nothing but an upgrade stops the replay; logs are decoded or defaulted,
  never cut at the wrong place;
- batch: at and below the cursor nothing is missing; indexes, balances, pointers
  and counters agree with the records and with what the ledger did;
- API: an answer is of one moment, a list's pages together are the list at its
  anchor, and no internal error arises from a commit in progress;
- wallet sync: over all its requests a wallet is sent every relevant transaction
  and event, once, with updates that lie end to end;
- arena lock: nobody walks a state while it changes, and the pipeline gets its turn;
- migrations: however often interrupted, they end in the store the current
  pipeline would have written, and lose nothing on the way; run once more they get
  through (the event backfill does so on small enough stores only, see section 3).

## 2. Modules

**`LedgerRetention`** (`Spec`, `LegacySpec`). Blocks are heights, `chain[h]` is
the arena key of the state after block `h`, and blocks may share a key. Disk:
`indexed` (cursor), `storedWindow`, `rootCount`, `intact` (keys whose whole DAG is
stored). Memory: `pc`, `limit` (`LEDGER_STATE_RETENTION` of the running build),
`window`, `pending`, `ledger`. Actions, in the order the code runs them: `Start`
(`main` loads the tip state, `repair_root_counts` raises counts), `Seed` (drop
what is not rooted, load the newest), `PersistBlock` (replay guard, persist,
flush), `WriteBlock` (the batch), `AdvanceWindow` (push, unpersist), `Collect` (gc
or none), and `Crash` anywhere. A refused start or a root mismatch leads to
`pc = "bailed"`. `LegacySpec` starts from any data directory an older build may
have left: root counts too low or missing, and any part of an unrooted state
swept. Retention is chosen anew at every start. The library behind the arena is
external: a flush that would leave a negative count panics, the sweep culls
unrooted states only.

**`IndexedChain`** is the abstract promise of following the chain: a log that
grows by the next canonical block, up to the end.
**`BlockFollow`** is `finalized_blocks`, `node_blocks`, the buffer and the loop's
consumption. Blocks are a height and a flag for a stale fork. The
node: `Finalize`, `SubscriptionDies`, `AtHeight` (what asking by height may
return), `Fresh` (the filter's choice: any finalized height above the last one,
which covers skips). The stream: `OpenStream`, `ReceiveFirst`, `StartChunk`,
`YieldByHeight`, `YieldByHash`, `YieldLive`, `Resubscribe`; the loop: `IndexBlock`;
the process: `Crash`, `Watchdog`. It implements the promise:
`Promise == INSTANCE IndexedChain WITH log <- Blocks(indexed)`.

**`Replay`** is `index_block` up to the batch. The ledger library is external: a
state holds the UTXOs, the first free Zswap index, how often each contract changed,
and a mark of every time and fullness it was given, so that states fed differently
have different roots. `Node` is the node's state after each block. `Start` (load,
remember the last time), `Begin` (version, genesis before or after block 0),
`ApplyRegular` (`Accepts`: the bumped time, then the block's own), `ApplySystem`,
`Finish` (post-block update, root checks, the batch), `Crash`. Beside the state it
derives what is indexed: `Created`, `Spent`, `LedgerEvents`, `Actions` with the
states fetched from the node, and the Zswap range; rows are kept
flat, with the height of their block, as the store keys them. **`ContractLogs`**, which it
extends, is the decoder of contract logs, with the Compact side that wrote them
(fields, layout, stripped zeros); widths are scaled, keeping their order. `IsEvent`
says what contracts may emit: any field values in the current layouts, or a spend or
receive without its domain, as before. The older order of a shielded receive's fields
has the length of the current one and cannot be told from it; it is left out.
`MCReplay` has the chains: system, claim and standard transactions, successes,
failures and partial successes, logs of every type with zeros at every end.

**`BlockCommit`** is `write_block` for transactions, address history, contract
actions, states, pointers and events, the rows in the order the code inserts them.
`AddTransaction` is a turn of the loop, `CommitBatch` completes the batch and
journals it, `ApplyRow` makes the next row visible, and `Crash` keeps the batch or
loses it whole. `HistoryRows` leaves open in which order the map of touched addresses
yields them, as the code does. `InsertAll` is the store after all of a batch's rows:
what the loop's caches amount to, and what the journal brings back. **`ApiReads`** extends it with the handlers, every read a step, the
writer moving in between: a transaction by hash and its events (`ReadHash`,
`ReadTx`, `ReadEvent`, `ReadBlock`), a contract and its state (`ReadPointer`,
`ReadAction`, `ReadBlob`), and five lists (a contract's actions and events, ledger
events, an address's and a block's transactions), with `from` where the endpoint has
it (`ReadTip`, `ValidateAnchor`, `Scan`, `ReadRow`, `NextPage`). A list is right
(`PagesExact`) if its pages have the anchored rows, all of them, strictly in the
order asked for. The tip a point response ends with is not read again; `TipComplete` is about that read.

**`UtxoIndex`** is `write_block`'s unshielded part. An account is an (owner, token)
pair. `AddTransaction` updates the in-block records, the last word on each unspent
entry, the wrapped deltas and the touched addresses; `CommitBlock` applies the
deltas and stores; `Crash` starts again from the store. What the ledger itself
thinks of each UTXO (`ledger`, `settled`) is kept beside, so that the index can be
compared with it. The address history is kept per account, where the code keys it
by owner. **`UtxoReads`** composes it with `GET /addresses/{addr}/utxos`, a list of
the current state: `AskFirst` and `AskNext` (a cursor is good for its own query
only), `Scan` over a range of byte-string keys whose end is `prefix_end`,
`ReadRecords`. Entries come and go between pages.

**`Registrations`** is `apply_registration_event` for the rows of one stake key, and
how `/dust/registrations` and `/dust/status` read them. Events come as the chain
emits them: only what is registered is deregistered, only what is mapped unmapped.
History variables keep the rows as they would be if every event saw its
predecessors, and which rows had several events in one block.

**`WalletSync`** composes the pipeline's loop, as far as the arena and the store's
visibility go, with clients that use the wallet endpoints again and again, going on
from their last answer. `Index` has the loop's steps with the lock around each
change of the arena; a request's steps are those between its reads and its lock
operations. The chain is two flat sequences, `Txs` with their blocks and `Events` with
their transactions, numbered as `write_block` numbers them: the assumptions say that
ids grow with the block and the transaction. The lock lets a waiting writer go before new readers (std's RwLock,
external); the scan mutex is not fair.

**`Backfills`** has a data directory of an older build, the four tasks that rewrite
it, and the pipeline's own rows for blocks indexed later. A task reads what is
committed and writes batches of `CommitEvery` rows; `Crash` loses the batch in hand;
`Open` starts any task on any store the code opens. A batch is kept as the store it
would commit to. `cached` is the keys of the event backfill's `actions_cache`: the
entry that is one too many (`CacheLimit` is the code's 10,000) clears it, itself
included, and is indexed next, so `CorrelatePanics` ends the process there, as `Crash`
would. Two filters of the code are two operators: `IsDust`, the events grouped as dust,
which the wallet index lists, and `IsGeneration`, those among them that have a dust
generation row. The chain is two flat sequences, its contract actions and its events
with their transactions, as `write_block` numbers them; `Chains` are those TLC chooses
from, the store knows them up to its height.

**`LedgerRetentionProofs`**, **`BlockFollowProofs`**, **`ReplayProofs`**,
**`ApiReadsProofs`** (of `BlockCommit` too), **`UtxoReadsProofs`** (of `UtxoIndex` too),
**`RegistrationsProofs`**, **`WalletSyncProofs`** and **`BackfillsProofs`** hold the
theorems. What makes an invariant inductive is at the end of the module it is about,
so that TLC can check it as well.
Every module has a `TypeOK`; the runs spend their time on the other properties.

Definitions whose comment begins "Faulty:" are variants of the definition after
them, with a plausible mistake; no specification uses them. Substituting one for
its original breaks the property `PROJECT.json` ("mutants") pairs it with.

## 3. Runs

| Run | Bounds | What it shows |
|---|---|---|
| `LedgerRetentionCrash` | 3 keys, 5 blocks, retention 2, 3 deaths | deaths at every point, twice within one block too, leave the tip loadable; each leaks at most one root; the stored window is exact; indexing completes |
| `LedgerRetentionLegacy` | 3 keys, 5 blocks, retention 1 or 3 per start, 2 deaths | undercounted stores and changed retention are repaired, never beyond what is whole; counts never go below zero |
| `BlockFollow` | 6 blocks, margin 2, chunk 2, buffer 2, fork above height 1, 1 death, 1 dead subscription | implements `IndexedChain`, liveness included; the buffer continues the index; no stale author, for every placement of session changes |
| `Replay` | 50 chains of 2 or 4 blocks, 2 contracts, limit 3, bump 2, 2 deaths | every persisted state is the node's, index and ledger agree, logs are sound, only an upgrade stops the replay |
| `ContractLogs` | the same without deaths | the lost nullifier below |
| `ApiReads` | 1 hash, 1 contract, 1 owner, 1 state, 2 blocks, 3 transactions, pages of 1 row, 1 death | batch, pointers, blobs; contracts and lists are served, pages are exact, while rows appear |
| `ApiReadsTx` | the same | the internal error below |
| `UtxoReads` | 3 UTXOs, 2 accounts of neighbouring owners, amounts of 2 in 3-bit words, 3 transactions, pages of 1 row, bytes up to 2, 1 death | unspent index, balances, history exact; blocks fail only on the signed limit; pages of a changing list |
| `RegistrationsSameBlock` | 2 rows, 1 mapped UTXO, 3 blocks, 2 events per row and block | the lost event below; what holds of these rows all the same is proved |
| `Backfills` | 3 blocks of 6 transactions to choose from, 2 states, 2 UTXOs, batches of 2 writes, 1 death | each task is exact once complete, also run twice, out of order or after a death; the event backfill, with a cache of 2, gets through just when the transactions with contract events fit in it; no commit takes away a dust row keyed by its UTXO's hash |
| `BackfillsCache` | the same, a cache of 1 | the panic below |
| `WalletSync` | 2 clients of one wallet, 2 blocks of 5 transactions, scans of 2, pages of 1, retention 1 | the wallet endpoints are exact together with the pipeline, readers walk whole states, all blocks get indexed |

Why the bounds are enough. Retention: with 5 blocks a window of 2 moves three
times, with a key in and out of the window and several times in it. Following:
chain, margin, chunk and buffer are such that catch-up has two chunks, a walk by
hash and a live part, and a session change may fall before, in and after a chunk.
Replay: two deaths may hit one block twice; the chains have each kind of
transaction first and later in a block, well formed at the bumped time only, at the
block's only, and at both. Commits: a second block sees stored pointers, its second
transaction cached ones; two rows and pages of one make a cursor. UTXOs: three may
be spent in the transaction, block, or run after the one that created them; two
UTXOs of 2 reach the signed limit of 4; key bytes reach the greatest byte, so the end
of a prefix carries or there is none. Backfills: a batch of two ends inside a block's
rows, and a partial one is left at the end; of up to three transactions with contract
events a cache of two holds all or overflows at the last. Wallets: retention 1 is the
tightest the code allows, a state read just before a commit is already gone; a scan takes several
batches and the two clients share its progress. Runs turn deadlock checking off
where the specification ends at its bounds or in a failed run; it is on in
`WalletSync`, whose clients never stop asking. `MaxHeight`, `MaxTxs`, `MaxEvents`,
`MaxCrashes`, `MaxDeaths` are the bounds; the other constants are parameters of the
code.

Disagreements between code and words the runs show:

- `ApiReadsTx`: a block's rows are written "in a single atomic batch"
  (`pipeline.rs:687`). This is so for crashes. For readers fjall applies the batch
  item by item, and reads are not of a snapshot: `GET /txs/{hash}` may find a
  transaction without its block ("missing block for tx", `entities.rs:107`), and so
  may its events. Both end in an internal error for as long as the commit takes.
- `RegistrationsSameBlock`: of several registration events of one row in one block
  only the last takes effect (`pipeline.rs:1105`), so `registered_at_height` is not
  overwritten "on every re-Registration event" (`entities.rs:1371`).
- `ContractLogs`: the minimum lengths of contract logs are "set so that an emission
  whose only-trailing-zero stripping is the final value field still decodes
  correctly" (`ledger_state.rs:1597`). A shielded spend is one field, its nullifier,
  and must have all its bytes (`:1608`), though trailing zeros are gone from it like
  from all logs: a nullifier that ends in a zero byte is stored as empty.

- `BackfillsCache`: `backfill_contract_events` "correlates every contract-grouping
  event" (`backfill.rs:2`), but the 10,001st transaction with contract events clears
  `actions_cache` right after it was inserted (`:77`), and `:81` indexes it: a panic. A
  run has no progress mark, so each panics at that event, the events from there on stay
  uncorrelated, and those that shared the last batch with it too. Smaller stores are
  backfilled as intended (`EventsGoThrough`).

Met while modelling, without a run of their own:

- Two more windows of the same cause as `ApiReadsTx`'s: a contract's event list may
  meet an index entry before its event (`entities.rs:1265`; `ListsServed` leaves
  that list out), and the shielded sync may find the wallet rows of a block before
  the window that names its state and answer "persisted ledger state is behind the
  wallet sync boundary" (`entities.rs:1741`; `SyncServed` allows it by one block).
- Before any block is indexed lists have no anchor and leave nothing out; the list
  properties are stated for anchored ones.
- A failed contract action is said to have no state (`entities.rs:691`,
  `store.rs:152`, `pipeline.rs:601`). The state is asked for by address and block
  (`subxt_node.rs:822`): a failed call of an existing contract has that contract's
  state at the end of the block, and may be its latest action.
- Logs whose leading fields end in zeros, with an empty final field, fall back to
  default fields as well: the comment acknowledges that for missing leading fields,
  not for short ones. `LogsSound` says they are never mixed up.
- A shielded sync may send a decryptable transaction with no outputs as an update
  over an empty range; a DUST sync may repeat events, but never skips one.
- A death of the dust rebuild between the row of a UTXO's creation and that of its
  later update leaves the older value until the rebuild is run again: `DustExact`
  is about completed rebuilds.
- If both attempts at the first regular transaction fail, the error of the second is
  reported, where `pipeline.rs:579` holds the first to be more informative.

## 4. Fairness

`LedgerRetention`: weak fairness of `Work`, the loop and the restart by systemd;
`Crash` is not fair and deaths are bounded, as a process that always dies indexes
nothing. `Replay`: the same. `BlockFollow`: weak fairness of `Finalize` (the node
goes on), `Follow` (the runtime polls the stream), `IndexBlock` (the loop consumes),
`Resubscribe` and `Watchdog` (both are timers). Deaths of subscriptions are bounded,
not fair. A write that fjall stalls for ever is not modelled; the watchdog would end
that run. `WalletSync`: weak fairness of `Index`, the pipeline's thread, and of
`Release`, the steps that let go of the arena lock: they are synchronous code without
an `await`. Nothing is assumed of requests otherwise, nor promised to them: the scan
mutex is not fair. The other specifications have no fairness and no liveness
properties.

## 5. Proofs

All theorems rest on the named assumptions of the modules only, and hold for every
value of the constants that meets them.

`LedgerRetentionProofs`, for every chain and set of keys, every retention and every
number of deaths:

- `RetentionSafe` (from a fresh directory) and `RepairedRetentionSafe` (from an
  undercounted one): `TypeOK`, `NoUnderflow`, `NeverStranded`, `RootedIsWhole`, the
  last also by itself as `RootedStatesAreWhole`;
- `RepairRaises`: `RepairOnlyRaises`;
- `WindowLoadable`: `StoredWindowLoadable`, for the pipeline that started fresh;
- `WindowExact`: `StoredWindowExact`, provided all builds have one retention. With
  several the claim is false: a smaller one cuts the window, a larger one does not
  bring it back;
- `OrphansBounded`: `OrphanRootsBounded`, under the same condition. A smaller retention
  lets go of several blocks at once, and a death before their flush leaks them all.

None of these is inductive. `NoUnderflow` needs to know, of each program location,
which heights the counts still have to pay for: `StageInv` says that `window`, or
`window` with the block under way, is *backed*, with the count of every key, deltas
included, no less than its occurrences. While no process runs nothing is known of
counts (they may be too low), only that the tip's is positive and that rooted
stored states are whole (`DiskInv`); `Start` restores the counts for
rooted states, `Seed` drops the others. `IInv` conjoins these with `TypeOK` and
`NeverStranded`. From a fresh directory more holds: the counts pay for the *stored*
window at every moment, dead or alive, and its states are whole (`StoredInv`), and they
pay for little more: flushed, there is a count for each block of the window and each
death (`OrphanInv`). Counts are added up by counting `References`, a pair for each, so
that a flush is a set with one element more (`OneMore`). Lemmas
about occurrences (`OccType`, `OccSplit`, `OccPush`) and about cutting a window
(`NewestKeepsTip`, `MaxIsTip`) carry the arithmetic, one lemma per action the induction.

`BlockFollowProofs`, for every chain, margin, chunk and buffer, every reordering by the
node and any number of dead subscriptions and deaths: `FollowingExact`
(`BufferContinuesIndex`), `AuthorsCurrent` (`NoStaleAuthor`), and `FollowSteps`, the
safety part of the refinement: the initial states and all steps are those of
`IndexedChain`. `RunInv`: index, buffer and last accepted block are one run of
canonical blocks. `StreamInv`: what the stream still has to yield begins right after
it, and goes by height only where no node can have another block. `AuthorInv`: a
cached authority set is never older than the last accepted block, and neither is the
copy of it that a prefetched chunk works with.

`ReplayProofs`, for every chain of either kind of genesis, of blocks with any
transactions and outcomes, and for any number of deaths: `ReplayStaysExact`
(`ReplayExact`), `ReplayStopsAtUpgrades` (`StopsAtUpgradesOnly`) and `ReplayIndexExact`
(`IndexExact`). The node's chain is given by recursive functions, over a block's transactions and over the blocks;
`ReplayedIs`, `CountedIs` and `NodeIs` show that these do exist and go on as they say.
`ApplyInv` has the replay in mid-block where the node was after as many transactions,
with the block's fullness so far and the parent's time, and `NodeAccepted`, that
transactions the node put in its blocks pass the first check or its retry; `first`
must then be exactly "no regular transaction yet", or the retry would be missed.
With `StoreInv` and `IdleInv` a process that starts continues from the node's state.
If the genesis state has block 0 in it, the state block 0 computes is of no account: it
is replaced at the end. Its rows stay, though, and `IndexInv` carries for them that an
empty state and the one before genesis come to the same outputs and the same first free
index. For any other block it says that rows of the store and rows derived so far together
account for the state in hand (`Indexed`): each transaction adds and takes outputs as the
ledger does, whichever of its segments fail (`DerivedIsApplied`), and has an output event
for each index it takes, whatever other events are kept (`OutputsCounted`). Of a
transaction the theorems assume that it succeeds or fails as a whole (a success may be
partial), and that its events are a sequence whose logs are events of a known layout.

Its last part is about the logs, for the same chains, any values of the fields, and any
number of deaths: `ReplayLogsSound` (`LogsSound`). `LogInv` says of the rows that every
transaction indexed has one, that those derived so far are the block's first `at`, and
that the logs of a row are what the decoder makes of those its transaction emits: of as
many, in that order, as dropping the other kinds and decoding commute. What the decoder
makes of them is a matter of bytes, with nothing to induct over:

- each field, of each kind, is read back from the offset where the flat bytes have it
  (an absent optional value and the unused key of an address are zeros, too);
- stripping takes only trailing zeros, and padding to the full length puts them back;
- a log is at least as long as the minimum of its type if its last field alone was
  stripped, as the byte before that field is not zero; and whatever is shorter becomes
  the defaults;
- a spend or receive without its domain is always shorter than that minimum. This is
  where the widths matter: a key must be wider than an amount. It is so for the real
  widths (32 and 16 bytes) as for the scaled ones, for which the theorem is stated.

The first part of `ApiReadsProofs` is about `BlockCommit`, for any hashes, contracts, owners and states, any transactions
in a block, and any number of deaths: `TipIsComplete`, `PointersAreExact`,
`BlobsAreWrittenOnce`. The three need one invariant, as all depend on where in a batch
a reader is. Building a batch and showing it are taken apart:

- `Linked` is about a store with *all* of the batch in it (`InsertAll`): ids without a
  gap, records and their index entries in both directions, pointers at the first and
  last successful action, and at most one block above the cursor;
- `Sound` is what a reader may rely on after *any* prefix: a row never refers to one
  that comes later in the batch, save those the code inserts the other way round (a
  transaction's events), and at and below the cursor everything is there;
- `Orderly` says of one row that it takes nothing from a reader: records, blobs and
  blocks are new, what has a height is above the cursor, the cursor only rises, and
  the result is sound. `AllOrderly` says it of each row of the batch in its turn.

So adding a row to the batch has to be justified once, at its end (`OrderlyAppend`),
and applying the first one leaves the others justified (`OrderlyHead`). There is a lemma
per kind of row (`HashOrderly` to `CursorOrderly`), then one for each stretch of a
transaction's rows, and `TailLinked` closes the block. A crash restores either the store
before or the one after.

Its second part is about the readers, for any page size, either order and any interleaving of
a client's reads with rows, commits and deaths: `ContractsAreServed` (`StateServed`),
`ListsAreServed` (`ListsServed`), `PagesAreExact` (`PagesExact`). `Keeps` is what
every row of a batch leaves to a reader; from it the list at a fixed anchor never
changes while rows appear (`ListKept`), and what the index names is either in the list
or above the anchor (`ListFacts`). The invariant `ReadInv` then follows one request:
`Pointed`, the row in hand of a contract; `Opening`, nothing is collected before there is an
anchor; `Listing`, the rows of the pages are, in order, those the iterator has passed
(`Passed`), the cursor included, since the rows are in order and the cursor is the last.

`UtxoReadsProofs` begins with `UtxoIndex`, for every set of UTXOs, accounts and values
and any number of transactions and deaths: `IndexExact` (`UnspentExact` and `LookupsSucceed`: a block
never fails for a spent UTXO that is not found) and `AddressHistoryExact`
(`HistoryExact`), `BalancesStayExact` (`BalancesExact`) and `BailsPastSigned`
(`BailsOnlyPastSigned`). The invariant relates store and batch to the ledger in mid-block:
`StatusInv` for records and unspent entries, `HistoryInv` for the history with and
without the block's part and for ids, and `BalanceInv` for balances and deltas, which are
right *as words* whatever has wrapped. `BalancesStayExact` has a hypothesis, that the
account's sum fits a word: the code would store a sum of 2^128 and more wrapped,
and nothing in it says that a token's supply is below. `ModulusAssumption` is there
because the provers do not compute powers.

A sum over a set is a fold that takes the elements in an order of its own. `Unrolls`
says that a set's partial sums in *some* order end in a number, and any two orders end in
the same one (`UnrolledUnique`), so that `Sum` is additive (`Sums`). The library's
induction takes an operator and cannot be used; `AllNumbers` is the same with a set:
one that has 0 and the successor of each of its numbers has all.

Then come the readers of the index, for any page size, either order, and any bytes of
owners, token types and UTXOs as long as each kind has one length: `PagesAreOfUnspent`
(`PagesOfUnspent`). The keys are shown to be in a strict order (`BelowOrder`,
`BelowTransitive`), and those from a prefix to its `prefix_end` to be just the keys that
have it (`PrefixFirst`, `PrefixEnds`, `PrefixOnly`), so that a page's range is the query's
UTXOs after the cursor's (`RangeIs`). The invariant `ReadInv`: what was collected is in
order, and what was unspent all along but is not collected comes after it (`ListInv`);
the cursor names the last row (`At`).

`RegistrationsProofs`, for every set of addresses and any number of blocks and of
events in them, with no assumption on a constant: `RemovedStayRemoved` (`RemovedNotValid`), `RegistrationsAgree`
(`EndpointsAgree`) and `RegistrationsReplayed` (`SparseRowsExact`). The events read the
store and write the batch, so the invariant is about both: `MarksInv`, no row of either
is valid and removed, `HeightsInv`, none is from a later block, and `SparseInv`, where replaying the events has led is the stored
row before the row's event of the block and the batch's after it. `ChangedRow` says what
each event makes of a row, `UpsertInv` is the step they share. That the status endpoint
finds a newest registration needs a greatest height (`Greatest`, as `HeightsInv` bounds
them), from the library's
well-foundedness of the naturals.

`WalletSyncProofs`, for any clients and keys, any chain, retention, batch and page size:
`WalksNeverTorn` (`WalksWhole`), `FeedLosesNothing` (`FeedExact`), `DustLosesNothing`
(`DustComplete`), `SyncLosesNothing` (`SyncExact`) and `SyncGoesOn` (`SyncServed`).
`PipelineInv`: partitions show one height or the next, in the order of
the batch, and the window is the newest states, rooted and whole; `RequestInv`: nobody
walks while the arena changes, and a state that was chosen is one of the newest;
`FeedInv` and `DustInv`: what a page has examined joins on to what the client was sent.
For the shielded sync `ScanInv` says that one client scans at a time and that what is
known to be relevant is what the key decrypts up to its progress, whoever scanned; and
`SyncInv` that a request's key is scanned up to its tip before it walks, and that what a
wallet has applied ends where a transaction does. The updates of an answer are a
recursive function over the transactions (`PassIs`); each of its steps keeps the list
`Joined` and `Complete` (`ExtendedPasses`) since no transaction contains the end of
another (`NeverInside`). That none is sent twice counts with a bijection (`SentOnce`).

`BackfillsProofs`, for every chain in which transactions number events and actions in
order, every batch size, any store that an older build may have left, and any number of
deaths: `MigrationStaysExact` (`MigrationExact`), `EventsStayExact` (`EventsExact`),
`DustStaysExact` (`DustExact`), `SidecarsStayExact` (`SidecarsExact`) and the action
properties `DustRowsAreKept` (`DustRowsStay`) and `EventsGoThroughInCache`
(`EventsGoThrough`). `EventsStayExact` promises a complete index only after a run that
went through; whether one does is what `EventsGoThroughInCache` says, in both directions
and for every `CacheLimit`. `DustRowsStay` is about rows under UTXO hashes: one under an
older build's key may be gone a batch before the row that replaces it. The invariant says of each task where the
batch in hand is, and what the store keeps if it is lost:

- `FrameInv`: a batch has no rows but its task's own (`Own`), so that a task disturbs
  what is known of the others in nothing (`KeepsMigration` to `KeepsSidecars`);
- `MigrationInv`: the store holds the actions up to its *cursor*, the batch those up to
  the action in hand, and `hashes` are just the blobs the batch added. A death
  goes back to a cursor that was committed with the rows it counts;
- `EventsInv`: attributions are never wrong and never lost, also while the backfill
  that is to complete them has begun anew;
- `CacheInv`: the event backfill's cache holds the transactions of all contract events
  before the one in hand, and they fit in it: a run begins at the first event with an
  empty cache, and the first clear ends it. So a run that gets to the end had room for
  all (`CacheStep`, `EventsEndByCache`), one that panics had one too many
  (`ContractTxsGrow`, `ContractTxsFinite`);
- `DustInv`: the plan's garbage has no key of a rebuilt row, which is why the order of the
  streams does not matter; garbage that is left is still to come (`RebuildInv`),
  and a row whose UTXO has come is that of its last event so far;
- `SidecarsInv`: the rows are those up to the marks, `walletTx` without a gap. A run
  that resumes takes its Zswap index from the last row, one that starts counts back,
  and both are the ledger's (`FirstFreeStart`).

That a plan's stream of inserts is in the order of events, and complete, is about
`Ascending`, the numbering of a finite set: its ranks are counted with
`FS_AddElement`. After a task, blocks the pipeline adds must not undo its result: the
lemmas `IndexBlock...` say so for each.

Model-checked only, because they are out of the prover's reach:

- liveness (`IndexingCompletes`, `ReplayCompletes`, `BlocksIndexed`, the liveness part
  of `FollowsChain`).

Every other invariant the runs check is proved. Proved only, with no run that lists them,
are the three properties of `Registrations`.

## 6. Plan

No safety invariant of the plan is left to prove. `ReplayLogsSound` could be stated for
any widths that keep their order, with the sizes as constants; the runs would give them
the values they have now.

## 7. Not modelled

- Runtime decoding, metrics, snapshots, prompts and measurements: conversions and
  input/output with no state of interest.
- The ledger's own semantics, the node and fjall's internals: external, they enter
  by what the indexer observes of them. An event the decoder has no variant for would
  stop the replay; the chains have none.
- The watchdog's clock, the highest-block task and `/sync-status`: two numbers that
  are compared; a watchdog exit is a death of the process.
- Identifier rows, and the endpoints that read one row or report what is in memory.
- The position (`mt_index`) that a dust generation update stores: the code says itself
  that it does not reproduce the leaf's index (`entities.rs:1500`).
- The signature and text form of cursors: a cursor is the query and position it
  names.
- `examples/` are clients.
