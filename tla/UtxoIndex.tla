------------------------------ MODULE UtxoIndex ------------------------------
(***************************************************************************)
(* write_block's unshielded part: UTXO records, the unspent index, the     *)
(* balances and the address history it derives from the UTXOs that the     *)
(* replayed transactions of a block created and spent.  fjall batches are  *)
(* write-only, so later transactions see earlier ones of the same block    *)
(* through an in-block cache, and balances are kept as deltas until all of *)
(* the block's transactions are known.                                     *)
(*                                                                         *)
(* An account stands for an (owner, token type) pair; the unspent index    *)
(* and the address history are kept per account.  Amounts are unsigned     *)
(* words of Width bits, deltas are signed ones and wrap around.            *)
(***************************************************************************)
EXTENDS Integers, FiniteSets, FiniteSetsExt

CONSTANTS Utxo,       \* UTXO ids: intent hash and output index
          Account,    \* (owner, token type) pairs
          Values,     \* amounts a UTXO may hold
          Width,      \* bits of an amount: 128
          MaxTxs,     \* bound: transactions
          MaxCrashes  \* bound: process deaths

ASSUME UtxoAssumption == IsFiniteSet(Utxo)
ASSUME WidthAssumption == Width \in Nat \ {0}
ASSUME ValuesAssumption == Values \subseteq 0 .. 2^Width - 1
ASSUME MaxTxsAssumption == MaxTxs \in Nat

Modulus == 2^Width
ASSUME ModulusAssumption == Modulus \in Nat \ {0}  \* which provers do not compute
None == -1
TxId == 0 .. MaxTxs - 1

VARIABLES
    owner, value,  \* rigid: the account each UTXO belongs to, what it holds
    ledger,        \* each UTXO in the replayed ledger: "new", "live" or "spent"
    settled,       \* the same as of the last block in the store
    (* the store *)
    utxos,         \* records, by UTXO
    unspent,       \* utxos_unspent_by_owner
    balances,      \* an absent row reads as 0
    addrTxs,       \* addr_txs: <<account, transaction>> pairs
    nextTx,        \* meta.next_tx_id
    (* write_block *)
    created,       \* created_this_block: the records the batch holds
    entries,       \* whether the batch's last word on an unspent entry is insert
    deltas,        \* balance_deltas
    touched,       \* touched_addresses
    ids,           \* the transaction counter
    bailed,        \* the block failed and the run with it
    crashes        \* history: process deaths so far

chain == <<owner, value>>
store == <<utxos, unspent, balances, addrTxs, nextTx, settled>>
block == <<created, entries, deltas, touched, ids, ledger>>
vars == <<chain, store, block, bailed, crashes>>

UtxoRecord == [creating : TxId, spending : TxId \cup {None}]

TypeOK ==
    /\ owner \in [Utxo -> Account] /\ value \in [Utxo -> Values]
    /\ ledger \in [Utxo -> {"new", "live", "spent"}]
    /\ settled \in [Utxo -> {"new", "live", "spent"}]
    /\ DOMAIN utxos \subseteq Utxo /\ utxos \in [DOMAIN utxos -> UtxoRecord]
    /\ unspent \subseteq Utxo
    /\ balances \in [Account -> 0 .. Modulus - 1]
    /\ addrTxs \subseteq Account \X TxId
    /\ nextTx \in 0 .. MaxTxs
    /\ DOMAIN created \subseteq Utxo /\ created \in [DOMAIN created -> UtxoRecord]
    /\ entries \in [DOMAIN created -> BOOLEAN]
    /\ deltas \in [Account -> Int]
    /\ touched \subseteq Account \X TxId
    /\ ids \in nextTx .. MaxTxs
    /\ bailed \in BOOLEAN
    /\ crashes \in Nat

Empty == [u \in {} |-> None]

Init ==
    /\ owner \in [Utxo -> Account] /\ value \in [Utxo -> Values]
    /\ ledger = [u \in Utxo |-> "new"] /\ settled = ledger
    /\ utxos = Empty /\ unspent = {}
    /\ balances = [a \in Account |-> 0]
    /\ addrTxs = {} /\ nextTx = 0
    /\ created = Empty /\ entries = Empty
    /\ deltas = [a \in Account |-> 0]
    /\ touched = {} /\ ids = 0
    /\ bailed = FALSE
    /\ crashes = 0

----------------------------------------------------------------------------
(* One transaction of the block *)

\* A word of Width bits read as a signed one.
Signed(n) == LET w == n % Modulus IN
             IF w >= Modulus \div 2 THEN w - Modulus ELSE w

Sum(S, a) == MapThenSumSet(LAMBDA u : value[u], {u \in S : owner[u] = a})

\* The cache once the UTXOs in C are created.
CacheWith(C) == [u \in DOMAIN created \cup C |->
                    IF u \in C THEN [creating |-> ids, spending |-> None]
                               ELSE created[u]]

\* Faulty: spent UTXOs are looked up in the store only.
KnownStored(u, cache) == u \in DOMAIN utxos

\* Whether a spent UTXO's record is found, in the cache or else in the store.
Known(u, cache) == u \in DOMAIN cache \cup DOMAIN utxos

Record(u, cache) == IF u \in DOMAIN cache THEN cache[u] ELSE utxos[u]

\* Faulty: the spend is not added to the history of the owner.
TouchedByCreation(C, S) == touched \cup {<<owner[u], ids>> : u \in C}

TouchedWith(C, S) == touched \cup {<<owner[u], ids>> : u \in C \cup S}

\* Faulty: an entry the transaction itself inserts is not removed again.
EntriesInserted(C, S) == [u \in DOMAIN created \cup C \cup S |->
    IF u \in C THEN TRUE ELSE IF u \in S THEN FALSE ELSE entries[u]]

EntriesWith(C, S) == [u \in DOMAIN created \cup C \cup S |->
    IF u \in S THEN FALSE ELSE IF u \in C THEN TRUE ELSE entries[u]]

\* A transaction creates the UTXOs in C and spends those in S, which the
\* ledger knows to be unspent; one that both creates and spends a UTXO does
\* so in that order.  A spent UTXO that is not found fails the block.
AddTransaction ==
    /\ ~bailed
    /\ ids < MaxTxs
    /\ \E C \in SUBSET {u \in Utxo : ledger[u] = "new"} :
       \E S \in SUBSET ({u \in Utxo : ledger[u] = "live"} \cup C) :
          LET cache == CacheWith(C) IN
          IF \E u \in S : ~Known(u, cache)
          THEN bailed' = TRUE /\ UNCHANGED block
          ELSE /\ created' = [u \in DOMAIN cache \cup S |->
                                IF u \in S
                                THEN [Record(u, cache) EXCEPT !.spending = ids]
                                ELSE cache[u]]
               /\ entries' = EntriesWith(C, S)
               /\ deltas' = [a \in Account |->
                               Signed(deltas[a] + Sum(C, a) - Sum(S, a))]
               /\ touched' = TouchedWith(C, S)
               /\ ledger' = [u \in Utxo |-> IF u \in S THEN "spent"
                                            ELSE IF u \in C THEN "live"
                                            ELSE ledger[u]]
               /\ ids' = ids + 1
               /\ UNCHANGED bailed
    /\ UNCHANGED <<chain, store, crashes>>

----------------------------------------------------------------------------
(* The block *)

\* Faulty: the stored balance is not read first.
UpdatedAfresh(a) == Signed(deltas[a])

\* The new balance of an account, as a signed word: a negative one is refused.
Updated(a) == Signed(Signed(balances[a]) + deltas[a])

Changed == {a \in Account : \E t \in TxId : <<a, t>> \in touched}

NoBlock ==
    /\ created' = Empty /\ entries' = Empty
    /\ deltas' = [a \in Account |-> 0] /\ touched' = {}

\* Apply the deltas and commit the batch; a negative balance fails the block.
CommitBlock ==
    /\ ~bailed
    /\ IF \E a \in Changed : Updated(a) < 0
       THEN bailed' = TRUE /\ UNCHANGED <<store, block>>
       ELSE /\ utxos' = [u \in DOMAIN utxos \cup DOMAIN created |->
                           IF u \in DOMAIN created THEN created[u] ELSE utxos[u]]
            /\ unspent' = (unspent \ {u \in DOMAIN entries : ~entries[u]})
                              \cup {u \in DOMAIN entries : entries[u]}
            /\ balances' = [a \in Account |->
                              IF a \in Changed THEN Updated(a) ELSE balances[a]]
            /\ addrTxs' = addrTxs \cup touched
            /\ nextTx' = ids
            /\ settled' = ledger
            /\ NoBlock
            /\ UNCHANGED <<ids, ledger, bailed>>
    /\ UNCHANGED <<chain, crashes>>

\* The process ends and starts again from the store.
Crash ==
    /\ ~bailed
    /\ crashes < MaxCrashes
    /\ crashes' = crashes + 1
    /\ NoBlock
    /\ ledger' = settled
    /\ ids' = nextTx
    /\ UNCHANGED <<chain, store, bailed>>

Next == AddTransaction \/ CommitBlock \/ Crash
Spec == Init /\ [][Next]_vars

----------------------------------------------------------------------------
(* Properties *)

\* The unspent index is what the ledger has unspent and what the records say,
\* for UTXOs created and spent in one transaction or one block too.
UnspentExact ==
    /\ unspent = {u \in Utxo : settled[u] = "live"}
    /\ unspent = {u \in DOMAIN utxos : utxos[u].spending = None}
    /\ DOMAIN utxos = {u \in Utxo : settled[u] # "new"}

\* A stored balance is the sum of the account's unspent UTXOs: no wrapped
\* delta is ever stored.  (Of no account do they exceed a word here.)
BalancesExact == \A a \in Account : balances[a] = Sum(unspent, a)

\* The address history names exactly the transactions that created or spent a
\* UTXO of the account, and none of a block that was lost.
HistoryExact ==
    /\ addrTxs =
         {<<owner[u], utxos[u].creating>> : u \in DOMAIN utxos} \cup
         {<<owner[u], utxos[u].spending>> : u \in DOMAIN utxos \ unspent}
    /\ \A pair \in addrTxs : pair[2] < nextTx

\* A block of a valid chain fails only if it takes an account past the largest
\* signed amount: never because a spent UTXO is not found.
BailsOnlyPastSigned ==
    bailed => \E a \in Account :
                 Sum({u \in Utxo : ledger[u] = "live"}, a) >= Modulus \div 2

----------------------------------------------------------------------------
(* The inductive invariant: what the store and the batch know in mid-block. *)

\* A UTXO's record as the block would leave it.
Merged(u) == IF u \in DOMAIN created THEN created[u] ELSE utxos[u]

\* Store and batch together know every UTXO of the ledger, and whether it is
\* unspent; the store by itself does as of the last block.
StatusInv ==
    /\ DOMAIN utxos = {u \in Utxo : settled[u] # "new"}
    /\ DOMAIN utxos \cup DOMAIN created = {u \in Utxo : ledger[u] # "new"}
    /\ unspent = {u \in Utxo : settled[u] = "live"}
    /\ \A u \in Utxo \ DOMAIN created : ledger[u] = settled[u]
    /\ \A u \in DOMAIN utxos : utxos[u].spending = None <=> settled[u] = "live"
    /\ \A u \in DOMAIN created : /\ created[u].spending = None <=> ledger[u] = "live"
                                 /\ entries[u] <=> ledger[u] = "live"

\* The history, and the history with the batch, name the same transactions as
\* the records of the store, and of store and batch; a crash cannot leave
\* a transaction id in the store that is handed out again.
HistoryInv ==
    /\ \A a \in Account, t \in TxId :
          <<a, t>> \in addrTxs <=>
             \E u \in DOMAIN utxos : /\ owner[u] = a
                                     /\ t \in {utxos[u].creating, utxos[u].spending}
    /\ \A a \in Account, t \in TxId :
          <<a, t>> \in addrTxs \cup touched <=>
             \E u \in DOMAIN utxos \cup DOMAIN created :
                /\ owner[u] = a
                /\ t \in {Merged(u).creating, Merged(u).spending}
    /\ \A u \in DOMAIN utxos :
          utxos[u].creating < nextTx /\ utxos[u].spending < nextTx
    /\ \A u \in DOMAIN created :
          created[u].creating < ids /\ created[u].spending < ids

\* Balances and deltas are right as words: the delta of an account is what
\* the block makes of its UTXOs, and those of an untouched one are the same.
BalanceInv ==
    LET Live == {u \in Utxo : ledger[u] = "live"} IN
    \A a \in Account :
       /\ balances[a] = Sum(unspent, a) % Modulus
       /\ (Sum(unspent, a) + deltas[a]) % Modulus = Sum(Live, a) % Modulus
       /\ a \notin Changed => {u \in Live : owner[u] = a} = {u \in unspent : owner[u] = a}

\* The part of TypeOK the proofs use.
Typed ==
    /\ owner \in [Utxo -> Account] /\ value \in [Utxo -> Values]
    /\ balances \in [Account -> 0 .. Modulus - 1] /\ deltas \in [Account -> Int]
    /\ ledger \in [Utxo -> {"new", "live", "spent"}]
    /\ settled \in [Utxo -> {"new", "live", "spent"}]
    /\ DOMAIN utxos \subseteq Utxo /\ utxos \in [DOMAIN utxos -> UtxoRecord]
    /\ DOMAIN created \subseteq Utxo /\ created \in [DOMAIN created -> UtxoRecord]
    /\ entries \in [DOMAIN created -> BOOLEAN]
    /\ addrTxs \subseteq Account \X TxId /\ touched \subseteq Account \X TxId
    /\ nextTx \in Nat /\ ids \in nextTx .. MaxTxs

\* A failed block failed on a balance: every spent UTXO was found.
LookupsSucceed == bailed => \E a \in Changed : Updated(a) < 0

IInv == Typed /\ StatusInv /\ HistoryInv /\ LookupsSucceed /\ BalanceInv
=============================================================================
