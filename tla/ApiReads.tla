------------------------------- MODULE ApiReads -------------------------------
(***************************************************************************)
(* The API's handlers over the store while blocks are being committed.     *)
(* A request is a sequence of point reads and range steps with nothing     *)
(* held between them, so a commit may make rows visible between any two:   *)
(*   tx, tx_events              a transaction by hash: hash entry, record, *)
(*                              events, block                              *)
(*   contract, contract_state   pointer, action, and for the latter blob   *)
(*   contract_actions, contract_events, ledger_events, address_txs,        *)
(*   block_txs                  lists, in pages that share the tip the     *)
(*                              first one was anchored at                  *)
(* One client follows one query at a time, page after page.                *)
(***************************************************************************)
EXTENDS BlockCommit

CONSTANTS Count,  \* rows of a page
          From    \* from parameters of the lists that take one

ASSUME CountAssumption == Count \in Nat \ {0}
ASSUME FromAssumption == From \subseteq Nat

VARIABLES
    handler,   \* the query
    key,       \* the hash, contract, address or height asked for
    order,     \* of a list: "asc" or "desc"
    from,      \* of a list: its smallest id
    stage,     \* what the request reads next, or how it ended
    found,     \* the row in hand: an id, a height, or None
    anchor,    \* the tip the list is anchored at, None before any block
    position,  \* id the iterator stands at, or the cursor's
    page,      \* ids of the rows of this page
    pages      \* ids the client received in earlier pages

query == <<handler, key, order, from>>
request == <<query, stage, found, anchor, position, page, pages>>
allVars == <<vars, request>>

FromLists == {"contract_events", "ledger_events", "address_txs"}
Lists == {"contract_actions", "block_txs"} \cup FromLists
Records == [contract_actions |-> "contract_actions",
            contract_events  |-> "ledger_events",
            ledger_events    |-> "ledger_events",
            address_txs      |-> "txs",
            block_txs        |-> "txs"]

Ended == {"none", "ok", "notFound", "gone", "failed"}
Stages == Ended \cup {"hash", "tx", "event", "block", "pointer", "action", "blob",
                      "resolve", "tip", "tipBlock", "anchor", "scan", "row", "rowTx",
                      "rowBlock"}

ReadTypeOK ==
    /\ TypeOK
    /\ handler \in {"none", "tx", "tx_events", "contract", "contract_state"} \cup Lists
    /\ key \in Hash \cup Addr \cup Owner \cup Nat \cup {None}
    /\ order \in {"asc", "desc"}
    /\ from \in From \cup {0}
    /\ stage \in Stages
    /\ found \in Nat \cup State \cup {None}
    /\ anchor \in Nat \cup {None}
    /\ position \in Nat \cup {None}
    /\ page \in Seq(Nat) /\ Len(page) <= Count
    /\ pages \in Seq(Nat)

NoRequest ==
    /\ handler = "none" /\ key = None /\ order = "asc" /\ from = 0 /\ stage = "none"
    /\ found = None /\ anchor = None /\ position = None /\ page = <<>> /\ pages = <<>>

ReadInit == Init /\ NoRequest

----------------------------------------------------------------------------
(* Requests *)

\* What may be asked of a handler, and what it reads first.
Ask ==
    /\ stage = "none"
    /\ \/ /\ handler' \in {"tx", "tx_events"} /\ key' \in Hash /\ stage' = "hash"
          /\ order' = "asc" /\ from' = 0
       \/ /\ handler' \in {"contract", "contract_state"} /\ key' \in Addr
          /\ stage' = "pointer" /\ order' = "asc" /\ from' = 0
       \/ /\ handler' = "contract_actions" /\ key' \in Addr /\ stage' = "tip"
          /\ order' \in {"asc", "desc"} /\ from' = 0
       \/ /\ handler' = "block_txs" /\ key' \in 0 .. MaxHeight - 1 /\ stage' = "resolve"
          /\ order' \in {"asc", "desc"} /\ from' = 0
       \/ /\ handler' \in FromLists /\ stage' = "tip"
          /\ key' \in CASE handler' = "contract_events" -> Addr
                        [] handler' = "address_txs"     -> Owner
                        [] OTHER                        -> {None}
          /\ order' \in {"asc", "desc"} /\ from' \in From
    /\ found' = None /\ anchor' = None /\ position' = None /\ page' = <<>> /\ pages' = <<>>

Forget ==
    /\ handler' = "none" /\ key' = None /\ order' = "asc" /\ from' = 0 /\ stage' = "none"
    /\ found' = None /\ anchor' = None /\ position' = None /\ page' = <<>> /\ pages' = <<>>

\* The client has its answer.
Answered == stage \in Ended \ {"none"} /\ Forget

\* Read one row; go on with what it holds, or end the request.
Read(partition, k, missing, next, value(_)) ==
    /\ IF Has(store, partition, k)
       THEN stage' = next /\ found' = value(store[partition][k])
       ELSE stage' = missing /\ UNCHANGED found
    /\ UNCHANGED <<query, anchor, position, page, pages>>

(* GET /txs/{hash} and /txs/{hash}/events *)

\* The most recent transaction with the hash.
ReadHash ==
    /\ stage = "hash"
    /\ LET matching == {t \in 0 .. MaxTxs - 1 :
                           Has(store, "txs_by_hash", <<key, t>>)}
       IN  IF matching = {}
           THEN stage' = "notFound" /\ UNCHANGED found
           ELSE stage' = "tx" /\ found' = Max(matching)
    /\ UNCHANGED <<query, anchor, position, page, pages>>

\* Of its events only the first is modelled: the transactions have at most one.
ReadTx ==
    /\ stage = "tx"
    /\ IF ~Has(store, "txs", found)
       THEN stage' = "notFound" /\ UNCHANGED found
       ELSE LET tx == store.txs[found] IN
            IF handler = "tx"
            THEN stage' = "block" /\ found' = tx.height
            ELSE IF tx.events = {}
            THEN stage' = "ok" /\ found' = None
            ELSE stage' = "event" /\ found' = Min(tx.events)
    /\ UNCHANGED <<query, anchor, position, page, pages>>

ReadEvent ==
    /\ stage = "event"
    /\ Read("ledger_events", found, "failed", "block", LAMBDA e : e.height)

\* The block that is missing for a transaction or an event is an internal error.
ReadBlock ==
    /\ stage = "block"
    /\ Read("blocks", found, "failed", "ok", LAMBDA b : None)

(* GET /contracts/{addr} and /contracts/{addr}/state *)

ReadPointer ==
    /\ stage = "pointer"
    /\ Read("contracts", key, "notFound", "action", LAMBDA c : c.latest)

\* The action must be there, and for its blob have a state.
ReadAction ==
    /\ stage = "action"
    /\ IF ~Has(store, "contract_actions", found)
       THEN stage' = "failed" /\ UNCHANGED found
       ELSE LET state == store.contract_actions[found].state IN
            IF handler = "contract" THEN stage' = "ok" /\ found' = None
            ELSE IF state = Failed THEN stage' = "failed" /\ UNCHANGED found
            ELSE stage' = "blob" /\ found' = state
    /\ UNCHANGED <<query, anchor, position, page, pages>>

ReadBlob ==
    /\ stage = "blob"
    /\ Read("contract_states", found, "failed", "ok", LAMBDA blob : None)

(* Lists *)

\* A list of a block's transactions looks the block up, for every page.
Resolve ==
    /\ stage = "resolve"
    /\ Read("blocks", key, "notFound", IF position = None THEN "tip" ELSE "anchor",
            LAMBDA b : None)

\* A first page is anchored at the tip: its height, and its block's hash.
ReadTip ==
    /\ stage = "tip"
    /\ anchor' = LastHeight
    /\ stage' = IF LastHeight = None THEN "scan" ELSE "tipBlock"
    /\ UNCHANGED <<query, found, position, page, pages>>

ReadTipBlock ==
    /\ stage = "tipBlock"
    /\ Read("blocks", anchor, "failed", "scan", LAMBDA b : None)

\* A later page keeps the anchor its cursor names, if the block is there.
ValidateAnchor ==
    /\ stage = "anchor"
    /\ Read("blocks", anchor, "gone", "scan", LAMBDA b : None)

\* Ids the list's index holds.
Entries ==
    CASE handler = "contract_actions" ->
            {i \in 0 .. MaxTxs - 1 : Has(store, "contract_actions_by_addr", <<key, i>>)}
      [] handler = "contract_events" ->
            {i \in 0 .. MaxTxs - 1 : Has(store, "events_by_contract", <<key, i>>)}
      [] handler = "ledger_events" -> DOMAIN store.ledger_events
      [] handler = "address_txs" ->
            {i \in 0 .. MaxTxs - 1 : Has(store, "addr_txs", <<key, i>>)}
      [] handler = "block_txs" ->
            LET block == store.blocks[key] IN block.first .. block.first + block.count - 1

\* Those past the iterator's position.
Ahead == {i \in Entries : /\ i >= from
                          /\ \/ position = None
                             \/ order = "asc" /\ i > position
                             \/ order = "desc" /\ i < position}

\* The iterator's next entry; past the last one the page is complete, and
\* without a further row it is the last page.
Scan ==
    /\ stage = "scan"
    /\ IF Ahead = {}
       THEN /\ stage' = "ok"
            /\ pages' = pages \o page
            /\ page' = <<>>
            /\ UNCHANGED <<found, position>>
       ELSE /\ stage' = "row"
            /\ found' = IF order = "asc" THEN Min(Ahead) ELSE Max(Ahead)
            /\ position' = found'
            /\ UNCHANGED <<page, pages>>
    /\ UNCHANGED <<query, anchor>>

\* Faulty: rows of blocks above the anchor are not left out.
AboveNothing(row) == FALSE

\* A block's transactions are listed whatever the anchor.
AboveAnchor(row) == handler # "block_txs" /\ anchor # None /\ row.height > anchor

\* The client follows the cursor: the last row of the page it received.  There
\* is none without an anchor.
NextPage ==
    IF anchor = None
    THEN stage' = "ok" /\ UNCHANGED position
    ELSE /\ stage' = IF handler = "block_txs" THEN "resolve" ELSE "anchor"
         /\ position' = page[Count]

\* The row is in the page, or shows that there is another one.
Keep ==
    /\ IF Len(page) = Count
       THEN NextPage /\ pages' = pages \o page /\ page' = <<>>
       ELSE stage' = "scan" /\ page' = Append(page, found) /\ UNCHANGED <<position, pages>>
    /\ UNCHANGED <<query, found, anchor>>

\* What else of a row is read before it is kept.
RowStage == CASE handler \in {"contract_actions", "contract_events"} -> "rowTx"
              [] handler = "ledger_events" -> "rowBlock"
              [] OTHER -> "row"

\* The record of the entry: one above the anchor is skipped.
ReadRow ==
    /\ stage = "row"
    /\ IF ~Has(store, Records[handler], found)
       THEN stage' = "failed" /\ UNCHANGED <<query, found, anchor, position, page, pages>>
       ELSE IF AboveAnchor(store[Records[handler]][found])
       THEN stage' = "scan" /\ UNCHANGED <<query, found, anchor, position, page, pages>>
       ELSE IF RowStage = "row" THEN Keep
       ELSE stage' = RowStage /\ UNCHANGED <<query, found, anchor, position, page, pages>>

\* The row's transaction.
ReadRowTx ==
    /\ stage = "rowTx"
    /\ IF Has(store, "txs", store[Records[handler]][found].tx)
       THEN Keep
       ELSE stage' = "failed" /\ UNCHANGED <<query, found, anchor, position, page, pages>>

\* The event's block, for its protocol version.
ReadRowBlock ==
    /\ stage = "rowBlock"
    /\ IF Has(store, "blocks", store.ledger_events[found].height)
       THEN Keep
       ELSE stage' = "failed" /\ UNCHANGED <<query, found, anchor, position, page, pages>>

Serve == ReadHash \/ ReadTx \/ ReadEvent \/ ReadBlock
            \/ ReadPointer \/ ReadAction \/ ReadBlob
            \/ Resolve \/ ReadTip \/ ReadTipBlock \/ ValidateAnchor \/ Scan
            \/ ReadRow \/ ReadRowTx \/ ReadRowBlock

\* A process death takes the request with it, and the client its query.
CrashServing == Crash /\ Forget

ReadNext ==
    \/ Write /\ UNCHANGED request
    \/ (Ask \/ Serve \/ Answered) /\ UNCHANGED vars
    \/ CrashServing

ReadSpec == ReadInit /\ [][ReadNext]_allVars

----------------------------------------------------------------------------
(* Properties *)

\* Asking for a contract or its state never ends in an internal error, wherever
\* in a commit its reads fall.
StateServed == ~(handler \in {"contract", "contract_state"} /\ stage = "failed")

\* Nor does any list once a block is indexed, save that of a contract's events,
\* whose index entries are inserted before the events they name;
\* and a cursor stays good as long as the process lives.
ListsServed ==
    handler \in Lists \ {"contract_events"} /\ anchor # None => stage \notin {"failed", "gone"}

\* Rows of a list at or below the anchor.
Listed == {i \in DOMAIN store[Records[handler]] :
              LET row == store[Records[handler]][i] IN
              /\ CASE handler \in {"contract_actions", "contract_events"} -> row.addr = key
                   [] handler = "address_txs" -> row.owner = key
                   [] handler = "block_txs" -> row.height = key
                   [] OTHER -> TRUE
              /\ i >= from
              /\ handler # "block_txs" => row.height <= anchor}

\* The order of the list's rows.
Before(i, j) == IF order = "asc" THEN i < j ELSE i > j
Ordered(rows) == \A i, j \in DOMAIN rows : i < j => Before(rows[i], rows[j])

\* All pages of a list are the list at its anchor: in either order, each row
\* once, none missing and none from a block committed since.
PagesExact ==
    handler \in Lists /\ stage = "ok" /\ anchor # None =>
        ToSet(pages) = Listed /\ Ordered(pages)

\* A block's entities appear in a single atomic batch, so the API never finds
\* a transaction, or its events, without their block.
TxHasBlock == ~(handler \in {"tx", "tx_events"} /\ stage = "failed")
----------------------------------------------------------------------------
(* What makes them inductive.                                               *)

\* Where a request of each kind can be.
Route ==
    /\ handler \in {"none", "tx", "tx_events", "contract", "contract_state"} \cup Lists
    /\ handler = "none" <=> stage = "none"
    /\ handler \in {"tx", "tx_events"} =>
          stage \in {"hash", "tx", "event", "block", "ok", "notFound", "failed"}
    /\ handler \in {"contract", "contract_state"} =>
          stage \in {"pointer", "action", "blob", "ok", "notFound"}
    /\ handler \in Lists =>
          stage \in {"resolve", "tip", "tipBlock", "anchor", "scan", "row", "rowTx",
                     "rowBlock", "ok", "notFound", "gone", "failed"}

\* The pointer's action is a successful one, and its state is there.
Pointed ==
    /\ handler \in {"contract", "contract_state"} /\ stage = "action" =>
          /\ Has(store, "contract_actions", found)
          /\ store.contract_actions[found].state # Failed
          /\ Has(store, "contract_states", store.contract_actions[found].state)
    /\ handler \in {"contract", "contract_state"} /\ stage = "blob" =>
          Has(store, "contract_states", found)

\* Rows read so far, and those of the list up to the iterator's position.
Seen == pages \o page
Passed == {i \in Listed : position # None /\ ~Before(position, i)}

\* Before the anchor is taken nothing is read, and the block asked for is there.
Opening ==
    handler \in Lists =>
       /\ order \in {"asc", "desc"} /\ from \in Nat
       /\ handler = "address_txs" => key # None
       /\ stage = "tip" \/ (stage = "resolve" /\ position = None) =>
             position = None /\ pages = <<>> /\ page = <<>>
       /\ handler = "block_txs" /\ (stage = "tip" \/ anchor # None) =>
             Has(store, "blocks", key)

\* The pages hold what the iterator has passed, in order.
Listing ==
    handler \in Lists /\ anchor # None =>
       /\ anchor \in Nat /\ anchor <= LastHeight
       /\ position \in Nat \cup {None}
       /\ pages \in Seq(Nat) /\ page \in Seq(Nat) /\ Ordered(Seen)
       /\ stage \in {"tipBlock", "resolve", "anchor"} => page = <<>>
       /\ stage \in {"tipBlock", "resolve", "anchor", "scan"} => ToSet(Seen) = Passed
       /\ stage \in {"row", "rowTx", "rowBlock"} =>
             /\ found \in Entries /\ found \in Nat /\ found >= from /\ found = position
             /\ ToSet(Seen) = {i \in Listed : Before(i, found)}
       /\ stage \in {"rowTx", "rowBlock"} => found \in Listed
       /\ stage = "rowTx" => handler \in {"contract_actions", "contract_events"}
       /\ stage = "rowBlock" => handler = "ledger_events"
       /\ stage = "ok" => ToSet(pages) = Listed /\ Ordered(pages)
       /\ handler # "contract_events" => stage \notin {"failed", "gone"}

ReadInv == IInv /\ Route /\ Pointed /\ Opening /\ Listing
=============================================================================
