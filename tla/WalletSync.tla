------------------------------ MODULE WalletSync ------------------------------
(***************************************************************************)
(* The wallet endpoints, served while the pipeline indexes blocks:         *)
(*   shielded    POST /wallet/shielded-sync: scan for relevant             *)
(*               transactions, then Merkle updates around them             *)
(*   feed        POST /wallet/events: every Zswap and DUST event, in pages *)
(*               anchored at a tip                                         *)
(*   dust        GET /wallet/dust-sync: DUST events by their side index    *)
(*   parameters  GET /ledger/parameters/latest                             *)
(* and the arena lock, which keeps whoever walks a ledger state apart from *)
(* the pipeline's changes to the arena.  Each client asks again and again, *)
(* going on from where its last answer ended.                              *)
(*                                                                         *)
(* Heights, transaction and event ids start at 1.  A batch becomes visible *)
(* partition by partition, in the order of its last rows: requests do not  *)
(* tell apart the transactions of a block whose own row is not there yet.  *)
(* A system transaction is one that no key decrypts.                       *)
(***************************************************************************)
EXTENDS Naturals, Sequences, FiniteSets, SequencesExt

CONSTANTS Client,
          Key,        \* viewing keys
          KeyOf,      \* viewing key of a client: wallets may share one
          Asks,       \* ways to give each client the endpoints it uses
          MaxHeight,  \* bound: blocks the chain has
          Txs,        \* its transactions: the keys that decrypt it, its block
          Events,     \* their events: the kind, the transaction
          Retention,  \* LEDGER_STATE_RETENTION
          ScanBatch,  \* transactions of a scan's batch
          Count       \* events of a page

Kinds == {"output", "input", "dust", "contract"}

\* write_block gives out ids block by block, transaction by transaction.
ASSUME KeyAssumption == KeyOf \in [Client -> Key]
ASSUME MaxHeightAssumption == MaxHeight \in Nat
ASSUME TxsAssumption ==
    /\ Txs \in Seq([for : SUBSET Key, block : 1 .. MaxHeight])
    /\ \A t, u \in DOMAIN Txs : t <= u => Txs[t].block <= Txs[u].block
ASSUME EventsAssumption ==
    /\ Events \in Seq([kind : Kinds, tx : DOMAIN Txs])
    /\ \A e, f \in DOMAIN Events : e <= f => Events[e].tx <= Events[f].tx
ASSUME RetentionAssumption == Retention \in Nat \ {0}
ASSUME ScanBatchAssumption == ScanBatch \in Nat \ {0}
ASSUME CountAssumption == Count \in Nat \ {0}

VARIABLES
    asks,      \* rigid: the endpoints each client uses
    pc,        \* of the pipeline
    shown,     \* height to which a partition is visible
    window,    \* heights of the states retained in memory
    arena,     \* heights of the states that are whole
    rooted,    \* heights of the states with a root count
    progress,  \* wallet_scan_progress of a key
    relevant,  \* wallet_relevant_txs of a key
    req,       \* a client's request
    mem        \* what a client got so far and where it goes on

pipeline == <<pc, shown, window, arena, rooted>>
scans == <<progress, relevant>>
vars == <<asks, pipeline, scans, req, mem>>

None == 0
Partitions == <<"events", "blocks", "tip", "ids", "window">>

----------------------------------------------------------------------------
(* The chain *)

Block(e) == Txs[Events[e].tx].block

\* The last transaction and the last event of the blocks up to a height.
TxsTo == [h \in 0 .. MaxHeight |-> Cardinality({t \in DOMAIN Txs : Txs[t].block <= h})]
EventsTo == [h \in 0 .. MaxHeight |-> Cardinality({e \in DOMAIN Events : Block(e) <= h})]

\* wallet_tx_indices: the Zswap indices of a transaction's outputs.
End == [t \in 0 .. Len(Txs) |->
           Cardinality({e \in DOMAIN Events :
                           Events[e].kind = "output" /\ Events[e].tx <= t})]
Begin == [t \in DOMAIN Txs |-> End[t - 1]]

Decrypts(key, t) == key \in Txs[t].for

----------------------------------------------------------------------------
(* State *)

Ended == {"ok", "missing", "behind", "beyond", "inside"}

\* pcs of a request that hold the scan lock, and the arena lock shared.
Scanning == {"scan", "holdDecode", "decode"}
Walking == {"decode", "judge", "walk"}
Waiting == {"holdDecode", "holdJudge", "hold"}

\* pcs of the pipeline that hold the arena lock, or wait for it.
Changing == {"apply", "commit", "unpersist", "sweep"}
Wanting == {"wantApply", "wantUnpersist", "wantSweep"}

Idle == [pc |-> "ok", kind |-> "none", tip |-> 0, target |-> 0, state |-> 0,
         at |-> 0, rows |-> <<>>, found |-> {}]

Fresh == [applied |-> 0, updates |-> <<>>,
          from |-> 1, anchor |-> None, cursor |-> None, feed |-> <<>>,
          dustFrom |-> 1, dust |-> {}]

TypeOK ==
    /\ pc \in Changing \cup Wanting \cup {"fetch", "gc"}
    /\ DOMAIN shown = ToSet(Partitions)
    /\ \A p \in DOMAIN shown : shown[p] \in 0 .. MaxHeight
    /\ Len(window) <= Retention + 1
    /\ rooted \subseteq arena /\ arena \subseteq 1 .. MaxHeight
    /\ \A k \in Key : progress[k] \in 0 .. Len(Txs)
    /\ \A c \in Client :
          /\ req[c].pc \in Ended \cup Scanning \cup Walking \cup Waiting \cup
                 {"tip", "lock", "feed", "ids", "dust", "key"}
          /\ DOMAIN req[c] = DOMAIN Idle
          /\ Len(req[c].rows) <= Count
          /\ mem[c].applied \in 0 .. End[Len(Txs)]

Init ==
    /\ asks \in Asks
    /\ pc = "fetch"
    /\ shown = [p \in ToSet(Partitions) |-> 0]
    /\ window = <<>> /\ arena = {} /\ rooted = {}
    /\ progress = [k \in Key |-> 0] /\ relevant = [k \in Key |-> {}]
    /\ req = [c \in Client |-> Idle]
    /\ mem = [c \in Client |-> Fresh]

----------------------------------------------------------------------------
(* The arena lock: one that waits for it exclusively goes before readers *)

NoReader == \A c \in Client : req[c].pc \notin Walking

\* Faulty: readers go on taking the lock while the pipeline waits for it.
SharedBarging == pc \notin Changing

Shared == pc \notin Changing \cup Wanting

----------------------------------------------------------------------------
(* The pipeline *)

Pipe(from, to) == pc = from /\ pc' = to /\ UNCHANGED <<asks, scans, req, mem>>

FetchBlock ==
    /\ shown["window"] < MaxHeight
    /\ Pipe("fetch", "wantApply")
    /\ UNCHANGED <<shown, window, arena, rooted>>

\* index_block: replay and persist, all under the lock.
Apply ==
    /\ NoReader
    /\ Pipe("wantApply", "apply")
    /\ arena' = arena \cup {shown["window"] + 1}
    /\ rooted' = rooted \cup {shown["window"] + 1}
    /\ UNCHANGED <<shown, window>>

\* The batch's next partition becomes visible.
Commit ==
    /\ \E p \in DOMAIN Partitions :
          /\ shown[Partitions[p]] = shown["window"]
          /\ \A i \in 1 .. p - 1 : shown[Partitions[i]] = shown["window"] + 1
          /\ shown' = [shown EXCEPT ![Partitions[p]] = @ + 1]
          /\ pc \in {"apply", "commit"}
          /\ pc' = IF Partitions[p] # "window" THEN "commit"
                   ELSE IF Len(window) >= Retention THEN "wantUnpersist" ELSE "gc"
    /\ window' = IF pc' = "commit" THEN window ELSE Append(window, shown'["window"])
    /\ UNCHANGED <<asks, arena, rooted, scans, req, mem>>

\* One key at a time leaves the window, each under the lock.
Unpersist ==
    /\ NoReader
    /\ Pipe("wantUnpersist", "unpersist")
    /\ rooted' = rooted \ {Head(window)}
    /\ window' = Tail(window)
    /\ UNCHANGED <<shown, arena>>

Unlock ==
    /\ Pipe("unpersist", IF Len(window) > Retention THEN "wantUnpersist" ELSE "gc")
    /\ UNCHANGED <<shown, window, arena, rooted>>

\* While catching up, not after every block.
Collect ==
    /\ \/ Pipe("gc", "wantSweep")
       \/ Pipe("gc", "fetch")
    /\ UNCHANGED <<shown, window, arena, rooted>>

\* Faulty: the sweep does not take the lock.
SweepUnlocked ==
    /\ Pipe("wantSweep", "sweep")
    /\ arena' \in {arena \ gone : gone \in SUBSET (arena \ rooted)}
    /\ UNCHANGED <<shown, window, rooted>>

\* The sweep is bounded in time: it frees some of what has no root.
Sweep ==
    /\ NoReader
    /\ Pipe("wantSweep", "sweep")
    /\ arena' \in {arena \ gone : gone \in SUBSET (arena \ rooted)}
    /\ UNCHANGED <<shown, window, rooted>>

Swept ==
    /\ Pipe("sweep", "fetch")
    /\ UNCHANGED <<shown, window, arena, rooted>>

Index == FetchBlock \/ Apply \/ Commit \/ Unpersist \/ Unlock \/ Collect \/ Sweep \/ Swept

----------------------------------------------------------------------------
(* Requests *)

\* The request goes on; what the client remembers stays.
Goes(c, from, r) ==
    /\ req[c].pc = from
    /\ req' = [req EXCEPT ![c] = r]
    /\ UNCHANGED <<asks, pipeline, mem>>

\* The request ends, and the client remembers m.
Answers(c, from, outcome, m) ==
    /\ req[c].pc = from
    /\ req' = [req EXCEPT ![c] = IF outcome = "ok" THEN Idle
                                 ELSE [@ EXCEPT !.pc = outcome]]
    /\ mem' = [mem EXCEPT ![c] = m]
    /\ UNCHANGED <<asks, pipeline>>

Ask(c) ==
    /\ \E kind \in asks[c], ended \in Ended :
          Goes(c, ended, [Idle EXCEPT
            !.kind = kind,
            !.pc = CASE kind = "dust" -> "ids"
                     [] kind = "feed" /\ mem[c].cursor # None -> "feed"
                     [] OTHER -> "tip",
            !.tip = IF kind = "feed" THEN mem[c].anchor ELSE None,
            !.at = IF kind # "feed" THEN mem[c].dustFrom - 1
                   ELSE IF mem[c].cursor # None THEN mem[c].cursor ELSE mem[c].from - 1])
    /\ UNCHANGED scans

\* current_tip: the last indexed height, and its block.
ReadTip(c) ==
    /\ LET r == [req[c] EXCEPT !.tip = shown["tip"],
                               !.target = TxsTo[shown["tip"]],
                               !.state = IF req[c].kind = "parameters"
                                         THEN shown["tip"] ELSE @]
       IN  \/ req[c].kind = "shielded" /\ Goes(c, "tip", [r EXCEPT !.pc = "lock"])
           \/ req[c].kind = "feed" /\ Goes(c, "tip", [r EXCEPT !.pc = "feed"])
           \/ /\ req[c].kind = "parameters" /\ shown["tip"] # None
              /\ Goes(c, "tip", [r EXCEPT !.pc = "hold"])
           \/ /\ req[c].kind = "parameters" /\ shown["tip"] = None
              /\ Answers(c, "tip", "ok", mem[c])
    /\ UNCHANGED scans

(* scan_wallet_relevance, under the scan lock *)

ScanLock(c) ==
    /\ \A d \in Client : req[d].pc \notin Scanning
    /\ Goes(c, "lock", [req[c] EXCEPT !.pc = "scan", !.at = progress[KeyOf[c]]])
    /\ UNCHANGED scans

\* The next transaction of the batch, or the batch's commit, or the end.
BatchEnd(c) == LET batch == progress[KeyOf[c]] + ScanBatch
               IN  IF req[c].target < batch THEN req[c].target ELSE batch

ScanNext(c) ==
    /\ req[c].at < BatchEnd(c)
    /\ Goes(c, "scan", [req[c] EXCEPT !.at = @ + 1, !.pc = "holdDecode"])
    /\ UNCHANGED scans

HoldDecode(c) ==
    /\ Shared
    /\ Goes(c, "holdDecode", [req[c] EXCEPT !.pc = "decode"])
    /\ UNCHANGED scans

Decode(c) ==
    /\ Goes(c, "decode", [req[c] EXCEPT !.pc = "scan",
            !.found = IF Decrypts(KeyOf[c], req[c].at) THEN @ \cup {req[c].at} ELSE @])
    /\ UNCHANGED scans

\* Faulty: progress is what the request asked for, not what was scanned.
CommitScanToTarget(c) ==
    /\ progress[KeyOf[c]] < req[c].target
    /\ req[c].at = BatchEnd(c)
    /\ progress' = [progress EXCEPT ![KeyOf[c]] = req[c].target]
    /\ relevant' = [relevant EXCEPT ![KeyOf[c]] = @ \cup req[c].found]
    /\ Goes(c, "scan", [req[c] EXCEPT !.found = {}])

CommitScan(c) ==
    /\ progress[KeyOf[c]] < req[c].target
    /\ req[c].at = BatchEnd(c)
    /\ progress' = [progress EXCEPT ![KeyOf[c]] = req[c].at]
    /\ relevant' = [relevant EXCEPT ![KeyOf[c]] = @ \cup req[c].found]
    /\ Goes(c, "scan", [req[c] EXCEPT !.found = {}])

\* With nothing indexed the answer is empty.
ScanEnd(c) ==
    /\ progress[KeyOf[c]] >= req[c].target
    /\ IF req[c].target = 0 THEN Answers(c, "scan", "ok", mem[c])
                            ELSE Goes(c, "scan", [req[c] EXCEPT !.pc = "key"])
    /\ UNCHANGED scans

(* The rest of wallet_shielded_sync *)

\* The newest state's key, read before the arena lock is taken.
ReadWindow(c) ==
    /\ IF shown["window"] = 0
       THEN Answers(c, "key", "missing", mem[c])
       ELSE Goes(c, "key", [req[c] EXCEPT !.pc = "hold", !.state = shown["window"]])
    /\ UNCHANGED scans

Hold(c) ==
    /\ Shared
    /\ Goes(c, "hold", [req[c] EXCEPT !.pc = "walk"])
    /\ UNCHANGED scans

Targets(c) == {t \in relevant[KeyOf[c]] : t <= req[c].target}

Update(kind, from, to, t) == [kind |-> kind, from |-> from, to |-> to, tx |-> t]
Gap(from, to) == IF from < to THEN <<Update("collapsed", from, to, None)>> ELSE <<>>

\* Faulty: a transaction that the wallet has applied is not left out.
ExtendedUnskipped(u, t) ==
    IF u.inside THEN u
    ELSE IF Begin[t] < u.applied THEN [u EXCEPT !.inside = TRUE]
    ELSE [u EXCEPT !.applied = End[t],
                   !.list = @ \o Gap(u.applied, Begin[t])
                              \o <<Update("transaction", Begin[t], End[t], t)>>]

\* The updates u, and a relevant transaction unless it was applied before.
Extended(u, t) ==
    IF u.inside \/ End[t] <= u.applied THEN u
    ELSE IF Begin[t] < u.applied THEN [u EXCEPT !.inside = TRUE]
    ELSE [u EXCEPT !.applied = End[t],
                   !.list = @ \o Gap(u.applied, Begin[t])
                              \o <<Update("transaction", Begin[t], End[t], t)>>]

\* The updates from an index on, after each transaction in the order of ids.
Pass(from, txs) ==
    LET after[t \in 0 .. Len(Txs)] ==
            IF t = 0 THEN [applied |-> from, list |-> <<>>, inside |-> FALSE]
            ELSE IF t \in txs THEN Extended(after[t - 1], t) ELSE after[t - 1]
    IN  after

\* Collapsed updates lie between the transactions, and after the last one.
Updates(from, txs, highest) ==
    LET all == Pass(from, txs)[Len(Txs)]
    IN [all EXCEPT !.list = @ \o Gap(all.applied, highest),
                   !.applied = IF @ < highest THEN highest ELSE @]

\* The lock is held to the end of the handler, so the store stands still.
Walk(c) ==
    /\ req[c].kind = "shielded"
    /\ LET highest == End[req[c].target]
           from == mem[c].applied
           updates == Updates(from, Targets(c), highest)
           outcome == IF req[c].state \notin arena THEN "missing"
                      ELSE IF End[TxsTo[req[c].state]] < highest THEN "behind"
                      ELSE IF from > highest THEN "beyond"
                      ELSE IF updates.inside THEN "inside" ELSE "ok"
       IN  Answers(c, "walk", outcome,
                   IF outcome # "ok" THEN mem[c]
                   ELSE [mem[c] EXCEPT !.applied = updates.applied,
                                       !.updates = @ \o updates.list])
    /\ UNCHANGED scans

(* ledger_parameters_latest: the tip's own state *)

Parameters(c) ==
    /\ req[c].kind = "parameters"
    /\ Answers(c, "walk", IF req[c].state \in arena THEN "ok" ELSE "missing", mem[c])
    /\ UNCHANGED scans

(* wallet_events *)

\* Faulty: a feed without a further page goes on from NEXT_EVENT_ID.
FeedPageToHighest(c, more) ==
    Answers(c, "feed", "ok",
        [mem[c] EXCEPT !.feed = @ \o req[c].rows,
                       !.from = IF more /\ req[c].tip # None THEN @
                                ELSE EventsTo[shown["ids"]] + 1,
                       !.cursor = IF more /\ req[c].tip # None THEN req[c].at ELSE None,
                       !.anchor = IF more THEN req[c].tip ELSE None])

\* The page is full, or the events end: a cursor leads on, or else the client
\* asks from scanned_through, one past the last event examined.
FeedPage(c, more) ==
    Answers(c, "feed", "ok",
        [mem[c] EXCEPT !.feed = @ \o req[c].rows,
                       !.from = IF more /\ req[c].tip # None THEN @ ELSE req[c].at + 1,
                       !.cursor = IF more /\ req[c].tip # None THEN req[c].at ELSE None,
                       !.anchor = IF more THEN req[c].tip ELSE None])

\* Events examined, contract events too, or rows of the DUST index.
Full(c) == Cardinality(req[c].found) = Count

\* An event's relevant flag: a DUST event has none.
Relevance(c, e) == IF Events[e].kind = "dust" THEN "none"
                   ELSE IF Decrypts(KeyOf[c], Events[e].tx) THEN "yes" ELSE "no"

AboveAnchor(c, e) == req[c].tip # None /\ Block(e) > req[c].tip

\* The next event; events above the anchor do not count.
FeedNext(c) ==
    /\ LET ahead == {e \in (req[c].at + 1) .. EventsTo[shown["events"]] :
                        ~AboveAnchor(c, e)}
           e == CHOOSE i \in ahead : \A j \in ahead : i <= j
           r == [req[c] EXCEPT !.at = e, !.found = @ \cup {e}]
       IN  IF ahead = {} \/ Full(c)
           THEN FeedPage(c, ahead # {})
           ELSE IF Events[e].kind = "contract" THEN Goes(c, "feed", r)
           ELSE IF Block(e) > shown["blocks"] THEN Answers(c, "feed", "missing", mem[c])
           ELSE IF Events[e].kind = "dust"
           THEN Goes(c, "feed", [r EXCEPT !.rows = Append(@, <<e, Relevance(c, e)>>)])
           ELSE Goes(c, "feed", [r EXCEPT !.pc = "holdJudge"])
    /\ UNCHANGED scans

HoldJudge(c) ==
    /\ Shared
    /\ Goes(c, "holdJudge", [req[c] EXCEPT !.pc = "judge"])
    /\ UNCHANGED scans

Judge(c) ==
    /\ Goes(c, "judge", [req[c] EXCEPT !.pc = "feed",
            !.rows = Append(@, <<req[c].at, Relevance(c, req[c].at)>>)])
    /\ UNCHANGED scans

(* wallet_dust_sync *)

\* NEXT_EVENT_ID comes before the events.
ReadHighest(c) ==
    /\ Goes(c, "ids", [req[c] EXCEPT !.pc = "dust", !.target = EventsTo[shown["ids"]]])
    /\ UNCHANGED scans

\* Faulty: a full page too leads on to the highest id.
DustThroughHighest(c) == req[c].target

\* scanned_through: past a full page its last event, or else the highest id.
DustThrough(c) == IF Full(c) THEN req[c].at ELSE req[c].target

DustNext(c) ==
    /\ LET ahead == {e \in (req[c].at + 1) .. EventsTo[shown["events"]] :
                        Events[e].kind = "dust"}
           e == CHOOSE i \in ahead : \A j \in ahead : i <= j
       IN  IF ahead = {} \/ Full(c)
           THEN Answers(c, "dust", "ok",
                    [mem[c] EXCEPT !.dust = @ \cup req[c].found,
                                   !.dustFrom = DustThrough(c) + 1])
           ELSE IF Block(e) > shown["blocks"]
           THEN Answers(c, "dust", "missing", mem[c])
           ELSE Goes(c, "dust", [req[c] EXCEPT !.at = e, !.found = @ \cup {e}])
    /\ UNCHANGED scans

\* The steps in which a handler lets go of the arena lock.
Release(c) == Decode(c) \/ Judge(c) \/ Walk(c) \/ Parameters(c)

Shielded(c) == ScanLock(c) \/ ScanNext(c) \/ HoldDecode(c) \/ Decode(c)
                 \/ CommitScan(c) \/ ScanEnd(c) \/ ReadWindow(c) \/ Hold(c) \/ Walk(c)
Feed(c) == FeedNext(c) \/ HoldJudge(c) \/ Judge(c)
Serve(c) == ReadTip(c) \/ Shielded(c) \/ Parameters(c) \/ Feed(c)
              \/ ReadHighest(c) \/ DustNext(c)

Next == Index \/ \E c \in Client : Ask(c) \/ Serve(c)

Fairness == WF_vars(Index) /\ \A c \in Client : WF_vars(Release(c))

Spec == Init /\ [][Next]_vars /\ Fairness

----------------------------------------------------------------------------
(* Properties *)

\* Whoever loads or walks arena nodes does so while nobody changes the arena,
\* and the state it loads is whole: its key was read before the lock was
\* taken, and stays good for Retention - 1 further blocks.
WalksWhole ==
    \A c \in Client : req[c].pc \in Walking =>
       /\ pc \notin Changing
       /\ req[c].pc = "walk" =>
             \/ req[c].state \in arena
             \/ shown["window"] >= req[c].state + Retention

\* Updates lie end to end from the first index to the one applied, and among
\* them is every transaction that a key decrypts, once.
UpdatesExact(key, u, applied) ==
    LET sent == {i \in DOMAIN u : u[i].kind = "transaction"}
    IN  /\ \A i \in DOMAIN u :
              /\ u[i].from = IF i = 1 THEN 0 ELSE u[i - 1].to
              /\ u[i].from < u[i].to \/ (i \in sent /\ u[i].from = u[i].to)
        /\ applied = IF u = <<>> THEN 0 ELSE Last(u).to
        /\ \A t \in DOMAIN Txs :
              Decrypts(key, t) /\ Begin[t] < End[t] /\ End[t] <= applied
                 => \E i \in sent : u[i].tx = t /\ u[i].from = Begin[t] /\ u[i].to = End[t]
        /\ Cardinality({u[i].tx : i \in sent}) = Cardinality(sent)

\* All updates a wallet was sent, over any number of requests and while others
\* scan for the same key, join up to what it has applied, with nothing relevant
\* left out or sent twice.
SyncExact ==
    \A c \in Client : UpdatesExact(KeyOf[c], mem[c].updates, mem[c].applied)

\* A wallet that goes on from its last answer is never refused, and if the
\* state it is served from lags the tip it read, then by the block whose batch
\* was becoming visible.
SyncServed ==
    \A c \in Client : req[c].kind = "shielded" =>
       /\ req[c].pc \notin {"inside", "beyond"}
       /\ req[c].pc \in {"walk", "behind"} => req[c].state >= req[c].tip - 1

\* The last event a feed examined, by its cursor or scanned_through.
FeedThrough(m) == IF m.cursor # None THEN m.cursor ELSE m.from - 1

\* rows are those of the Zswap and DUST events among ids from .. to, in order.
RowsExact(c, rows, from, to) ==
    LET due == {e \in from .. to : Events[e].kind # "contract"}
    IN  /\ \A i \in DOMAIN rows : \E e \in due : rows[i] = <<e, Relevance(c, e)>>
        /\ \A e \in due : \E i \in DOMAIN rows : rows[i][1] = e
        /\ \A i, j \in DOMAIN rows : i < j => rows[i][1] < rows[j][1]

\* The events a wallet was sent are all Zswap and DUST events up to the last
\* one examined, in order, each once, with the right relevance, however pages
\* and blocks interleave.
FeedExact == \A c \in Client : RowsExact(c, mem[c].feed, 1, FeedThrough(mem[c]))

\* The DUST feed skips no event, wherever in a commit its reads fall.
DustComplete ==
    \A c \in Client : {e \in 1 .. mem[c].dustFrom - 1 : Events[e].kind = "dust"}
                         \subseteq mem[c].dust

\* However many requests walk ledger states, one after the other for ever and
\* overlapping, the pipeline gets the arena lock and all blocks are indexed.
BlocksIndexed == <>(shown["window"] = MaxHeight)

----------------------------------------------------------------------------
(* Strengthenings, for the proofs *)

\* Between two blocks every partition shows the same height.  The window's
\* states are rooted, and they are the newest Retention, or all.
PipelineInv ==
    LET top == shown["window"]
        committing == pc \in {"apply", "commit"}
    IN  /\ pc \in Changing \cup Wanting \cup {"fetch", "gc"}
        /\ shown \in [ToSet(Partitions) -> 0 .. MaxHeight]
        /\ \A p \in DOMAIN shown : shown[p] = top \/ (committing /\ shown[p] = top + 1)
        /\ \A i, j \in DOMAIN Partitions :
              i <= j => shown[Partitions[i]] >= shown[Partitions[j]]
        /\ committing \/ pc = "wantApply" => top < MaxHeight
        /\ window \in Seq(Nat) /\ Len(window) <= top
        /\ \A i \in DOMAIN window : window[i] = top - Len(window) + i
        /\ Len(window) = top \/ Len(window) >= Retention
        /\ pc = "wantUnpersist" => Len(window) > Retention
        /\ (top - Len(window) + 1) .. (IF committing THEN top + 1 ELSE top) \subseteq rooted
        /\ rooted \subseteq arena

\* The state a request is about to load was the newest when it was chosen.
RequestInv ==
    /\ DOMAIN req = Client /\ DOMAIN mem = Client
    /\ \A c \in Client :
          /\ DOMAIN req[c] = DOMAIN Idle /\ DOMAIN mem[c] = DOMAIN Fresh
          /\ req[c].pc \in Walking => pc \notin Changing
          /\ req[c].pc \in {"hold", "walk"} => req[c].state \in 1 .. shown["tip"]

Row == (DOMAIN Events) \X {"none", "yes", "no"}

\* What a page r of a feed m examined joins on to what was examined before.
FeedJoins(c, m, r) ==
    LET through == FeedThrough(m)
    IN  /\ m.from \in 1 .. Len(Events) + 1
        /\ m.cursor \in 0 .. Len(Events) /\ m.anchor \in 0 .. MaxHeight
        /\ m.feed \in Seq(Row) /\ RowsExact(c, m.feed, 1, through)
        /\ r.pc \in {"feed", "holdJudge", "judge"} => r.kind = "feed"
        /\ r.kind = "feed" /\ r.pc \in {"tip", "feed", "holdJudge", "judge"} =>
              /\ r.tip \in 0 .. MaxHeight /\ r.at \in through .. Len(Events)
              /\ r.rows \in Seq(Row) /\ r.found \subseteq (through + 1) .. r.at
        /\ r.kind = "feed" /\ r.pc = "tip" => r.rows = <<>> /\ r.at = through
        /\ r.pc = "feed" => RowsExact(c, r.rows, through + 1, r.at)
        /\ r.pc \in {"holdJudge", "judge"} =>
              /\ RowsExact(c, r.rows, through + 1, r.at - 1)
              /\ r.at > through /\ Events[r.at].kind # "contract"

FeedInv == \A c \in Client : FeedJoins(c, mem[c], req[c])

DustAmong(from, to) == {e \in from .. to : Events[e].kind = "dust"}

\* All DUST events up to the one examined are found, and those up to the
\* highest id that was read are visible.
DustJoins(m, r, visible) ==
    /\ m.dustFrom \in 1 .. Len(Events) + 1
    /\ DustAmong(1, m.dustFrom - 1) \subseteq m.dust
    /\ r.pc \in {"ids", "dust"} =>
          /\ r.at \in m.dustFrom - 1 .. Len(Events)
          /\ DustAmong(m.dustFrom, r.at) \subseteq r.found
    /\ r.pc = "dust" => r.target \in 0 .. visible

DustInv == \A c \in Client : DustJoins(mem[c], req[c], EventsTo[shown["events"]])

UpdateRow == [kind : {"transaction", "collapsed"},
              from : Nat, to : Nat, tx : 0 .. Len(Txs)]
Sends(u) == u.kind = "transaction"

\* The updates lie end to end from the first index to an index; transactions
\* among them have their own ranges, of which no two end alike.
Joined(updates, applied) ==
    /\ updates \in Seq(UpdateRow)
    /\ applied = IF updates = <<>> THEN 0 ELSE updates[Len(updates)].to
    /\ \A i \in DOMAIN updates :
          /\ updates[i].from = IF i = 1 THEN 0 ELSE updates[i - 1].to
          /\ updates[i].from < updates[i].to
                \/ (Sends(updates[i]) /\ updates[i].from = updates[i].to)
          /\ updates[i].to <= applied
          /\ Sends(updates[i]) => /\ updates[i].tx \in DOMAIN Txs
                                  /\ updates[i].from = Begin[updates[i].tx]
                                  /\ updates[i].to = End[updates[i].tx]
    /\ \A i, j \in DOMAIN updates :
          i < j /\ Sends(updates[i]) /\ Sends(updates[j]) => updates[i].to < updates[j].to

\* Every transaction with outputs that a key decrypts is among the updates, up
\* to an index.
Complete(key, updates, applied) ==
    \A t \in DOMAIN Txs :
       Decrypts(key, t) /\ Begin[t] < End[t] /\ End[t] <= applied
          => \E i \in DOMAIN updates : Sends(updates[i]) /\ updates[i].tx = t

\* What a wallet was sent ends where a transaction ends, in a visible block.
Synced(c, m, top) ==
    /\ \E t \in 0 .. Len(Txs) : m.applied = End[t]
    /\ m.applied <= End[TxsTo[top]]
    /\ Joined(m.updates, m.applied) /\ Complete(KeyOf[c], m.updates, m.applied)

\* A shielded request r has a visible tip, its key is scanned to the tip's last
\* transaction before updates are put together, and the state it loads lags the
\* tip by a block at most.
Syncs(c, m, r, top, done) ==
    /\ r.pc = "tip" => r.found = {}
    /\ r.pc \in {"lock", "key"} \cup Scanning => r.kind = "shielded"
    /\ r.kind = "shielded" =>
          /\ r.pc \notin {"inside", "beyond"}
          /\ r.pc \in {"lock", "key", "hold", "walk"} \cup Scanning =>
                r.tip \in 0 .. top /\ r.target = TxsTo[r.tip] /\ m.applied <= End[r.target]
          /\ r.pc = "lock" => r.found = {}
          /\ r.pc \in {"key", "hold", "walk"} => done >= r.target
          /\ r.pc \in {"hold", "walk", "behind"} => r.state >= r.tip - 1
    /\ r.pc \in Scanning =>
          LET last == IF r.pc = "scan" THEN r.at ELSE r.at - 1
          IN  /\ r.at \in 0 .. Len(Txs) /\ last >= done
              /\ r.found = {t \in done + 1 .. last : Decrypts(KeyOf[c], t)}

\* Only whoever has the scan lock scans, and what is relevant for a key is known
\* as far as the key's progress goes.
ScanInv ==
    /\ progress \in [Key -> 0 .. Len(Txs)] /\ DOMAIN relevant = Key
    /\ \A k \in Key : relevant[k] = {t \in 1 .. progress[k] : Decrypts(k, t)}
    /\ \A c, d \in Client : req[c].pc \in Scanning /\ req[d].pc \in Scanning => c = d

SyncInv ==
    \A c \in Client : /\ Synced(c, mem[c], shown["tip"])
                      /\ Syncs(c, mem[c], req[c], shown["tip"], progress[KeyOf[c]])

IInv == PipelineInv /\ RequestInv /\ FeedInv /\ DustInv /\ ScanInv /\ SyncInv
=============================================================================
