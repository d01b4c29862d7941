-------------------------------- MODULE Replay --------------------------------
(***************************************************************************)
(* index_block's replay: the transactions of each block are applied to the *)
(* indexer's own ledger state, which must stay bit for bit the node's,     *)
(* while what they did is derived for the index.  The process may die at   *)
(* any point and goes on from the last block it committed.                 *)
(*                                                                         *)
(* The ledger library is external.  A state holds what transactions read   *)
(* and change: unshielded UTXOs, the first free Zswap index, how often     *)
(* each contract was changed (0 if there is none), and a mark of every     *)
(* time and fullness it was given, so that states that were fed            *)
(* differently have different roots.  How a transaction ends is fixed with *)
(* the chain; whether it is well formed depends on the time it is checked  *)
(* at.  Time is in seconds of a clock that starts at 1; 0 is no time.      *)
(***************************************************************************)
EXTENDS ContractLogs

CONSTANTS Chains,     \* chains to replay
          Limit,      \* block limit, of one cost dimension
          Bump,       \* MEMPOOL_TBLOCK_BUMP_MILLIS
          Contracts,  \* contract addresses
          Opaque,     \* contract states the decoder refuses
          MaxCrashes  \* bound: process deaths

ASSUME LimitAssumption == Limit \in Nat
ASSUME BumpAssumption == Bump \in Nat

ASSUME ChainsAssumption ==
    \A c \in Chains :
       /\ c.blocks \in Seq(Range(c.blocks))
       /\ \A b \in Range(c.blocks) :
             /\ b.txs \in Seq(Range(b.txs))
             /\ \A tx \in Range(b.txs) : /\ tx.fate \in {"success", "failure"}
                                        /\ tx.outputs \in Nat
                                        /\ tx.emits \in Seq(Range(tx.emits))
             /\ \A tx \in Range(b.txs) : \A e \in Range(tx.emits) :
                   e.kind = "log" => IsEvent(e.event) /\ e.item = LogItem(e.event)

VARIABLES
    chain,    \* rigid: genesis kind and blocks
    pc,       \* "down", "fetch", "apply" or "failed"
    at,       \* transactions applied of the block under way
    ledger,   \* the ledger state in memory
    fullness, \* block_fullness, kept with it
    parent,   \* parent_block_timestamp
    first,    \* first_regular
    genesis,  \* the genesis state that waits for block 0 to end, if any
    derived,  \* what the block's transactions did
    disk,     \* persisted state, cursor, its timestamp and the index
    crashes   \* history: process deaths so far

memory == <<pc, at, ledger, fullness, parent, first, genesis, derived>>
vars == <<chain, memory, disk, crashes>>

----------------------------------------------------------------------------
(* The ledger library *)

New(version) == [version |-> version, base |-> "fresh", utxos |-> {}, free |-> 0,
                 contracts |-> [c \in Contracts |-> 0], mark |-> <<>>]

\* Segments of a transaction whose fallible part is applied; a failed
\* transaction leaves no trace, not even of its guaranteed part.
Failed(tx) == tx.fate = "failure"
Applied(tx) == IF Failed(tx) THEN {} ELSE DOMAIN tx.intents \ tx.fails

\* What apply reports: the result, with the segments of a partial success.
Result(tx) == IF Failed(tx) \/ tx.fails = {} THEN [kind |-> tx.fate]
              ELSE [kind |-> "partial",
                    segments |-> {<<s, s \in Applied(tx)>> : s \in DOMAIN tx.intents}]

LedgerOut(tx) ==
    CASE tx.kind = "standard" /\ ~Failed(tx) ->
            (UNION {tx.intents[s].gOut : s \in DOMAIN tx.intents})
              \cup UNION {tx.intents[s].fOut : s \in Applied(tx)}
      [] tx.kind \in {"claim", "treasury"} /\ ~Failed(tx) -> tx.out
      [] OTHER -> {}

LedgerIn(tx) ==
    IF tx.kind = "standard" /\ ~Failed(tx)
    THEN (UNION {tx.intents[s].gIn : s \in DOMAIN tx.intents})
           \cup UNION {tx.intents[s].fIn : s \in Applied(tx)}
    ELSE {}

Outputs(tx) == IF Failed(tx) THEN 0 ELSE tx.outputs

\* A deployment, call or update changes its contract if its segment is applied,
\* and the contract is there unless it is the deployment that makes it.
Changed(contracts, tx) ==
    FoldLeft(LAMBDA cs, act :
                IF act.segment \in Applied(tx) /\ (act.kind = "deploy" <=> cs[act.contract] = 0)
                THEN [cs EXCEPT ![act.contract] = @ + 1] ELSE cs,
             contracts, tx.acts)

\* A segment may spend what an earlier one of the transaction made.
LedgerApply(s, tx, time, parentTime) ==
    IF Failed(tx) THEN s
    ELSE [s EXCEPT !.utxos = (@ \cup LedgerOut(tx)) \ LedgerIn(tx),
                   !.free = @ + Outputs(tx),
                   !.contracts = Changed(@, tx),
                   !.mark = Append(@, <<time, parentTime>>)]

PostBlock(s, full, time) == [s EXCEPT !.mark = Append(@, <<time, full>>)]

WellFormed(tx, tblock) == tx.from <= tblock /\ tblock <= tx.until

----------------------------------------------------------------------------
(* The node's chain *)

Blocks == chain.blocks
Heights == 0 .. Len(Blocks) - 1
Block(h) == Blocks[h + 1]

IsRegular(tx) == tx.kind \in {"standard", "claim"}

Clamped(n) == IF n > Limit THEN Limit ELSE n

\* What the first i transactions take of a block's limit.
Counted(txs) ==
    LET count[i \in 0 .. Len(txs)] ==
          IF i = 0 THEN 0
          ELSE IF Failed(txs[i]) THEN count[i - 1] ELSE count[i - 1] + txs[i].cost
    IN  count

\* The time before a block, which is its own if there is none.
TimeBefore(h) == IF h = 0 \/ Block(h - 1).time = 0 THEN Block(h).time
                 ELSE Block(h - 1).time

\* A state after the first i transactions of a block.
Replayed(s, h) ==
    LET after[i \in 0 .. Len(Block(h).txs)] ==
          IF i = 0 THEN s
          ELSE LedgerApply(after[i - 1], Block(h).txs[i], Block(h).time, TimeBefore(h))
    IN  after

NodeBlock(s, h) ==
    LET last == Len(Block(h).txs)
    IN  PostBlock(Replayed(s, h)[last], Clamped(Counted(Block(h).txs)[last]), Block(h).time)

\* The genesis state of the node's system properties: with block 0 in it, or
\* before it.
Before0 == [New(Block(0).version) EXCEPT !.base = "genesis"]
GenesisState == IF chain.post THEN NodeBlock(Before0, 0) ELSE Before0

\* The node's state after a block.
Node == LET after[h \in Heights] ==
               IF h = 0 THEN NodeBlock(Before0, 0)
               ELSE NodeBlock([after[h - 1] EXCEPT !.version = Block(h).version], h)
        IN  after

\* The node takes a transaction it finds well formed at the block's time; the
\* first regular one of a block it may have found so ahead of time.
FirstRegular(txs) == SelectInSeq(txs, IsRegular)
Legal(c) ==
    \A h \in 1 .. Len(c.blocks) : \A i \in DOMAIN c.blocks[h].txs :
       LET tx == c.blocks[h].txs[i]
           before == IF h = 1 \/ c.blocks[h - 1].time = 0 THEN c.blocks[h].time
                     ELSE c.blocks[h - 1].time
       IN  IsRegular(tx) =>
              \/ WellFormed(tx, c.blocks[h].time)
              \/ h > 1 /\ i = FirstRegular(c.blocks[h].txs) /\ WellFormed(tx, before + Bump)

----------------------------------------------------------------------------
(* State *)

TypeOK ==
    /\ pc \in {"down", "fetch", "apply", "failed"}
    /\ at = Len(derived)
    /\ fullness \in Nat
    /\ pc = "fetch" => fullness = 0 /\ at = 0 /\ genesis = <<>>
    /\ pc = "apply" => at <= Len(Block(disk.tip + 1).txs)
    /\ first \in BOOLEAN
    /\ disk.tip \in -1 .. Len(Blocks) - 1
    /\ \A r \in Range(disk.rows) : r.block \in 0 .. disk.tip

NoProcess ==
    /\ pc = "down" /\ at = 0 /\ fullness = 0 /\ parent = 0 /\ first = TRUE
    /\ genesis = <<>> /\ derived = <<>>
    /\ ledger = New("oldest")

Init ==
    /\ chain \in {c \in Chains : Legal(c)}
    /\ NoProcess
    /\ disk = [tip |-> -1, time |-> 0, state |-> New("oldest"), rows |-> <<>>]
    /\ crashes = 0

----------------------------------------------------------------------------
(* Start-up *)

\* Faulty: the time of the last block is not remembered.
StartUnseeded ==
    /\ pc = "down"
    /\ pc' = "fetch"
    /\ ledger' = IF disk.tip = -1 THEN New("oldest") ELSE disk.state
    /\ parent' = 0
    /\ UNCHANGED <<chain, at, fullness, first, genesis, derived, disk, crashes>>

\* A state is loaded without fullness; a first run bootstraps one.
Start ==
    /\ pc = "down"
    /\ pc' = "fetch"
    /\ ledger' = IF disk.tip = -1 THEN New("oldest") ELSE disk.state
    /\ parent' = disk.time
    /\ UNCHANGED <<chain, at, fullness, first, genesis, derived, disk, crashes>>

----------------------------------------------------------------------------
(* index_block *)

Height == disk.tip + 1
B == Block(Height)

\* Block 0 establishes the version; no other block may change it.
Translates == Height = 0 \/ ledger.version = B.version

\* Is block 0 in the genesis state already?  The roots decide.
GenesisPost == Node[0] = GenesisState

Begin ==
    /\ pc = "fetch"
    /\ Height \in Heights
    /\ parent' = IF parent = 0 THEN B.time ELSE parent
    /\ IF ~Translates
       THEN pc' = "failed" /\ UNCHANGED <<ledger, genesis>>
       ELSE /\ pc' = "apply"
            /\ ledger' = IF Height > 0 THEN ledger
                         ELSE IF GenesisPost THEN New(B.version) ELSE GenesisState
            /\ genesis' = IF Height = 0 /\ GenesisPost THEN <<GenesisState>> ELSE <<>>
    /\ first' = TRUE
    /\ UNCHANGED <<chain, at, fullness, derived, disk, crashes>>

\* Faulty: a transaction that is not well formed ahead of time is not tried
\* again at the block's time.
AcceptsBumpedOnly(tx) ==
    WellFormed(tx, IF Height > 0 /\ first THEN parent + Bump ELSE B.time)

\* The first regular transaction is checked ahead of time, like the node did
\* when it entered the mempool, and if it is malformed then at the block's own.
Accepts(tx) ==
    \/ Height > 0 /\ first /\ WellFormed(tx, parent + Bump)
    \/ WellFormed(tx, B.time)

\* Faulty: outputs of all segments, whether or not they succeeded.
CreatedByAll(tx) ==
    IF Failed(tx) THEN {}
    ELSE IF tx.kind = "standard"
    THEN UNION {tx.intents[s].gOut \cup tx.intents[s].fOut : s \in DOMAIN tx.intents}
    ELSE tx.out

\* Segments the result says succeeded.
Successful(tx) ==
    LET result == Result(tx) IN
    CASE result.kind = "success" -> DOMAIN tx.intents
      [] result.kind = "partial" -> {s \in DOMAIN tx.intents : <<s, TRUE>> \in result.segments}
      [] OTHER -> {}

\* extend_unshielded_utxos: the guaranteed or the fallible part of an intent.
Part(intent, guaranteed) ==
    IF guaranteed THEN [in |-> intent.gIn, out |-> intent.gOut]
    ELSE [in |-> intent.fIn, out |-> intent.fOut]

\* Segment 0 is the guaranteed part of every intent; each other segment has
\* the fallible part of its own.
Parts(tx) == {Part(tx.intents[s], TRUE) : s \in DOMAIN tx.intents}
                \cup {Part(tx.intents[s], FALSE) : s \in Successful(tx)}

Created(tx) ==
    IF Result(tx).kind = "failure" THEN {}
    ELSE CASE tx.kind = "standard" -> UNION {part.out : part \in Parts(tx)}
           [] tx.kind \in {"claim", "treasury"} -> tx.out
           [] OTHER -> {}

Spent(tx) ==
    IF Result(tx).kind = "failure" \/ tx.kind # "standard" THEN {}
    ELSE UNION {part.in : part \in Parts(tx)}

\* Deployments are dropped, and logs where they have no decoder.
EventKinds == IF ledger.version = "v9" THEN {"dust", "log"} ELSE {"dust"}

\* Of an event of the ledger the index keeps its kind, and of a log its fields.
Event(e) == IF e.kind = "log"
            THEN [kind |-> "log", attributes |-> make_contract_event_attributes(e.item)]
            ELSE [kind |-> e.kind]

\* Those of the kinds that are not dropped among the first i events.
Kept(events, kinds) ==
    LET kept[i \in 0 .. Len(events)] ==
          IF i = 0 THEN <<>>
          ELSE IF events[i].kind \in kinds THEN Append(kept[i - 1], events[i])
          ELSE kept[i - 1]
    IN  kept

\* make_ledger_events; a failed transaction has no events.
LedgerEvents(tx) ==
    LET kept == Kept(tx.emits, EventKinds)[Len(tx.emits)]
    IN  IF Result(tx).kind = "failure" THEN <<>>
        ELSE [i \in 1 .. tx.outputs |-> [kind |-> "output"]]
               \o [i \in DOMAIN kept |-> Event(kept[i])]

\* A contract's state as the node has it at the end of the block.
FetchedState(contract) == Node[Height].contracts[contract]

\* What the decoder reads of a state: no balances if it refuses it.
Balances(state) == IF state \in Opaque THEN {} ELSE {state}

\* Every action of the transaction, also of a segment that failed; an empty
\* state has no hash.
Actions(tx) ==
    [i \in DOMAIN tx.acts |->
        LET state == FetchedState(tx.acts[i].contract) IN
        [contract |-> tx.acts[i].contract, kind |-> tx.acts[i].kind,
         hash     |-> IF state = 0 THEN <<>> ELSE <<state>>,
         balances |-> IF state = 0 THEN {} ELSE Balances(state)]]

Derived(tx, after) ==
    [block |-> Height, index |-> at + 1, created |-> Created(tx), spent |-> Spent(tx), events |-> LedgerEvents(tx),
     actions |-> Actions(tx), start |-> ledger.free, end |-> after.free]

Fuller(tx) == IF Result(tx).kind = "failure" THEN fullness ELSE fullness + tx.cost

Apply(tx) ==
    LET after == LedgerApply(ledger, tx, B.time, parent) IN
    /\ ledger' = after
    /\ fullness' = Fuller(tx)
    /\ derived' = Append(derived, Derived(tx, after))
    /\ at' = at + 1
    /\ UNCHANGED <<chain, pc, parent, genesis, disk, crashes>>

ApplyRegular ==
    /\ pc = "apply" /\ at < Len(B.txs)
    /\ LET tx == B.txs[at + 1] IN
       /\ IsRegular(tx)
       /\ IF Accepts(tx)
          THEN Apply(tx) /\ first' = FALSE
          ELSE /\ pc' = "failed"
               /\ UNCHANGED <<chain, at, ledger, fullness, parent, first, genesis,
                              derived, disk, crashes>>

\* Faulty: any transaction ends the wait for the first regular one.
ApplySystemAsFirst ==
    /\ pc = "apply" /\ at < Len(B.txs)
    /\ ~IsRegular(B.txs[at + 1])
    /\ Apply(B.txs[at + 1])
    /\ first' = FALSE

ApplySystem ==
    /\ pc = "apply" /\ at < Len(B.txs)
    /\ ~IsRegular(B.txs[at + 1])
    /\ Apply(B.txs[at + 1])
    /\ UNCHANGED first

\* finalize_apply_transactions, the root checks, and the block's batch.
Finish ==
    /\ pc = "apply" /\ at = Len(B.txs)
    /\ LET posted == PostBlock(ledger, Clamped(fullness), B.time)
           final == IF genesis # <<>> THEN genesis[1] ELSE posted
           matches == /\ B.rooted => final = Node[Height]
                      /\ final.free = Node[Height].free
       IN  /\ ledger' = final
           /\ fullness' = 0
           /\ parent' = B.time
           /\ IF matches
              THEN /\ pc' = "fetch" /\ at' = 0 /\ derived' = <<>>
                   /\ disk' = [tip |-> Height, time |-> B.time, state |-> final,
                               rows |-> disk.rows \o derived]
              ELSE pc' = "failed" /\ UNCHANGED <<at, derived, disk>>
    /\ genesis' = <<>>
    /\ UNCHANGED <<chain, first, crashes>>

Crash ==
    /\ pc \in {"fetch", "apply"}
    /\ crashes < MaxCrashes
    /\ crashes' = crashes + 1
    /\ pc' = "down" /\ at' = 0 /\ fullness' = 0 /\ parent' = 0 /\ first' = TRUE
    /\ genesis' = <<>> /\ derived' = <<>> /\ ledger' = New("oldest")
    /\ UNCHANGED <<chain, disk>>

Work == Start \/ Begin \/ ApplyRegular \/ ApplySystem \/ Finish

Next == Work \/ Crash

Spec == Init /\ [][Next]_vars /\ WF_vars(Work)

----------------------------------------------------------------------------
(* Properties *)

\* The replay stops at no block the node has made, wherever the process died
\* before, except where the chain changes the ledger version, which has no
\* translation.
StopsAtUpgradesOnly ==
    pc = "failed" => Height > 0 /\ B.version # Block(Height - 1).version

\* What is persisted is the node's state, for blocks without a root to check
\* it against too.
ReplayExact == disk.tip >= 0 => disk.state = Node[disk.tip]

\* Created, and spent neither by that transaction nor by a later one.
Unspent(rows) ==
    {x \in UNION {rows[i].created : i \in DOMAIN rows} :
        \E i \in DOMAIN rows : /\ x \in rows[i].created
                              /\ \A j \in i .. Len(rows) : x \notin rows[j].spent}

OutputEvents(r) == {i \in DOMAIN r.events : r.events[i].kind = "output"}

\* The Zswap range of a transaction begins where the one before ends, and is as
\* long as the transaction has output events.
RangesMeet(rows) ==
    \A i \in DOMAIN rows :
       /\ rows[i].start = IF i = 1 THEN 0 ELSE rows[i - 1].end
       /\ rows[i].end - rows[i].start = Cardinality(OutputEvents(rows[i]))

\* Every action has its contract's state, and none if there is no such contract.
ActionsOf(r, contracts) ==
    \A a \in Range(r.actions) :
       LET state == contracts[a.contract] IN
       /\ a.hash = <<>> <=> state = 0
       /\ state # 0 => a.hash = <<state>>
       /\ a.balances \subseteq {state} \ Opaque

\* The index agrees with the ledger without ever reading it: outputs created
\* and not spent are its UTXOs, and the Zswap ranges of the transactions lie
\* end to end up to its first free index.  The states the node was asked for
\* are those the replay arrives at: every action of a block has its contract's
\* at the end of it.
IndexExact ==
    disk.tip >= 0 =>
       /\ Unspent(disk.rows) = Node[disk.tip].utxos
       /\ RangesMeet(disk.rows)
       /\ disk.rows # <<>> => Last(disk.rows).end = Node[disk.tip].free
       /\ \A r \in Range(disk.rows) :
             r.block = disk.tip => ActionsOf(r, disk.state.contracts)

Values(e) == [i \in DOMAIN e.fields |-> e.fields[i].value]

DefaultOf(field) == CASE field.kind = "uint" -> 0
                      [] field.kind = "either" -> [left |-> TRUE, key |-> <<>>]
                      [] OTHER -> <<>>
Default(e) == [i \in DOMAIN e.fields |-> DefaultOf(e.fields[i])]

\* Written in the current layout, and only zeros of the final field stripped.
OnlyFinalStripped(e) ==
    LET leading == Flat(SubSeq(e.wire, 1, Len(e.wire) - 1))
    IN  e.wire = e.fields /\ (leading = <<>> \/ leading[Len(leading)] # 0)

LogsOf(events) == Kept(events, {"log"})[Len(events)]

\* What a transaction logs, if it takes place and its block has a decoder.
Logged(h, i) ==
    LET tx == Block(h).txs[i]
    IN  IF Failed(tx) \/ Block(h).version # "v9" THEN <<>> ELSE LogsOf(tx.emits)

\* All transactions of the blocks indexed so far have a row, and
\* Holds(emitted, decoded) for every log of them.
Logs(Holds(_, _)) ==
    /\ \A h \in 0 .. disk.tip : \A i \in DOMAIN Block(h).txs :
          \E r \in Range(disk.rows) : r.block = h /\ r.index = i
    /\ \A r \in Range(disk.rows) :
          LET emitted == Logged(r.block, r.index)
              decoded == LogsOf(r.events)
          IN  /\ Len(decoded) = Len(emitted)
              /\ \A j \in DOMAIN emitted : Holds(emitted[j].event, decoded[j].attributes)

SoundLog(e, attributes) ==
    /\ attributes = Default(e) \/ (e.wire = e.fields /\ attributes = Values(e))
    /\ OnlyFinalStripped(e) /\ e.type # "ShieldedSpend" => attributes = Values(e)

\* Every log of a transaction that took place is in the index, as it was
\* emitted or with default fields, never with fields cut at the wrong place;
\* and stripping its final field does not cost a log its fields, except that
\* of a shielded spend, whose only field is never padded.
LogsSound == Logs(SoundLog)

\* "An emission whose only-trailing-zero stripping is the final value field
\* still decodes correctly": the comment on the decoder's minimum lengths.
FinalFieldDecodes ==
    Logs(LAMBDA e, attributes : OnlyFinalStripped(e) => attributes = Values(e))

\* All blocks up to an upgrade get replayed.
ReplayCompletes ==
    <>[](\/ disk.tip = Len(Blocks) - 1
         \/ Height > 0 /\ B.version # Block(Height - 1).version)

----------------------------------------------------------------------------
(* The inductive invariant: in mid-block too, the replay does what the node did. *)

\* The store holds the node's state after the last block, and its time.
StoreInv ==
    /\ disk.tip \in -1 .. Len(Blocks) - 1
    /\ disk.tip = -1 => disk.time = 0
    /\ disk.tip >= 0 => disk.state = Node[disk.tip] /\ disk.time = Block(disk.tip).time

\* Between blocks nothing is left of the one before but its time.
IdleInv ==
    /\ pc \in {"down", "fetch"} => at = 0 /\ fullness = 0 /\ genesis = <<>>
    /\ pc = "fetch" => /\ parent = disk.time
                       /\ disk.tip >= 0 => ledger = disk.state

\* In a block the state is the node's after as many transactions, unless the
\* block is in the genesis state already, which then waits for its end.
ApplyInv ==
    pc = "apply" =>
       /\ Height \in Heights
       /\ at \in 0 .. Len(B.txs)
       /\ parent = TimeBefore(Height)
       /\ first <=> \A i \in 1 .. at : ~IsRegular(B.txs[i])
       /\ fullness = Counted(B.txs)[at]
       /\ Height > 0 => /\ genesis = <<>>
                        /\ B.version = Block(Height - 1).version
                        /\ ledger = Replayed(Node[Height - 1], Height)[at]
       /\ Height = 0 => \/ genesis = <<>> /\ ledger = Replayed(Before0, 0)[at]
                        \/ genesis = <<Node[0]>>

\* What a ledger state has.
Fields == {"version", "base", "utxos", "free", "contracts", "mark"}
IsState(s) == s = [f \in Fields |-> s[f]]

\* In mid-block too, what was derived so far accounts for the state in hand.
Indexed(rows, s) ==
    /\ Unspent(rows) = s.utxos
    /\ RangesMeet(rows)
    /\ s.free = IF rows = <<>> THEN 0 ELSE Last(rows).end
    /\ s.free \in Nat

\* Block 0 is replayed from an empty state if it is in the genesis state, which
\* comes to the same outputs.
IndexInv ==
    /\ disk.rows \in Seq(Range(disk.rows)) /\ derived \in Seq(Range(derived))
    /\ \A r \in Range(disk.rows) : r.block \in 0 .. disk.tip
    /\ disk.tip = -1 => disk.rows = <<>>
    /\ disk.tip >= 0 => /\ Indexed(disk.rows, disk.state)
                        /\ \A r \in Range(disk.rows) :
                              r.block = disk.tip => ActionsOf(r, disk.state.contracts)
    /\ pc \in {"down", "fetch"} => derived = <<>>
    /\ pc = "apply" =>
          /\ IsState(ledger) /\ Indexed(disk.rows \o derived, ledger)
          /\ \A r \in Range(derived) : r.block = Height /\ ActionsOf(r, Node[Height].contracts)
          /\ Height = 0 => LET s == Replayed(Before0, 0)[at]
                           IN  ledger.utxos = s.utxos /\ ledger.free = s.free

\* The logs of a row are the decoder's of those the transaction emits.
Decoded(r) ==
    LET emitted == Logged(r.block, r.index)
        decoded == LogsOf(r.events)
    IN  /\ r.index \in DOMAIN Block(r.block).txs
        /\ Len(decoded) = Len(emitted)
        /\ \A j \in DOMAIN emitted :
              decoded[j].attributes = make_contract_event_attributes(emitted[j].item)

LogInv ==
    /\ \A h \in 0 .. disk.tip : \A i \in DOMAIN Block(h).txs :
          \E r \in Range(disk.rows) : r.block = h /\ r.index = i
    /\ \A r \in Range(disk.rows) : Decoded(r)
    /\ pc = "apply" =>
          /\ ledger.version = B.version
          /\ Len(derived) = at /\ \A i \in 1 .. at : derived[i].index = i
          /\ \A r \in Range(derived) : Decoded(r)

ReplayInv ==
    /\ chain \in Chains /\ Legal(chain)
    /\ pc \in {"down", "fetch", "apply", "failed"} /\ first \in BOOLEAN
    /\ StoreInv /\ IdleInv /\ ApplyInv /\ StopsAtUpgradesOnly
=============================================================================
