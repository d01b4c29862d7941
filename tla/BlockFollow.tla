----------------------------- MODULE BlockFollow -----------------------------
(***************************************************************************)
(* Following the node: how finalized blocks reach the indexing loop in     *)
(* order.  SubxtNode::finalized_blocks catches up by height far from the   *)
(* tip and by hash near it, then turns to the subscription; node_blocks    *)
(* accepts a block only on top of the last one it accepted and otherwise   *)
(* starts over; accepted blocks wait in a bounded buffer and are indexed   *)
(* one at a time.                                                          *)
(*                                                                         *)
(* A block is its height and whether it is canonical: all the finalized    *)
(* ones are.  A node that lags behind the finalized tip may serve another  *)
(* block when asked by height, never when asked by hash.  The subscription *)
(* may repeat, skip and reorder blocks, and may silently go dead.          *)
(***************************************************************************)
EXTENDS Integers, Sequences, FiniteSets, FiniteSetsExt

CONSTANTS MaxHeight,   \* bound: blocks the chain has
          Margin,      \* FINALIZATION_SAFETY_MARGIN
          Chunk,       \* CATCH_UP_CHUNK
          BufferSize,  \* BLOCKS_BUFFER
          ForkBase,    \* the height the stale fork branches off at
          MaxCrashes,  \* bound: process deaths other than the watchdog's
          MaxDeaths    \* bound: subscriptions that silently go dead

ASSUME MaxHeightAssumption == MaxHeight \in Nat \ {0}
ASSUME MarginAssumption == Margin \in Nat
ASSUME ChunkAssumption == Chunk \in Nat \ {0}
ASSUME BufferAssumption == BufferSize \in Nat \ {0}
ASSUME BoundsAssumption == MaxCrashes \in Nat /\ MaxDeaths \in Nat

Heights == 0 .. MaxHeight - 1
None == -1

Block == [height : Heights, fork : BOOLEAN]
Canonical(h) == [height |-> h, fork |-> FALSE]
Fork(h) == [height |-> h, fork |-> TRUE]
\* The hash of a block stands for the block; genesis' parent is Canonical(-1),
\* the all-zero hash that node_blocks expects before any block.
Parent(b) == IF b.fork /\ b.height - 1 > ForkBase THEN Fork(b.height - 1)
                                                  ELSE Canonical(b.height - 1)

VARIABLES
    (* the node *)
    finalized,  \* finalized blocks: heights 0 .. finalized - 1
    sessions,   \* rigid: heights whose block carries a NewSession event
    alive,      \* whether the current subscription still delivers
    (* disk *)
    indexed,    \* the indexed blocks, with the authority set of each author
    (* node_blocks and finalized_blocks *)
    stage,      \* where finalized_blocks is
    highest,    \* node_blocks' last accepted block
    buffer,     \* accepted, not yet indexed
    subLast,    \* the subscription filter's last height
    first,      \* height of the subscription's first block
    height,     \* next height to fetch
    chunkEnd,   \* end of the chunk being consumed, None between chunks
    chunkAuth,  \* the authority cache the chunk's fetches started from
    auth,       \* the authority cache: an authority set, or None
    (* history *)
    crashes, deaths

node == <<finalized, sessions>>
catchUp == <<first, height, chunkEnd, chunkAuth>>
follow == <<stage, highest, subLast, catchUp, auth>>
vars == <<node, alive, indexed, follow, buffer, crashes, deaths>>

----------------------------------------------------------------------------
(* Authority sets *)

\* The set in the state after block h: how many sessions have begun by then.
SetAfter(h) == Cardinality({s \in sessions : s <= h})

\* make_block derives the author from the cached set, or from the one in the
\* block's own state when nothing is cached.
AuthorSet(h, cache) == IF cache = None THEN SetAfter(h) ELSE cache

\* A NewSession event empties the cache.
CacheAfter(h, cache) == IF h \in sessions THEN None ELSE AuthorSet(h, cache)

----------------------------------------------------------------------------
Entry == [block : Block, author : 0 .. MaxHeight]

TypeOK ==
    /\ finalized \in 1 .. MaxHeight
    /\ sessions \subseteq Heights
    /\ alive \in BOOLEAN
    /\ indexed \in Seq(Entry)
    /\ stage \in {"idle", "first", "forward", "backward", "live"}
    /\ highest \in Block \cup {Canonical(None)}
    /\ buffer \in Seq(Entry) /\ Len(buffer) <= BufferSize
    /\ subLast \in Heights \cup {None}
    /\ first \in Heights \cup {None}
    /\ height \in 0 .. MaxHeight
    /\ chunkEnd \in 0 .. MaxHeight \cup {None}
    /\ chunkAuth \in 0 .. MaxHeight \cup {None}
    /\ auth \in 0 .. MaxHeight \cup {None}
    /\ crashes \in 0 .. MaxCrashes
    /\ deaths \in 0 .. MaxDeaths

\* Where a run starts: after the last indexed block, nothing else in memory.
LastIndexed == IF indexed = <<>> THEN Canonical(None)
                                 ELSE indexed[Len(indexed)].block

Init ==
    /\ finalized \in 1 .. MaxHeight
    /\ sessions \in SUBSET Heights
    /\ alive = FALSE
    /\ indexed = <<>>
    /\ stage = "idle"
    /\ highest = Canonical(None)
    /\ buffer = <<>>
    /\ subLast = None /\ first = None /\ height = 0
    /\ chunkEnd = None /\ chunkAuth = None /\ auth = None
    /\ crashes = 0 /\ deaths = 0

----------------------------------------------------------------------------
(* The node *)

Finalize ==
    /\ finalized < MaxHeight
    /\ finalized' = finalized + 1
    /\ UNCHANGED <<sessions, alive, indexed, follow, buffer, crashes, deaths>>

SubscriptionDies ==
    /\ alive
    /\ deaths < MaxDeaths
    /\ alive' = FALSE
    /\ deaths' = deaths + 1
    /\ UNCHANGED <<node, indexed, follow, buffer, crashes>>

\* What the node may answer for a height: always the canonical block where
\* every node has finalized it, possibly a stale one closer to the tip.
AtHeight(h) == {Canonical(h)} \cup
    {b \in {Fork(h)} : h > ForkBase /\ h > finalized - 1 - Margin}

\* The finalized heights the subscription filter lets through.
Fresh == {h \in 0 .. finalized - 1 : h > subLast}

----------------------------------------------------------------------------
(* node_blocks *)

\* The process ends and systemd starts it again.
Restarted ==
    /\ alive' = FALSE
    /\ stage' = "idle"
    /\ highest' = LastIndexed
    /\ buffer' = <<>>
    /\ subLast' = None /\ first' = None /\ height' = 0
    /\ chunkEnd' = None /\ chunkAuth' = None /\ auth' = None
    /\ UNCHANGED <<node, indexed, deaths>>

\* A block is taken only on top of the last one taken.
Accepted(b) == Parent(b) = highest

\* Take a block the stream yields, made with an authority cache: accept it on
\* top of the last accepted one, or drop it and the stream with it.  A full
\* buffer holds the stream back.
Offer(b, cache) ==
    /\ Len(buffer) < BufferSize
    /\ IF Accepted(b)
       THEN /\ buffer' = Append(buffer, [block  |-> b,
                                         author |-> AuthorSet(b.height, cache)])
            /\ highest' = b
       ELSE UNCHANGED <<buffer, highest>>

\* The loop re-enters finalized_blocks with an empty authority cache, and
\* subscribes from the last accepted block.
OpenStream ==
    /\ stage = "idle"
    /\ stage' = "first"
    /\ alive' = TRUE
    /\ subLast' = highest.height
    /\ auth' = None
    /\ UNCHANGED <<node, indexed, highest, buffer, catchUp, crashes, deaths>>

----------------------------------------------------------------------------
(* finalized_blocks *)

\* The subscription's first block fixes what to catch up with.
ReceiveFirst ==
    /\ stage = "first" /\ alive
    /\ \E b \in Fresh :
          /\ first' = b
          /\ subLast' = b
          /\ stage' = IF b = highest.height THEN "live" ELSE "forward"
    /\ height' = highest.height + 1
    /\ chunkEnd' = None
    /\ UNCHANGED <<node, alive, indexed, highest, buffer, chunkAuth, auth,
                   crashes, deaths>>

\* Faulty: no safety margin, catch up by height all the way.
NoMarginSafeHeight == first

\* Where catching up by height ends.
SafeHeight == Max({first - Margin, highest.height + 1, 0})

\* Start fetching the next chunk: every fetch starts from the cache as it is.
StartChunk ==
    /\ stage = "forward" /\ chunkEnd = None
    /\ IF height < SafeHeight
       THEN /\ chunkEnd' = Min({height + Chunk, SafeHeight})
            /\ chunkAuth' = auth
            /\ UNCHANGED stage
       ELSE /\ stage' = "backward"
            /\ UNCHANGED <<chunkEnd, chunkAuth>>
    /\ UNCHANGED <<node, alive, indexed, highest, buffer, subLast, first,
                   height, auth, crashes, deaths>>

\* Faulty: the chunk goes on past a session change.
NextInChunkPastSession(cache) ==
    /\ auth' = IF auth = None THEN cache ELSE auth
    /\ chunkEnd' = IF height + 1 = chunkEnd THEN None ELSE chunkEnd

\* After a block that left the given cache: a session change empties the
\* stream's cache and drops the rest of the chunk.
NextInChunk(cache) ==
    LET changed == cache = None IN
    /\ auth' = IF changed THEN None ELSE IF auth = None THEN cache ELSE auth
    /\ chunkEnd' = IF changed \/ height + 1 = chunkEnd THEN None ELSE chunkEnd

\* Consume the next block of the chunk.  One that does not extend the last
\* block is a stream error, and ends the process.
YieldByHeight ==
    /\ stage = "forward" /\ chunkEnd # None
    /\ \E b \in AtHeight(height) :
          IF Accepted(b)
          THEN /\ Offer(b, chunkAuth)
               /\ NextInChunk(CacheAfter(height, chunkAuth))
               /\ height' = height + 1
               /\ UNCHANGED <<node, alive, indexed, stage, subLast, first,
                              chunkAuth, deaths>>
          ELSE Restarted
    /\ UNCHANGED crashes

\* The blocks up to the first one, collected by walking parent hashes back
\* from it, and then the first block itself.
YieldByHash ==
    /\ stage = "backward"
    /\ Offer(Canonical(height), auth)
    /\ stage' = IF ~Accepted(Canonical(height)) THEN "idle"
                ELSE IF height = first THEN "live" ELSE "backward"
    /\ auth' = CacheAfter(height, auth)
    /\ height' = height + 1
    /\ UNCHANGED <<node, alive, indexed, subLast, first, chunkEnd, chunkAuth,
                   crashes, deaths>>

\* A block of the running subscription.
YieldLive ==
    /\ stage = "live" /\ alive
    /\ \E h \in Fresh :
          /\ Offer(Canonical(h), auth)
          /\ stage' = IF Accepted(Canonical(h)) THEN "live" ELSE "idle"
          /\ subLast' = h
          /\ auth' = CacheAfter(h, auth)
    /\ UNCHANGED <<node, alive, indexed, catchUp, crashes, deaths>>

\* No block within the recovery timeout: subscribe anew from the last block
\* yielded, which is the filter's last height, and keep the authority cache.
Resubscribe ==
    /\ stage = "live" /\ ~alive
    /\ alive' = TRUE
    /\ UNCHANGED <<node, indexed, follow, buffer, crashes, deaths>>

----------------------------------------------------------------------------
(* The indexing loop and the process *)

IndexBlock ==
    /\ buffer # <<>>
    /\ indexed' = Append(indexed, Head(buffer))
    /\ buffer' = Tail(buffer)
    /\ UNCHANGED <<node, alive, follow, crashes, deaths>>

\* A stream error, a failed block or a signal ends the process.
Crash ==
    /\ crashes < MaxCrashes
    /\ crashes' = crashes + 1
    /\ Restarted

\* Faulty: nobody watches for progress.
NoWatchdog == FALSE /\ UNCHANGED vars

\* The first block is awaited without a timeout: when that subscription dies
\* only the stall watchdog, seeing no block indexed, ends the process.  (It
\* also ends runs that merely have nothing to index; those are Crash steps.)
Watchdog ==
    /\ stage = "first" /\ ~alive /\ buffer = <<>>
    /\ Restarted
    /\ UNCHANGED crashes

Follow == OpenStream \/ ReceiveFirst \/ StartChunk \/ YieldByHeight
             \/ YieldByHash \/ YieldLive
Next == Finalize \/ SubscriptionDies \/ Follow \/ Resubscribe \/ IndexBlock
          \/ Crash \/ Watchdog

\* The node goes on finalizing, the runtime polls both ends of the stream,
\* and both timers fire.
Fairness ==
    /\ WF_vars(Finalize) /\ WF_vars(Follow) /\ WF_vars(IndexBlock)
    /\ WF_vars(Resubscribe) /\ WF_vars(Watchdog)

Spec == Init /\ [][Next]_vars /\ Fairness

----------------------------------------------------------------------------
(* Properties *)

Blocks(s) == [i \in DOMAIN s |-> s[i].block]

\* The index is a growing, gap-free prefix of the canonical chain, and every
\* block is indexed in the end: duplicates, gaps, dead subscriptions, stale
\* answers and process deaths are all absorbed.
Promise == INSTANCE IndexedChain WITH log <- Blocks(indexed)
FollowsChain == Promise!Spec

\* What is accepted but not indexed continues the index exactly, so blocks
\* prefetched before an error or a resubscription are neither lost nor doubled.
BufferContinuesIndex ==
    LET accepted == indexed \o buffer IN
    /\ \A i \in DOMAIN accepted : accepted[i].block = Canonical(i - 1)
    /\ highest.height = Len(accepted) - 1

\* No indexed block's author was derived from an authority set replaced
\* before the block: cached sets never outlive a session change, not across
\* chunks, gaps, resubscriptions or restarts.
NoStaleAuthor ==
    \A i \in DOMAIN indexed :
        indexed[i].author >= SetAfter(indexed[i].block.height - 1)

----------------------------------------------------------------------------
(* The inductive invariant: what each stage of the stream knows. *)

\* Index and buffer are one run of canonical blocks up to the last accepted
\* one, which is finalized.
RunInv ==
    /\ \A i \in 1 .. Len(indexed) : indexed[i].block = Canonical(i - 1)
    /\ \A i \in 1 .. Len(buffer) :
          buffer[i].block = Canonical(Len(indexed) + i - 1)
    /\ highest = Canonical(Len(indexed) + Len(buffer) - 1)
    /\ highest.height < finalized

\* The stream yields the heights after the last accepted block, by height only
\* where every node has finalized.
StreamInv ==
    /\ stage = "first" => subLast = highest.height /\ auth = None
    /\ stage \in {"forward", "backward"} =>
          /\ height = highest.height + 1
          /\ height <= first /\ first < finalized
    /\ stage = "forward" /\ chunkEnd # None =>
          height < chunkEnd /\ chunkEnd <= first - Margin

\* A cached authority set is no older than the last accepted block.
CurrentSet(cache) == cache # None => cache >= SetAfter(highest.height)

AuthorInv ==
    /\ stage \in {"forward", "backward", "live"} => CurrentSet(auth)
    /\ stage = "forward" /\ chunkEnd # None => CurrentSet(chunkAuth)
    /\ \A i \in 1 .. Len(indexed) : indexed[i].author >= SetAfter(i - 2)
    /\ \A i \in 1 .. Len(buffer) :
          buffer[i].author >= SetAfter(Len(indexed) + i - 2)

IInv == TypeOK /\ RunInv /\ StreamInv /\ AuthorInv
=============================================================================
