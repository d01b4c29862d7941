-------------------------- MODULE BlockFollowProofs --------------------------
(***************************************************************************)
(* Proofs, for every chain, margin, chunk, buffer, placement of session    *)
(* changes and number of deaths, that following the node indexes exactly   *)
(* the canonical chain, step by step as IndexedChain has it, and derives   *)
(* no author from an authority set that was replaced before.               *)
(***************************************************************************)
EXTENDS BlockFollow, FiniteSetTheorems, TLAPS

----------------------------------------------------------------------------
(* Authority sets *)

\* Sets are counted by session changes: their number never goes down along the
\* chain, and stays the same across a block without one.
LEMMA SetAfterFacts ==
    ASSUME sessions \subseteq Heights, NEW h \in Int
    PROVE  /\ SetAfter(h) \in 0 .. MaxHeight
           /\ SetAfter(h - 1) \in 0 .. MaxHeight
           /\ SetAfter(h - 1) <= SetAfter(h)
           /\ h \notin sessions => SetAfter(h) = SetAfter(h - 1)
<1> DEFINE Begun(g) == {s \in sessions : s <= g}
<1>1. IsFiniteSet(Heights) /\ Cardinality(Heights) = MaxHeight
  <2>1. Cardinality(0 .. MaxHeight - 1)
          = IF 0 > MaxHeight - 1 THEN 0 ELSE MaxHeight - 1 - 0 + 1
    BY FS_Interval, MaxHeightAssumption
  <2> QED
    BY <2>1, FS_Interval, MaxHeightAssumption DEF Heights
<1>2. \A g : /\ IsFiniteSet(Begun(g))
             /\ Cardinality(Begun(g)) \in Nat
             /\ Cardinality(Begun(g)) <= MaxHeight
  <2> TAKE g
  <2>1. Begun(g) \subseteq Heights
    OBVIOUS
  <2> QED
    BY <1>1, <2>1, FS_Subset, FS_CardinalityType
<1>3. \A s \in sessions : /\ s \in Int
                          /\ s <= h - 1 => s <= h
                          /\ s # h /\ s <= h => s <= h - 1
  BY DEF Heights
<1>4. Begun(h - 1) \subseteq Begun(h)
  BY <1>3
<1>5. Cardinality(Begun(h - 1)) <= Cardinality(Begun(h))
  BY <1>2, <1>4, FS_Subset
<1>6. h \notin sessions => Begun(h) = Begun(h - 1)
  BY <1>3
<1> QED
  BY <1>2, <1>5, <1>6, MaxHeightAssumption DEF SetAfter

----------------------------------------------------------------------------
(* The parts of steps *)

\* What a block taken from the stream does to the run of accepted blocks: it
\* extends the run if it is the next one, or leaves it as it is.
LEMMA OfferRun ==
    ASSUME IInv,
           NEW h \in 0 .. finalized - 1,
           NEW cache \in 0 .. MaxHeight \cup {None},
           Accepted(Canonical(h)) => CurrentSet(cache),
           Offer(Canonical(h), cache),
           UNCHANGED <<node, indexed>>
    PROVE  /\ Accepted(Canonical(h)) <=> h = highest.height + 1
           /\ highest' = IF h = highest.height + 1 THEN Canonical(h) ELSE highest
           /\ highest' \in Block \cup {Canonical(None)}
           /\ buffer' \in Seq(Entry) /\ Len(buffer') <= BufferSize
           /\ RunInv'
           /\ \A i \in 1 .. Len(indexed') : indexed'[i].author >= SetAfter(i - 2)'
           /\ \A i \in 1 .. Len(buffer') :
                 buffer'[i].author >= SetAfter(Len(indexed) + i - 2)'
<1> USE DEF IInv
<1> DEFINE n == Len(indexed) + Len(buffer)
           e == [block |-> Canonical(h), author |-> AuthorSet(h, cache)]
<1>1. /\ finalized \in 1 .. MaxHeight /\ sessions \subseteq Heights
      /\ indexed \in Seq(Entry) /\ buffer \in Seq(Entry)
      /\ Len(indexed) \in Nat /\ Len(buffer) \in Nat /\ n \in Nat
      /\ finalized' = finalized /\ sessions' = sessions /\ indexed' = indexed
  BY DEF TypeOK, node
<1>2. /\ highest = Canonical(n - 1) /\ highest.height = n - 1
      /\ \A i \in 1 .. Len(indexed) : indexed[i].block = Canonical(i - 1)
      /\ \A i \in 1 .. Len(buffer) : buffer[i].block = Canonical(Len(indexed) + i - 1)
  BY DEF RunInv, Canonical
<1>3. \A i : SetAfter(i)' = SetAfter(i)
  BY <1>1 DEF SetAfter
<1>4. Accepted(Canonical(h)) <=> h = highest.height + 1
  <2>1. Parent(Canonical(h)) = Canonical(h - 1)
    BY DEF Parent, Canonical
  <2>2. Canonical(h - 1) = Canonical(n - 1) <=> h - 1 = n - 1
    BY DEF Canonical
  <2> QED
    BY <1>1, <1>2, <2>1, <2>2 DEF Accepted
<1>5. /\ Canonical(h) \in Block /\ Canonical(h).height = h
      /\ h \in Heights
  BY <1>1, MaxHeightAssumption DEF Canonical, Block, Heights
<1>6. CASE h # highest.height + 1
  <2>1. buffer' = buffer /\ highest' = highest
    BY <1>4, <1>6 DEF Offer
  <2>2. RunInv'
    BY <1>1, <2>1 DEF RunInv
  <2>3. /\ highest \in Block \cup {Canonical(None)} /\ Len(buffer) <= BufferSize
        /\ \A i \in 1 .. Len(indexed) : indexed[i].author >= SetAfter(i - 2)
        /\ \A i \in 1 .. Len(buffer) : buffer[i].author >= SetAfter(Len(indexed) + i - 2)
    BY DEF TypeOK, AuthorInv
  <2> QED
    BY <1>1, <1>3, <1>4, <1>6, <2>1, <2>2, <2>3
<1>7. CASE h = highest.height + 1
  <2>1. /\ buffer' = Append(buffer, e) /\ highest' = Canonical(h)
        /\ Len(buffer) < BufferSize /\ CurrentSet(cache) /\ h = n
    BY <1>1, <1>2, <1>4, <1>5, <1>7 DEF Offer
  <2>2. SetAfter(h) \in 0 .. MaxHeight /\ SetAfter(h - 1) <= SetAfter(h)
        /\ SetAfter(h - 1) \in 0 .. MaxHeight
    BY <1>1, SetAfterFacts
  <2>3. /\ AuthorSet(h, cache) \in 0 .. MaxHeight
        /\ AuthorSet(h, cache) >= SetAfter(h - 1)
    BY <1>1, <1>2, <2>1, <2>2 DEF AuthorSet, CurrentSet, None
  <2>4. e \in Entry /\ e.block = Canonical(h) /\ e.author = AuthorSet(h, cache)
    BY <1>5, <2>3 DEF Entry
  <2> HIDE DEF e
  <2>5. /\ buffer' \in Seq(Entry) /\ Len(buffer') = Len(buffer) + 1
        /\ \A i \in 1 .. Len(buffer) : buffer'[i] = buffer[i]
        /\ buffer'[Len(buffer) + 1] = e
    BY <1>1, <2>1, <2>4
  <2>6. Len(buffer') <= BufferSize
    BY <1>1, <2>1, <2>5, BufferAssumption
  <2>7. ASSUME NEW i \in 1 .. Len(buffer')
        PROVE  /\ buffer'[i].block = Canonical(Len(indexed) + i - 1)
               /\ buffer'[i].author >= SetAfter(Len(indexed) + i - 2)
    <3>1. CASE i \in 1 .. Len(buffer)
      BY <1>2, <2>5, <3>1 DEF AuthorInv
    <3>2. CASE i = Len(buffer) + 1
      <4>1. Len(indexed) + i - 1 = h /\ Len(indexed) + i - 2 = h - 1
        BY <1>1, <2>1, <3>2
      <4> QED
        BY <2>3, <2>4, <2>5, <3>2, <4>1
    <3> QED
      BY <1>1, <2>5, <3>1, <3>2
  <2>8. RunInv'
    <3>1. Len(indexed) + Len(buffer') - 1 = h
      BY <1>1, <2>1, <2>5
    <3> QED
      BY <1>1, <1>2, <1>5, <2>1, <2>7, <3>1 DEF RunInv
  <2>9. \A i \in 1 .. Len(indexed) : indexed[i].author >= SetAfter(i - 2)
    BY DEF AuthorInv
  <2> QED
    BY <1>1, <1>3, <1>4, <1>5, <1>7, <2>1, <2>5, <2>6, <2>7, <2>8, <2>9
<1> QED
  BY <1>6, <1>7

\* The cache a block leaves is no older than the block.
LEMMA CacheAfterCurrent ==
    ASSUME IInv, NEW cache \in 0 .. MaxHeight \cup {None}, CurrentSet(cache)
    PROVE  LET h == highest.height + 1 IN
           /\ CacheAfter(h, cache) \in 0 .. MaxHeight \cup {None}
           /\ h \in sessions => CacheAfter(h, cache) = None
           /\ h \notin sessions => /\ CacheAfter(h, cache) # None
                                   /\ CacheAfter(h, cache) >= SetAfter(h)
                                   /\ SetAfter(h) = SetAfter(highest.height)
<1> DEFINE h == highest.height + 1
<1>1. highest.height \in Int /\ sessions \subseteq Heights
  BY DEF IInv, TypeOK, Block, Canonical, None, Heights
<1>2. /\ SetAfter(h) \in 0 .. MaxHeight /\ SetAfter(highest.height) \in 0 .. MaxHeight
      /\ h \notin sessions => SetAfter(h) = SetAfter(highest.height)
  <2>1. h \in Int /\ h - 1 = highest.height
    BY <1>1
  <2> QED
    BY <1>1, <2>1, SetAfterFacts
<1> HIDE DEF h
<1>3. h \notin sessions => /\ AuthorSet(h, cache) \in 0 .. MaxHeight
                           /\ AuthorSet(h, cache) >= SetAfter(h)
  BY <1>2 DEF AuthorSet, CurrentSet
<1>4. AuthorSet(h, cache) \in 0 .. MaxHeight
  BY <1>2 DEF AuthorSet
<1>5. \A x \in 0 .. MaxHeight : x # None
  BY DEF None
<1> QED
  BY <1>2, <1>3, <1>4, <1>5 DEF CacheAfter, h

\* A new process goes on after the last indexed block.
LEMMA RestartedInv ==
    ASSUME IInv, Restarted, crashes' \in 0 .. MaxCrashes
    PROVE  IInv'
<1> USE DEF IInv
<1>1. /\ finalized' = finalized /\ sessions' = sessions /\ indexed' = indexed
      /\ deaths' = deaths /\ stage' = "idle" /\ buffer' = <<>>
      /\ highest' = LastIndexed /\ alive' = FALSE
      /\ subLast' = None /\ first' = None /\ height' = 0
      /\ chunkEnd' = None /\ chunkAuth' = None /\ auth' = None
  BY DEF Restarted, node
<1>2. /\ indexed \in Seq(Entry) /\ Len(indexed) \in Nat /\ Len(buffer) \in Nat
      /\ finalized \in 1 .. MaxHeight
      /\ Len(indexed) + Len(buffer) - 1 < finalized
      /\ \A i \in 1 .. Len(indexed) : indexed[i].block = Canonical(i - 1)
  BY DEF TypeOK, RunInv, Canonical
<1>3. LastIndexed = Canonical(Len(indexed) - 1)
  <2>1. CASE indexed = <<>>
    BY <2>1 DEF LastIndexed, None
  <2>2. CASE indexed # <<>>
    <3>1. Len(indexed) \in 1 .. Len(indexed)
      BY <1>2, <2>2
    <3> QED
      BY <1>2, <2>2, <3>1 DEF LastIndexed
  <2> QED
    BY <2>1, <2>2
<1>4. highest' = Canonical(Len(indexed) - 1) /\ highest'.height = Len(indexed) - 1
  BY <1>1, <1>3 DEF Canonical
<1>5. highest' \in Block \cup {Canonical(None)}
  <2>1. Len(indexed) - 1 \in Heights \cup {None}
    BY <1>2, MaxHeightAssumption DEF Heights, None
  <2> QED
    BY <1>4, <2>1 DEF Canonical, Block
<1>6. TypeOK'
  <2>1. <<>> \in Seq(Entry) /\ Len(<<>>) = 0
    OBVIOUS
  <2>2. buffer' \in Seq(Entry) /\ Len(buffer') <= BufferSize
    BY <1>1, <2>1, BufferAssumption
  <2>3. alive' \in BOOLEAN
    BY <1>1
  <2>4. /\ finalized \in 1 .. MaxHeight /\ sessions \subseteq Heights
        /\ indexed \in Seq(Entry) /\ deaths \in 0 .. MaxDeaths
    BY DEF TypeOK
  <2>5. height' \in 0 .. MaxHeight
    BY <1>1, MaxHeightAssumption
  <2> QED
    BY <1>1, <1>5, <2>2, <2>3, <2>4, <2>5 DEF TypeOK
<1>7. RunInv'
  BY <1>1, <1>2, <1>4 DEF RunInv
<1>8. StreamInv'
  BY <1>1 DEF StreamInv
<1>9. AuthorInv'
  BY <1>1, <1>2 DEF AuthorInv, SetAfter
<1> QED
  BY <1>6, <1>7, <1>8, <1>9

----------------------------------------------------------------------------
(* Every step preserves the invariant *)

\* The initial state satisfies it.
LEMMA InitInv == Init => IInv
<1> SUFFICES ASSUME Init PROVE IInv
  OBVIOUS
<1> USE DEF Init
<1>1. <<>> \in Seq(Entry) /\ Len(<<>>) = 0
  OBVIOUS
<1>2. TypeOK
  <2>1. alive \in BOOLEAN
    OBVIOUS
  <2>2. /\ buffer \in Seq(Entry) /\ Len(buffer) <= BufferSize
        /\ height \in 0 .. MaxHeight
        /\ crashes \in 0 .. MaxCrashes /\ deaths \in 0 .. MaxDeaths
    BY <1>1, BufferAssumption, MaxHeightAssumption, BoundsAssumption
  <2> QED
    BY <1>1, <2>1, <2>2 DEF TypeOK
<1>3. RunInv
  BY <1>1, MaxHeightAssumption DEF RunInv, Canonical, None
<1>4. StreamInv /\ AuthorInv
  BY <1>1 DEF StreamInv, AuthorInv
<1> QED
  BY <1>2, <1>3, <1>4 DEF IInv

\* What a step that accepts and indexes nothing has to keep.
LEMMA RunKept ==
    ASSUME IInv, UNCHANGED <<sessions, indexed, buffer, highest>>,
           finalized' \in Int, finalized' >= finalized
    PROVE  /\ RunInv'
           /\ \A i \in 1 .. Len(indexed) : indexed'[i].author >= SetAfter(i - 2)'
           /\ \A i \in 1 .. Len(buffer) :
                 buffer'[i].author >= SetAfter(Len(indexed) + i - 2)'
           /\ \A cache : CurrentSet(cache) <=> CurrentSet(cache)'
<1>1. finalized \in Int /\ highest.height \in Int
  BY DEF IInv, TypeOK, Block, Canonical, Heights, None
<1>2. RunInv'
  BY <1>1 DEF IInv, RunInv
<1>3. \A i : SetAfter(i)' = SetAfter(i)
  BY DEF SetAfter
<1> QED
  BY <1>2, <1>3 DEF IInv, AuthorInv, CurrentSet

\* One more block is finalized.
LEMMA FinalizeInv == IInv /\ Finalize => IInv'
<1> SUFFICES ASSUME IInv, Finalize PROVE IInv'
  OBVIOUS
<1>1. /\ finalized' = finalized + 1 /\ finalized < MaxHeight
      /\ UNCHANGED <<sessions, alive, indexed, stage, highest, subLast, first,
                     height, chunkEnd, chunkAuth, auth, buffer, crashes, deaths>>
  BY DEF Finalize, follow, catchUp
<1>2. finalized' \in 1 .. MaxHeight /\ finalized \in Int /\ finalized' >= finalized
  BY <1>1, MaxHeightAssumption DEF IInv, TypeOK
<1>3. TypeOK'
  BY <1>1, <1>2 DEF IInv, TypeOK
<1>4. StreamInv'
  BY <1>1, <1>2 DEF IInv, StreamInv, TypeOK, Heights, None
<1> QED
  BY <1>1, <1>2, <1>3, <1>4, RunKept DEF IInv, AuthorInv

\* The subscription goes dead, or the stream subscribes anew.
LEMMA SubscriptionInv == IInv /\ (SubscriptionDies \/ Resubscribe) => IInv'
<1> SUFFICES ASSUME IInv, SubscriptionDies \/ Resubscribe PROVE IInv'
  OBVIOUS
<1>1. /\ alive' \in BOOLEAN
      /\ UNCHANGED <<finalized, sessions, indexed, stage, highest, subLast, first,
                     height, chunkEnd, chunkAuth, auth, buffer, crashes>>
  BY DEF SubscriptionDies, Resubscribe, follow, catchUp, node
<1>2. deaths' \in 0 .. MaxDeaths
  BY BoundsAssumption DEF SubscriptionDies, Resubscribe, IInv, TypeOK
<1>3. TypeOK'
  BY <1>1, <1>2 DEF IInv, TypeOK
<1>4. StreamInv'
  BY <1>1 DEF IInv, StreamInv
<1>5. finalized' \in Int /\ finalized' >= finalized
  BY <1>1 DEF IInv, TypeOK
<1> QED
  BY <1>1, <1>3, <1>4, <1>5, RunKept DEF IInv, AuthorInv

\* A stream begins without a cached authority set.
LEMMA OpenStreamInv == IInv /\ OpenStream => IInv'
<1> SUFFICES ASSUME IInv, OpenStream PROVE IInv'
  OBVIOUS
<1>1. /\ stage = "idle" /\ stage' = "first" /\ alive' = TRUE
      /\ subLast' = highest.height /\ auth' = None
      /\ UNCHANGED <<finalized, sessions, indexed, highest, first,
                     height, chunkEnd, chunkAuth, buffer, crashes, deaths>>
  BY DEF OpenStream, catchUp, node
<1>2. highest.height \in Heights \cup {None}
  BY DEF IInv, TypeOK, Block, Canonical
<1>3. alive' \in BOOLEAN
  BY <1>1
<1>4. TypeOK'
  BY <1>1, <1>2, <1>3 DEF IInv, TypeOK
<1>5. StreamInv'
  BY <1>1 DEF IInv, StreamInv
<1>6. finalized' \in Int /\ finalized' >= finalized
  BY <1>1 DEF IInv, TypeOK
<1> QED
  BY <1>1, <1>4, <1>5, <1>6, RunKept DEF IInv, AuthorInv

\* The subscription's first block is finalized and above the last accepted one.
LEMMA ReceiveFirstInv == IInv /\ ReceiveFirst => IInv'
<1> SUFFICES ASSUME IInv, ReceiveFirst PROVE IInv'
  OBVIOUS
<1>1. /\ stage = "first"
      /\ height' = highest.height + 1 /\ chunkEnd' = None
      /\ UNCHANGED <<finalized, sessions, alive, indexed, highest, buffer,
                     chunkAuth, auth, crashes, deaths>>
  BY DEF ReceiveFirst, node
<1>2. PICK b \in Fresh : first' = b /\ subLast' = b
                           /\ stage' = IF b = highest.height THEN "live" ELSE "forward"
  BY DEF ReceiveFirst
<1>3. /\ finalized \in 1 .. MaxHeight
      /\ highest.height \in Heights \cup {None} /\ highest.height < finalized
      /\ subLast = highest.height /\ auth = None
  BY <1>1 DEF IInv, TypeOK, Block, Canonical, RunInv, StreamInv
<1>4. b \in 0 .. finalized - 1 /\ b > highest.height
  BY <1>2, <1>3 DEF Fresh
<1>5. /\ b \in Heights /\ height' \in 0 .. MaxHeight
      /\ height' <= first' /\ first' < finalized
      /\ stage' = "forward"
  BY <1>1, <1>2, <1>3, <1>4, MaxHeightAssumption DEF Heights, None
<1>6. TypeOK'
  BY <1>1, <1>2, <1>5 DEF IInv, TypeOK
<1>7. StreamInv'
  BY <1>1, <1>5 DEF StreamInv
<1>8. finalized' \in Int /\ finalized' >= finalized
  BY <1>1 DEF IInv, TypeOK
<1>9. CurrentSet(auth)
  BY <1>3 DEF CurrentSet
<1> QED
  BY <1>1, <1>5, <1>6, <1>7, <1>8, <1>9, RunKept DEF IInv, AuthorInv

\* Catching up by height never leaves the margin.
LEMMA SafeHeightIs ==
    ASSUME first \in Int, highest.height \in Int
    PROVE  /\ SafeHeight \in {first - Margin, highest.height + 1, 0}
           /\ SafeHeight >= highest.height + 1
<1> DEFINE S == {first - Margin, highest.height + 1, 0}
<1>1. \E x \in S : \A y \in S : x >= y
  BY MarginAssumption
<1> QED
  BY <1>1 DEF SafeHeight, Max

\* A chunk lies below the margin, or there is nothing left to fetch by height.
LEMMA StartChunkInv == IInv /\ StartChunk => IInv'
<1> SUFFICES ASSUME IInv, StartChunk PROVE IInv'
  OBVIOUS
<1>1. /\ stage = "forward" /\ chunkEnd = None
      /\ UNCHANGED <<finalized, sessions, alive, indexed, highest, buffer, subLast,
                     first, height, auth, crashes, deaths>>
  BY DEF StartChunk, node
<1>2. /\ first \in Heights \cup {None} /\ height \in 0 .. MaxHeight
      /\ highest.height \in Int /\ finalized \in 1 .. MaxHeight
      /\ height = highest.height + 1 /\ height <= first /\ first < finalized
      /\ CurrentSet(auth)
  BY <1>1 DEF IInv, TypeOK, Block, Canonical, Heights, None, StreamInv, AuthorInv
<1>3. finalized' \in Int /\ finalized' >= finalized
  BY <1>1, <1>2
<1>4. CASE height < SafeHeight
  <2>1. /\ chunkEnd' = Min({height + Chunk, SafeHeight})
        /\ chunkAuth' = auth /\ stage' = stage
    BY <1>4 DEF StartChunk
  <2>2. first \in Int
    BY <1>2 DEF Heights, None
  <2>3. SafeHeight = first - Margin
    BY <1>2, <1>4, <2>2, SafeHeightIs, MarginAssumption
  <2>4. Min({height + Chunk, SafeHeight}) \in {height + Chunk, SafeHeight}
        /\ Min({height + Chunk, SafeHeight}) <= SafeHeight
    <3> DEFINE S == {height + Chunk, SafeHeight}
    <3>1. \E x \in S : \A y \in S : x <= y
      BY <1>2, <2>2, <2>3, MarginAssumption, ChunkAssumption
    <3> QED
      BY <3>1 DEF Min
  <2>5. height < chunkEnd' /\ chunkEnd' <= first - Margin /\ chunkEnd' \in 0 .. MaxHeight
    BY <1>2, <1>4, <2>1, <2>2, <2>3, <2>4, MarginAssumption, ChunkAssumption,
       MaxHeightAssumption
  <2>6. TypeOK'
    BY <1>1, <2>1, <2>5 DEF IInv, TypeOK
  <2>7. StreamInv'
    BY <1>1, <1>2, <2>1, <2>5 DEF StreamInv
  <2> QED
    BY <1>1, <1>2, <1>3, <2>1, <2>6, <2>7, RunKept DEF IInv, AuthorInv
<1>5. CASE ~(height < SafeHeight)
  <2>1. UNCHANGED <<chunkEnd, chunkAuth>> /\ stage' = "backward"
    BY <1>5 DEF StartChunk
  <2>2. TypeOK'
    BY <1>1, <2>1 DEF IInv, TypeOK
  <2>3. StreamInv'
    BY <1>1, <1>2, <2>1 DEF StreamInv
  <2> QED
    BY <1>1, <1>2, <1>3, <2>1, <2>2, <2>3, RunKept DEF IInv, AuthorInv
<1> QED
  BY <1>4, <1>5

\* A block fetched by height is canonical and the next one; its chunk goes on
\* only while the set it started from, and the cache, are current.
LEMMA YieldByHeightInv == IInv /\ YieldByHeight => IInv'
<1> SUFFICES ASSUME IInv, YieldByHeight PROVE IInv'
  OBVIOUS
<1>1. stage = "forward" /\ chunkEnd # None /\ crashes' = crashes
  BY DEF YieldByHeight
<1>2. /\ first \in Heights \cup {None} /\ height \in 0 .. MaxHeight
      /\ chunkEnd \in 0 .. MaxHeight
      /\ highest.height \in Heights \cup {None} /\ finalized \in 1 .. MaxHeight
      /\ auth \in 0 .. MaxHeight \cup {None}
      /\ chunkAuth \in 0 .. MaxHeight \cup {None}
      /\ height = highest.height + 1 /\ height <= first /\ first < finalized
      /\ height < chunkEnd /\ chunkEnd <= first - Margin
      /\ CurrentSet(auth) /\ CurrentSet(chunkAuth)
  BY <1>1 DEF IInv, TypeOK, Block, Canonical, StreamInv, AuthorInv
<1>3. PICK b \in AtHeight(height) :
         IF Accepted(b)
         THEN /\ Offer(b, chunkAuth)
              /\ NextInChunk(CacheAfter(height, chunkAuth))
              /\ height' = height + 1
              /\ UNCHANGED <<node, alive, indexed, stage, subLast, first,
                             chunkAuth, deaths>>
         ELSE Restarted
  BY DEF YieldByHeight
<1>4. b = Canonical(height) /\ height \in 0 .. finalized - 1
  <2>1. ~(height > finalized - 1 - Margin) /\ height < finalized
    BY <1>2, MarginAssumption DEF Heights, None
  <2> QED
    BY <1>2, <1>3, <2>1 DEF AtHeight
<1>5. CASE ~Accepted(b)
  BY <1>1, <1>3, <1>5, RestartedInv DEF IInv, TypeOK
<1>6. CASE Accepted(b)
  <2>1. /\ Offer(Canonical(height), chunkAuth)
        /\ NextInChunk(CacheAfter(height, chunkAuth)) /\ height' = height + 1
        /\ UNCHANGED <<node, finalized, sessions, alive, indexed, stage, subLast,
                       first, chunkAuth, deaths>>
    BY <1>3, <1>4, <1>6 DEF node
  <2>2. /\ highest' = Canonical(height)
        /\ highest' \in Block \cup {Canonical(None)}
        /\ buffer' \in Seq(Entry) /\ Len(buffer') <= BufferSize
        /\ RunInv'
        /\ \A i \in 1 .. Len(indexed') : indexed'[i].author >= SetAfter(i - 2)'
        /\ \A i \in 1 .. Len(buffer') :
              buffer'[i].author >= SetAfter(Len(indexed) + i - 2)'
    BY <1>2, <1>4, <2>1, OfferRun
  <2> DEFINE cache == CacheAfter(height, chunkAuth)
  <2>3. /\ cache \in 0 .. MaxHeight \cup {None}
        /\ height \in sessions => cache = None
        /\ height \notin sessions => /\ cache # None /\ cache >= SetAfter(height)
                                     /\ SetAfter(height) = SetAfter(highest.height)
    BY <1>2, CacheAfterCurrent
  <2> HIDE DEF cache
  <2>4. /\ auth' = IF cache = None THEN None ELSE IF auth = None THEN cache ELSE auth
        /\ chunkEnd' = IF cache = None \/ height + 1 = chunkEnd THEN None ELSE chunkEnd
    BY <2>1 DEF NextInChunk, cache
  <2>5. /\ height + 1 <= first /\ height + 1 \in 0 .. MaxHeight
        /\ highest'.height = height
    <3>1. height < first /\ first < finalized
      BY <1>2, MarginAssumption, MaxHeightAssumption DEF Heights, None
    <3>2. first \in Int
      BY <1>2 DEF Heights, None
    <3> QED
      BY <1>2, <2>2, <3>1, <3>2, MaxHeightAssumption DEF Canonical
  <2>6. SetAfter(highest.height)' = SetAfter(height)
    BY <2>1, <2>5 DEF SetAfter
  <2>7. CurrentSet(auth)'
    BY <1>2, <2>3, <2>4, <2>6 DEF CurrentSet
  <2>8. chunkEnd' # None => CurrentSet(chunkAuth)'
    BY <1>2, <2>1, <2>3, <2>4, <2>6 DEF CurrentSet
  <2>9. auth' \in 0 .. MaxHeight \cup {None} /\ chunkEnd' \in 0 .. MaxHeight \cup {None}
    BY <1>2, <2>3, <2>4
  <2>10. TypeOK'
    BY <1>1, <2>1, <2>2, <2>5, <2>9 DEF IInv, TypeOK
  <2>11. chunkEnd' # None => height' < chunkEnd' /\ chunkEnd' <= first' - Margin
    BY <1>2, <2>1, <2>4
  <2>12. StreamInv'
    BY <1>1, <1>2, <2>1, <2>5, <2>11 DEF StreamInv
  <2>13. AuthorInv'
    BY <1>1, <2>1, <2>2, <2>7, <2>8 DEF AuthorInv
  <2> QED
    BY <2>2, <2>10, <2>12, <2>13 DEF IInv
<1> QED
  BY <1>5, <1>6

\* The blocks walked back to are the next ones up to the first.
LEMMA YieldByHashInv == IInv /\ YieldByHash => IInv'
<1> SUFFICES ASSUME IInv, YieldByHash PROVE IInv'
  OBVIOUS
<1>1. /\ stage = "backward" /\ Offer(Canonical(height), auth)
      /\ stage' = IF ~Accepted(Canonical(height)) THEN "idle"
                  ELSE IF height = first THEN "live" ELSE "backward"
      /\ auth' = CacheAfter(height, auth) /\ height' = height + 1
      /\ UNCHANGED <<node, finalized, sessions, alive, indexed, subLast, first,
                     chunkEnd, chunkAuth, crashes, deaths>>
  BY DEF YieldByHash, node
<1>2. /\ first \in Heights \cup {None} /\ height \in 0 .. MaxHeight
      /\ highest.height \in Heights \cup {None} /\ finalized \in 1 .. MaxHeight
      /\ auth \in 0 .. MaxHeight \cup {None}
      /\ height = highest.height + 1 /\ height <= first /\ first < finalized
      /\ CurrentSet(auth)
  BY <1>1 DEF IInv, TypeOK, Block, Canonical, StreamInv, AuthorInv
<1>3. height \in 0 .. finalized - 1
  BY <1>2 DEF Heights, None
<1>4. /\ Accepted(Canonical(height))
      /\ highest' = Canonical(height)
      /\ highest' \in Block \cup {Canonical(None)}
      /\ buffer' \in Seq(Entry) /\ Len(buffer') <= BufferSize
      /\ RunInv'
      /\ \A i \in 1 .. Len(indexed') : indexed'[i].author >= SetAfter(i - 2)'
      /\ \A i \in 1 .. Len(buffer') :
            buffer'[i].author >= SetAfter(Len(indexed) + i - 2)'
  BY <1>1, <1>2, <1>3, OfferRun
<1>5. /\ auth' \in 0 .. MaxHeight \cup {None}
      /\ auth' # None => auth' >= SetAfter(height)
  BY <1>1, <1>2, CacheAfterCurrent
<1>6. highest'.height = height /\ SetAfter(highest.height)' = SetAfter(height)
  BY <1>1, <1>4 DEF Canonical, SetAfter
<1>7. /\ height + 1 \in 0 .. MaxHeight
      /\ height # first => height + 1 <= first
  <2>1. first \in Int
    BY <1>2 DEF Heights, None
  <2> QED
    BY <1>2, <2>1, MaxHeightAssumption
<1>8. stage' = IF height = first THEN "live" ELSE "backward"
  BY <1>1, <1>4
<1>9. TypeOK'
  BY <1>1, <1>4, <1>5, <1>7, <1>8 DEF IInv, TypeOK
<1>10. StreamInv'
  BY <1>1, <1>2, <1>6, <1>7, <1>8 DEF StreamInv
<1>11. AuthorInv'
  BY <1>1, <1>4, <1>5, <1>6, <1>8 DEF AuthorInv, CurrentSet
<1> QED
  BY <1>4, <1>9, <1>10, <1>11 DEF IInv

\* A block of the subscription is accepted if it is the next one; after any
\* other the stream ends and the cache with it.
LEMMA YieldLiveInv == IInv /\ YieldLive => IInv'
<1> SUFFICES ASSUME IInv, YieldLive PROVE IInv'
  OBVIOUS
<1>1. /\ stage = "live"
      /\ UNCHANGED <<node, finalized, sessions, alive, indexed, first, height,
                     chunkEnd, chunkAuth, crashes, deaths>>
  BY DEF YieldLive, node, catchUp
<1>2. PICK h \in Fresh :
         /\ Offer(Canonical(h), auth)
         /\ stage' = IF Accepted(Canonical(h)) THEN "live" ELSE "idle"
         /\ subLast' = h
         /\ auth' = CacheAfter(h, auth)
  BY DEF YieldLive
<1>3. /\ highest.height \in Heights \cup {None} /\ finalized \in 1 .. MaxHeight
      /\ auth \in 0 .. MaxHeight \cup {None} /\ sessions \subseteq Heights
      /\ CurrentSet(auth)
  BY <1>1 DEF IInv, TypeOK, Block, Canonical, AuthorInv
<1>4. h \in 0 .. finalized - 1 /\ h \in Heights
  BY <1>3, MaxHeightAssumption DEF Fresh, Heights
<1>5. /\ Accepted(Canonical(h)) <=> h = highest.height + 1
      /\ highest' = IF h = highest.height + 1 THEN Canonical(h) ELSE highest
      /\ highest' \in Block \cup {Canonical(None)}
      /\ buffer' \in Seq(Entry) /\ Len(buffer') <= BufferSize
      /\ RunInv'
      /\ \A i \in 1 .. Len(indexed') : indexed'[i].author >= SetAfter(i - 2)'
      /\ \A i \in 1 .. Len(buffer') :
            buffer'[i].author >= SetAfter(Len(indexed) + i - 2)'
  BY <1>1, <1>2, <1>3, <1>4, OfferRun
<1>6. auth' \in 0 .. MaxHeight \cup {None}
  <2>1. SetAfter(h) \in 0 .. MaxHeight
    BY <1>3, <1>4, SetAfterFacts DEF Heights
  <2> QED
    BY <1>2, <1>3, <2>1 DEF CacheAfter, AuthorSet
<1>7. stage' = "live" => CurrentSet(auth)'
  <2> SUFFICES ASSUME stage' = "live" PROVE CurrentSet(auth)'
    OBVIOUS
  <2>1. h = highest.height + 1 /\ highest' = Canonical(h)
    BY <1>2, <1>5
  <2>2. auth' # None => auth' >= SetAfter(h)
    BY <1>2, <1>3, <2>1, CacheAfterCurrent
  <2>3. SetAfter(highest.height)' = SetAfter(h)
    BY <1>1, <2>1 DEF Canonical, SetAfter
  <2> QED
    BY <2>2, <2>3 DEF CurrentSet
<1>8. stage' \in {"live", "idle"}
  BY <1>2
<1>9. TypeOK'
  BY <1>1, <1>2, <1>4, <1>5, <1>6, <1>8 DEF IInv, TypeOK
<1>10. StreamInv'
  BY <1>8 DEF StreamInv
<1>11. AuthorInv'
  BY <1>1, <1>5, <1>7, <1>8 DEF AuthorInv
<1> QED
  BY <1>5, <1>9, <1>10, <1>11 DEF IInv

\* What indexing the next block does to index and buffer.
LEMMA IndexBlockRun ==
    ASSUME IInv, IndexBlock
    PROVE  /\ indexed' \in Seq(Entry) /\ Len(indexed') = Len(indexed) + 1
           /\ buffer' \in Seq(Entry) /\ Len(buffer') = Len(buffer) - 1
           /\ \A i \in 1 .. Len(indexed) : indexed'[i] = indexed[i]
           /\ indexed'[Len(indexed) + 1] = buffer[1]
           /\ indexed' = Append(indexed, buffer[1])
           /\ \A i \in 1 .. Len(buffer') : buffer'[i] = buffer[i + 1]
           /\ Len(buffer) \in Nat \ {0} /\ Len(indexed) \in Nat
           /\ 1 \in 1 .. Len(buffer) /\ buffer[1] \in Entry
<1>1. /\ indexed \in Seq(Entry) /\ buffer \in Seq(Entry) /\ buffer # <<>>
      /\ indexed' = Append(indexed, buffer[1]) /\ buffer' = Tail(buffer)
  BY DEF IInv, TypeOK, IndexBlock
<1>2. Len(buffer) \in Nat \ {0} /\ Len(indexed) \in Nat /\ buffer[1] \in Entry
  BY <1>1
<1> QED
  BY <1>1, <1>2

\* A block moves from the buffer to the index.
LEMMA IndexBlockInv == IInv /\ IndexBlock => IInv'
<1> SUFFICES ASSUME IInv, IndexBlock PROVE IInv'
  OBVIOUS
<1>1. UNCHANGED <<finalized, sessions, alive, stage, highest, subLast, first,
                  height, chunkEnd, chunkAuth, auth, crashes, deaths>>
  BY DEF IndexBlock, node, follow, catchUp
<1>2. /\ indexed' \in Seq(Entry) /\ Len(indexed') = Len(indexed) + 1
      /\ buffer' \in Seq(Entry) /\ Len(buffer') = Len(buffer) - 1
      /\ \A i \in 1 .. Len(indexed) : indexed'[i] = indexed[i]
      /\ indexed'[Len(indexed) + 1] = buffer[1]
      /\ \A i \in 1 .. Len(buffer') : buffer'[i] = buffer[i + 1]
      /\ Len(buffer) \in Nat \ {0} /\ Len(indexed) \in Nat
      /\ 1 \in 1 .. Len(buffer)
  BY IndexBlockRun
<1>3. Len(buffer') <= BufferSize
  BY <1>2, BufferAssumption DEF IInv, TypeOK
<1>4. TypeOK'
  BY <1>1, <1>2, <1>3 DEF IInv, TypeOK
<1>5. ASSUME NEW i \in 1 .. Len(indexed')
      PROVE  indexed'[i].block = Canonical(i - 1) /\ indexed'[i].author >= SetAfter(i - 2)
  <2>1. CASE i \in 1 .. Len(indexed)
    BY <1>2, <2>1 DEF IInv, RunInv, AuthorInv
  <2>2. CASE i = Len(indexed) + 1
    <3>1. /\ buffer[1].block = Canonical(Len(indexed) + 1 - 1)
          /\ buffer[1].author >= SetAfter(Len(indexed) + 1 - 2)
      BY <1>2 DEF IInv, RunInv, AuthorInv
    <3> QED
      BY <1>2, <2>2, <3>1
  <2> QED
    BY <1>2, <2>1, <2>2
<1>6. ASSUME NEW i \in 1 .. Len(buffer')
      PROVE  /\ buffer'[i].block = Canonical(Len(indexed') + i - 1)
             /\ buffer'[i].author >= SetAfter(Len(indexed') + i - 2)
  <2>1. /\ i + 1 \in 1 .. Len(buffer)
        /\ Len(indexed') + i - 1 = Len(indexed) + (i + 1) - 1
        /\ Len(indexed') + i - 2 = Len(indexed) + (i + 1) - 2
    BY <1>2
  <2> QED
    BY <1>2, <2>1 DEF IInv, RunInv, AuthorInv
<1>7. RunInv'
  <2>1. Len(indexed') + Len(buffer') - 1 = Len(indexed) + Len(buffer) - 1
    BY <1>2
  <2> QED
    BY <1>1, <1>5, <1>6, <2>1 DEF IInv, RunInv
<1>8. StreamInv'
  BY <1>1 DEF IInv, StreamInv
<1>9. \A i : SetAfter(i)' = SetAfter(i)
  BY <1>1 DEF SetAfter
<1>10. AuthorInv'
  BY <1>1, <1>5, <1>6, <1>9 DEF IInv, AuthorInv, CurrentSet
<1> QED
  BY <1>4, <1>7, <1>8, <1>10 DEF IInv

\* The process ends, by itself or by the watchdog.
LEMMA ProcessEndsInv == IInv /\ (Crash \/ Watchdog) => IInv'
<1> SUFFICES ASSUME IInv, Crash \/ Watchdog PROVE IInv'
  OBVIOUS
<1>1. Restarted
  BY DEF Crash, Watchdog
<1>2. crashes' \in 0 .. MaxCrashes
  BY BoundsAssumption DEF Crash, Watchdog, IInv, TypeOK
<1> QED
  BY <1>1, <1>2, RestartedInv

\* The invariant is inductive.
LEMMA StepInv == IInv /\ [Next]_vars => IInv'
<1> SUFFICES ASSUME IInv, [Next]_vars PROVE IInv'
  OBVIOUS
<1>1. CASE UNCHANGED vars
  <2>1. UNCHANGED <<finalized, sessions, alive, indexed, stage, highest, subLast, first,
                    height, chunkEnd, chunkAuth, auth, buffer, crashes, deaths>>
    BY <1>1 DEF vars, node, follow, catchUp
  <2>2. TypeOK' /\ StreamInv'
    BY <2>1 DEF IInv, TypeOK, StreamInv
  <2>3. finalized' \in Int /\ finalized' >= finalized
    BY <2>1 DEF IInv, TypeOK
  <2> QED
    BY <2>1, <2>2, <2>3, RunKept DEF IInv, AuthorInv
<1> QED
  BY <1>1, FinalizeInv, SubscriptionInv, OpenStreamInv, ReceiveFirstInv,
     StartChunkInv, YieldByHeightInv, YieldByHashInv, YieldLiveInv, IndexBlockInv,
     ProcessEndsInv DEF Next, Follow

----------------------------------------------------------------------------
(* What the invariant is for *)

\* Whatever the node, the subscription and the process go through, accepted
\* blocks continue the index exactly.
LEMMA InvBuffer == IInv => BufferContinuesIndex
<1> SUFFICES ASSUME IInv PROVE BufferContinuesIndex
  OBVIOUS
<1> DEFINE accepted == indexed \o buffer
<1>1. /\ indexed \in Seq(Entry) /\ buffer \in Seq(Entry)
      /\ Len(indexed) \in Nat /\ Len(buffer) \in Nat
  BY DEF IInv, TypeOK
<1>2. /\ Len(accepted) = Len(indexed) + Len(buffer)
      /\ DOMAIN accepted = 1 .. Len(indexed) + Len(buffer)
      /\ \A i \in 1 .. Len(indexed) + Len(buffer) :
            accepted[i] = IF i <= Len(indexed) THEN indexed[i]
                                               ELSE buffer[i - Len(indexed)]
  BY <1>1
<1> HIDE DEF accepted
<1>3. ASSUME NEW i \in DOMAIN accepted PROVE accepted[i].block = Canonical(i - 1)
  <2>1. CASE i <= Len(indexed)
    <3>1. i \in 1 .. Len(indexed)
      BY <1>1, <1>2, <2>1
    <3> QED
      BY <1>1, <1>2, <2>1, <3>1 DEF IInv, RunInv
  <2>2. CASE ~(i <= Len(indexed))
    <3>1. i - Len(indexed) \in 1 .. Len(buffer)
      BY <1>1, <1>2, <2>2
    <3>2. Len(indexed) + (i - Len(indexed)) - 1 = i - 1
      BY <1>1, <1>2
    <3> QED
      BY <1>1, <1>2, <2>2, <3>1, <3>2 DEF IInv, RunInv
  <2> QED
    BY <2>1, <2>2
<1>4. highest.height = Len(accepted) - 1
  BY <1>1, <1>2 DEF IInv, RunInv, Canonical
<1> QED
  BY <1>3, <1>4 DEF BufferContinuesIndex, accepted

\* No indexed author comes from a set replaced before the block.
LEMMA InvAuthor == IInv => NoStaleAuthor
<1> SUFFICES ASSUME IInv, NEW i \in DOMAIN indexed
             PROVE  indexed[i].author >= SetAfter(indexed[i].block.height - 1)
  BY DEF NoStaleAuthor
<1>1. i \in 1 .. Len(indexed) /\ i \in Int
  BY DEF IInv, TypeOK
<1>2. indexed[i].block = Canonical(i - 1)
  BY <1>1 DEF IInv, RunInv
<1>3. indexed[i].block.height - 1 = i - 2
  BY <1>1, <1>2 DEF Canonical
<1> QED
  BY <1>1, <1>3 DEF IInv, AuthorInv

\* Blocks that were accepted and not yet indexed are neither lost nor doubled.
THEOREM FollowingExact == Spec => []BufferContinuesIndex
<1> QED
  BY InitInv, StepInv, InvBuffer, PTL DEF Spec

\* Cached authority sets never outlive a session change.
THEOREM AuthorsCurrent == Spec => []NoStaleAuthor
<1> QED
  BY InitInv, StepInv, InvAuthor, PTL DEF Spec

----------------------------------------------------------------------------
(* Refinement: every step is a step of IndexedChain, or stutters *)

\* Appending to the index appends to the log it stands for.
LEMMA BlocksAppend ==
    ASSUME NEW s \in Seq(Entry), NEW e \in Entry
    PROVE  /\ Blocks(Append(s, e)) = Append(Blocks(s), e.block)
           /\ Len(Blocks(s)) = Len(s)
<1>1. /\ Append(s, e) \in Seq(Entry) /\ DOMAIN s = 1 .. Len(s) /\ Len(s) \in Nat
      /\ DOMAIN Append(s, e) = 1 .. Len(s) + 1
      /\ \A i \in 1 .. Len(s) + 1 : Append(s, e)[i] = IF i <= Len(s) THEN s[i] ELSE e
  OBVIOUS
<1>2. Blocks(s) = [i \in 1 .. Len(s) |-> s[i].block]
  BY <1>1 DEF Blocks
<1>3. \A i \in 1 .. Len(s) : s[i].block \in Block
  <2> TAKE i \in 1 .. Len(s)
  <2>1. s[i] \in Entry
    BY <1>1
  <2> QED
    BY <2>1 DEF Entry
<1>4. Blocks(s) \in Seq(Block) /\ Len(Blocks(s)) = Len(s)
  BY <1>1, <1>2, <1>3
<1>5. Append(Blocks(s), e.block)
        = [i \in 1 .. Len(s) + 1 |-> IF i <= Len(s) THEN s[i].block ELSE e.block]
  BY <1>1, <1>2, <1>4
<1>6. Blocks(Append(s, e))
        = [i \in 1 .. Len(s) + 1 |-> IF i <= Len(s) THEN s[i].block ELSE e.block]
  BY <1>1 DEF Blocks
<1> QED
  BY <1>4, <1>5, <1>6

\* Indexing a block is the promised step; finalizing one is the node's; no
\* other step changes what the promise speaks of.
LEMMA StepRefines == IInv /\ [Next]_vars => [Promise!Next]_(Promise!vars)
<1> SUFFICES ASSUME IInv, [Next]_vars
             PROVE  Promise!Next \/ UNCHANGED <<finalized, Blocks(indexed)>>
  BY DEF Promise!vars
<1>1. CASE Finalize
  <2>1. Promise!Finalize
    BY <1>1 DEF Finalize, Promise!Finalize, Blocks
  <2> QED
    BY <2>1 DEF Promise!Next
<1>2. CASE IndexBlock
  <2>1. /\ indexed' = Append(indexed, buffer[1])
        /\ buffer[1] \in Entry /\ indexed \in Seq(Entry)
        /\ Len(buffer) \in Nat \ {0} /\ Len(indexed) \in Nat
        /\ 1 \in 1 .. Len(buffer) /\ finalized' = finalized /\ finalized \in Int
    BY <1>2, IndexBlockRun DEF IndexBlock, node, IInv, TypeOK
  <2>2. buffer[1].block = Canonical(Len(indexed) + 1 - 1) /\ Len(indexed) + 1 - 1 = Len(indexed)
    BY <2>1 DEF IInv, RunInv
  <2>3. /\ Blocks(indexed)' = Append(Blocks(indexed), Canonical(Len(indexed)))
        /\ Len(Blocks(indexed)) = Len(indexed)
    <3>1. Blocks(indexed)' = Blocks(indexed')
      BY DEF Blocks
    <3> QED
      BY <2>1, <2>2, <3>1, BlocksAppend
  <2>4. Len(indexed) < finalized
    BY <2>1 DEF IInv, RunInv, Canonical
  <2>5. Promise!Index
    BY <2>1, <2>3, <2>4 DEF Promise!Index, Canonical
  <2> QED
    BY <2>5 DEF Promise!Next
<1>3. CASE ~Finalize /\ ~IndexBlock
  <2>1. UNCHANGED <<finalized, indexed>>
    <3>1. CASE UNCHANGED vars
      BY <3>1 DEF vars, node
    <3>2. CASE SubscriptionDies \/ Resubscribe \/ Crash \/ Watchdog
      BY <3>2 DEF SubscriptionDies, Resubscribe, Crash, Watchdog, Restarted, node
    <3>3. CASE Follow
      BY <3>3 DEF Follow, OpenStream, ReceiveFirst, StartChunk, YieldByHeight,
                  YieldByHash, YieldLive, Restarted, node
    <3> QED
      BY <1>3, <3>1, <3>2, <3>3 DEF Next
  <2> QED
    BY <2>1 DEF Blocks
<1> QED
  BY <1>1, <1>2, <1>3

\* The index is a growing, gap-free prefix of the canonical chain that never
\* runs ahead of finalization: following the node takes only the steps that
\* IndexedChain allows.  (That it takes all of them in the end is liveness.)
THEOREM FollowSteps == Spec => Promise!Init /\ [][Promise!Next]_(Promise!vars)
<1>1. Init => Promise!Init
  BY DEF Init, Promise!Init, Blocks
<1>2. IInv /\ [Next]_vars => [Promise!Next]_(Promise!vars)
  BY StepRefines
<1> QED
  BY <1>1, <1>2, InitInv, StepInv, PTL DEF Spec

=============================================================================
