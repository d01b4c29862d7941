------------------------ MODULE LedgerRetentionProofs ------------------------
(***************************************************************************)
(* Proofs, for every chain, every retention and every number of process    *)
(* deaths, that the root counts back the retention window and that a       *)
(* restart always finds the tip's ledger state.                            *)
(***************************************************************************)
EXTENDS LedgerRetention, FiniteSetTheorems, TLAPS

----------------------------------------------------------------------------
(* How often a window references a root *)

\* A window is finite, so its occurrences of a key are counted by a natural
\* number, and a member's own key occurs.
LEMMA OccType ==
    ASSUME NEW S \in SUBSET Heights, NEW k
    PROVE  /\ IsFiniteSet(S)
           /\ IsFiniteSet(Occurrences(S, k))
           /\ Occ(S, k) \in Nat
           /\ \A h \in S : chain[h] = k => Occ(S, k) > 0
<1>1. IsFiniteSet(Heights)
  BY FS_Interval, MaxHeightAssumption DEF Heights
<1>2. IsFiniteSet(S)
  BY <1>1, FS_Subset
<1>3. Occurrences(S, k) \in SUBSET S
  BY DEF Occurrences
<1>4. IsFiniteSet(Occurrences(S, k))
  BY <1>2, <1>3, FS_Subset
<1>5. Occ(S, k) \in Nat
  BY <1>4, FS_CardinalityType DEF Occ
<1>6. ASSUME NEW h \in S, chain[h] = k
      PROVE  Occ(S, k) > 0
  <2>1. Occurrences(S, k) # {}
    BY <1>6 DEF Occurrences
  <2>2. Cardinality(Occurrences(S, k)) # 0
    BY <2>1, <1>4, FS_EmptySet
  <2> QED
    BY <2>2, <1>5 DEF Occ
<1> QED
  BY <1>2, <1>4, <1>5, <1>6

\* Splitting a window splits the occurrences of every key.
LEMMA OccSplit ==
    ASSUME NEW S \in SUBSET Heights, NEW T \in SUBSET S, NEW k
    PROVE  Occ(S, k) = Occ(T, k) + Occ(S \ T, k)
<1> DEFINE A == Occurrences(T, k)
           B == Occurrences(S \ T, k)
<1>1. IsFiniteSet(A) /\ IsFiniteSet(B)
  BY OccType
<1>2. Cardinality(A \cup B) = Cardinality(A) + Cardinality(B)
                                - Cardinality(A \cap B)
  BY <1>1, FS_Union
<1>3. A \cup B = Occurrences(S, k) /\ A \cap B = {}
  BY DEF Occurrences
<1>4. Cardinality(A \cap B) = 0
  BY <1>3, FS_EmptySet
<1>5. Cardinality(A) \in Nat /\ Cardinality(B) \in Nat
  BY <1>1, FS_CardinalityType
<1> HIDE DEF A, B
<1>6. Cardinality(Occurrences(S, k)) = Cardinality(A) + Cardinality(B)
  BY <1>2, <1>3, <1>4, <1>5
<1> QED
  BY <1>6 DEF Occ, A, B

\* Pushing one block adds one occurrence of its own key and of no other.
LEMMA OccPush ==
    ASSUME NEW S \in SUBSET Heights, NEW h \in Heights, h \notin S, NEW k
    PROVE  Occ(S \cup {h}, k) = Occ(S, k) + IF chain[h] = k THEN 1 ELSE 0
<1>1. IsFiniteSet(Occurrences(S, k)) /\ Occ(S, k) \in Nat
  BY OccType
<1>2. CASE chain[h] = k
  <2>1. Occurrences(S \cup {h}, k) = Occurrences(S, k) \cup {h}
    BY <1>2 DEF Occurrences
  <2>2. h \notin Occurrences(S, k)
    BY DEF Occurrences
  <2> QED
    BY <1>1, <1>2, <2>1, <2>2, FS_AddElement DEF Occ
<1>3. CASE chain[h] # k
  <2>1. Occurrences(S \cup {h}, k) = Occurrences(S, k)
    BY <1>3 DEF Occurrences
  <2> QED
    BY <1>1, <1>3, <2>1 DEF Occ
<1> QED
  BY <1>2, <1>3

\* Cutting a window to its newest members keeps the newest one.
LEMMA NewestKeepsTip ==
    ASSUME NEW S, NEW n \in Nat \ {0}, NEW m \in S, \A g \in S : ~(g > m)
    PROVE  Newest(S, n) \subseteq S /\ m \in Newest(S, n)
<1>1. {g \in S : g > m} = {}
  OBVIOUS
<1>2. Cardinality({g \in S : g > m}) = 0
  BY <1>1, FS_EmptySet
<1> QED
  BY <1>2 DEF Newest

\* The newest member of a window is its greatest height.
LEMMA MaxIsTip ==
    ASSUME NEW S \in SUBSET Int, NEW m \in S, \A g \in S : m >= g
    PROVE  Max(S) = m
<1>1. \A x \in S : (\A y \in S : x >= y) => x = m
  BY Z3
<1> QED
  BY <1>1 DEF Max

----------------------------------------------------------------------------
(* Every step preserves the invariant *)

\* Both initial data directories, fresh and undercounted, satisfy it.
LEMMA InitInv == Init \/ LegacyInit => IInv
<1> USE RetentionsAssumption, MaxHeightAssumption DEF Heights
<1>1. ASSUME Init PROVE IInv
  BY <1>1 DEF Init, FreshDisk, NoProcess, NoDelta, IInv, TypeOK, DiskInv,
              RootedIsWhole, NeverStranded, StageInv
<1>2. ASSUME LegacyInit PROVE IInv
  <2> USE <1>2 DEF LegacyInit, UndercountedDisk, NoProcess, NoDelta
  <2>1. PICK n \in Retentions : storedWindow = Newest(0 .. indexed - 1, n)
    OBVIOUS
  <2>2. n \in Nat \ {0}
    OBVIOUS
  <2>3. \A m \in Nat : Newest(0 .. m, n) \subseteq 0 .. m /\ m \in Newest(0 .. m, n)
    <3> TAKE m \in Nat
    <3>1. m \in 0 .. m /\ \A g \in 0 .. m : ~(g > m)
      OBVIOUS
    <3> QED
      BY <2>2, <3>1, NewestKeepsTip
  <2>4. /\ storedWindow \subseteq 0 .. indexed - 1
        /\ indexed - 1 \in storedWindow
    <3>1. indexed - 1 \in Nat
      OBVIOUS
    <3> QED
      BY <2>1, <2>3, <3>1
  <2>5. TypeOK
    BY <2>4 DEF TypeOK
  <2>6. DiskInv
    BY <2>4 DEF DiskInv, RootedIsWhole
  <2> QED
    BY <2>5, <2>6 DEF IInv, NeverStranded, StageInv
<1> QED
  BY <1>1, <1>2

\* The newest state of the stored window is the tip's, which is rooted and so
\* loads before anything is repaired.
LEMMA TipIsLoadable == IInv => TipLoads
<1> SUFFICES ASSUME IInv, storedWindow # {}
             PROVE  chain[Max(storedWindow)] \in intact
  BY DEF TipLoads
<1> USE DEF IInv
<1>1. indexed \in Nat /\ storedWindow \subseteq 0 .. indexed - 1
  BY DEF DiskInv, TypeOK
<1>2. indexed > 0
  <2>1. PICK h : h \in storedWindow
    OBVIOUS
  <2>2. h \in 0 .. indexed - 1
    BY <1>1, <2>1
  <2> QED
    BY <1>1, <2>2
<1>3. indexed - 1 \in storedWindow /\ chain[indexed - 1] \in intact
  BY <1>2 DEF DiskInv, RootedIsWhole
<1>4. Max(storedWindow) = indexed - 1
  <2>1. storedWindow \in SUBSET Int /\ \A g \in storedWindow : indexed - 1 >= g
    BY <1>1
  <2> QED
    BY <2>1, <1>3, MaxIsTip
<1> QED
  BY <1>3, <1>4

\* Repairing the counts roots no swept state, and covers every occurrence of
\* every state that is rooted.
LEMMA StartInv == IInv /\ Start => IInv'
<1> SUFFICES ASSUME IInv, Start PROVE IInv'
  OBVIOUS
<1> USE DEF IInv, Start
<1>1. \A k \in Key : Occ(storedWindow, k) \in Nat
  BY OccType DEF TypeOK
<1>2. \A k \in Key : /\ RaisedCount(k) \in Nat
                     /\ RaisedCount(k) >= rootCount[k]
                     /\ RaisedCount(k) > 0 => /\ RaisedCount(k) >= Occ(storedWindow, k)
                                              /\ rootCount[k] > 0 \/ k \in intact
  BY <1>1 DEF TypeOK, RaisedCount
<1>3. /\ \A k \in Key : rootCount'[k] = RaisedCount(k)
      /\ rootCount' = [k \in Key |-> RaisedCount(k)] /\ pc' = "repaired"
  BY TipIsLoadable
<1>4. TypeOK'
  BY <1>2, <1>3 DEF TypeOK
<1>5. \A h \in storedWindow : chain[h] \in Key
  BY DEF TypeOK
<1>6. DiskInv'
  <2>1. indexed > 0 => rootCount'[chain[indexed - 1]] > 0
    BY <1>2, <1>3, <1>5 DEF DiskInv, TypeOK
  <2>2. RootedIsWhole'
    BY <1>2, <1>3, <1>5 DEF DiskInv, RootedIsWhole
  <2> QED
    BY <2>1, <2>2 DEF DiskInv
<1>7. StageInv'
  BY <1>2, <1>3 DEF StageInv, Occ, Occurrences
<1> QED
  BY <1>3, <1>4, <1>6, <1>7 DEF NeverStranded

\* Seeding keeps the tip and loads its state.
LEMMA SeedInv == IInv /\ Seed => IInv'
<1> SUFFICES ASSUME IInv, Seed PROVE IInv'
  OBVIOUS
<1> USE DEF IInv, Seed, disk
<1>1. /\ Rooted \subseteq storedWindow
      /\ Rooted \subseteq 0 .. indexed - 1
      /\ \A h \in Rooted : chain[h] \in Key /\ chain[h] \in intact
  BY DEF Rooted, DiskInv, RootedIsWhole, TypeOK
<1>2. indexed > 0 => indexed - 1 \in Rooted
  BY DEF Rooted, DiskInv
<1>3. indexed > 0 => Max(Rooted) = indexed - 1
  <2>1. Rooted \in SUBSET Int /\ \A g \in Rooted : indexed - 1 >= g
    BY <1>1 DEF TypeOK
  <2> QED
    BY <2>1, <1>2, MaxIsTip
<1>4. \A k \in Key : rootCount[k] >= Occ(Rooted, k)
  <2> TAKE k \in Key
  <2>1. CASE rootCount[k] > 0
    <3>1. Occurrences(Rooted, k) = Occurrences(storedWindow, k)
      BY <2>1 DEF Rooted, Occurrences
    <3> QED
      BY <2>1, <3>1 DEF StageInv, Occ
  <2>2. CASE rootCount[k] = 0
    <3>1. Occurrences(Rooted, k) = {}
      BY <2>2 DEF Rooted, Occurrences
    <3> QED
      BY <2>2, <3>1, FS_EmptySet DEF Occ
  <2> QED
    BY <2>1, <2>2 DEF TypeOK
<1>5. Rooted = {} <=> indexed = 0
  <2>1. indexed \in Nat
    BY DEF TypeOK
  <2>2. 0 .. 0 - 1 = {}
    OBVIOUS
  <2>3. indexed = 0 => Rooted = {}
    BY <1>1, <2>2
  <2>4. indexed # 0 => indexed > 0
    BY <2>1
  <2> QED
    BY <1>2, <2>3, <2>4
<1>6. /\ pc' = "ready"
      /\ indexed > 0 => ledger' = chain[indexed - 1]
      /\ ledger' \in Key \cup {NoKey}
  <2>1. CASE Rooted = {}
    BY <2>1, <1>5 DEF TypeOK
  <2>2. CASE Rooted # {}
    <3>1. indexed > 0
      BY <2>2, <1>5 DEF TypeOK
    <3>2. ledger' = chain[indexed - 1] /\ pc' = IF ledger' \in intact THEN "ready" ELSE "bailed"
      BY <2>2, <3>1, <1>3
    <3>3. ledger' \in Key /\ ledger' \in intact
      BY <3>1, <3>2, <1>1, <1>2
    <3> QED
      BY <3>1, <3>2, <3>3
  <2> QED
    BY <2>1, <2>2
<1>7. TypeOK'
  BY <1>1, <1>6 DEF TypeOK
<1>8. DiskInv'
  BY DEF DiskInv, RootedIsWhole
<1>9. StageInv'
  <2>1. \A k \in Key : FlushedCount(k)' = rootCount[k]
    BY DEF FlushedCount, StageInv, NoDelta, TypeOK
  <2>2. \A k : Occ(window, k)' = Occ(Rooted, k)
    BY DEF Occ, Occurrences
  <2>3. Backed(window)'
    BY <1>1, <1>4, <2>1, <2>2 DEF Backed
  <2> QED
    BY <1>1, <1>2, <1>6, <2>3 DEF StageInv
<1> QED
  BY <1>6, <1>7, <1>8, <1>9 DEF NeverStranded

\* The replay always matches and the flush never underflows; the new state
\* is rooted once more than the window needs so far.
LEMMA PersistBlockInv == IInv /\ PersistBlock => IInv'
<1> SUFFICES ASSUME IInv, PersistBlock PROVE IInv'
  OBVIOUS
<1> USE DEF IInv
<1> DEFINE new == chain[indexed]
<1>1. /\ pc = "ready" /\ indexed < MaxHeight
      /\ chain' = chain /\ indexed' = indexed /\ storedWindow' = storedWindow
      /\ limit' = limit /\ window' = window /\ crashes' = crashes
  BY DEF PersistBlock
<1>2. /\ indexed \in Heights /\ new \in Key
      /\ indexed \notin window
      /\ window \in SUBSET Heights
  BY <1>1, MaxHeightAssumption DEF TypeOK, StageInv, Heights
<1>3. \A k \in Key : /\ Occ(window, k) \in Nat
                     /\ FlushedCount(k) \in Int
                     /\ FlushedCount(k) >= Occ(window, k)
                     /\ FlushedCount(k) <= rootCount[k]
  <2> TAKE k \in Key
  <2>1. Occ(window, k) \in Nat
    BY <1>2, OccType
  <2>2. FlushedCount(k) >= Occ(window, k)
    BY <1>1 DEF StageInv, Backed
  <2>3. FlushedCount(k) \in Int /\ FlushedCount(k) <= rootCount[k]
    BY DEF TypeOK, FlushedCount
  <2> QED
    BY <2>1, <2>2, <2>3
<1>4. ReplayMatches /\ ~Underflow
  <2>1. ~Underflow
    BY <1>3 DEF Underflow
  <2>2. ReplayMatches
    BY <1>1 DEF ReplayMatches, StageInv, Backed
  <2> QED
    BY <2>1, <2>2
<1>5. /\ rootCount' = [k \in Key |-> FlushedCount(k) + IF k = new THEN 1 ELSE 0]
      /\ intact' = intact \cup {new}
      /\ ledger' = new /\ pending' = NoDelta /\ pc' = "persisted"
  BY <1>4 DEF PersistBlock
<1>6. \A k \in Key : /\ rootCount'[k] \in Nat
                     /\ rootCount'[k] = FlushedCount(k) + IF k = new THEN 1 ELSE 0
  BY <1>3, <1>5
<1>7. TypeOK'
  BY <1>1, <1>2, <1>5, <1>6 DEF TypeOK, NoDelta
<1>8. \A h \in storedWindow : chain[h] \in Key
  BY DEF TypeOK
<1>9. DiskInv'
  <2>1. RootedIsWhole'
    BY <1>1, <1>3, <1>5, <1>6, <1>8 DEF DiskInv, RootedIsWhole, TypeOK
  <2>2. ASSUME indexed > 0 PROVE rootCount'[chain[indexed - 1]] > 0
    <3>1. indexed - 1 \in window /\ chain[indexed - 1] \in Key
      BY <1>1, <2>2, <1>2 DEF StageInv, TypeOK
    <3>2. Occ(window, chain[indexed - 1]) > 0
      BY <3>1, <1>2, OccType
    <3> QED
      BY <3>1, <3>2, <1>3, <1>6, <1>2
  <2> QED
    BY <1>1, <2>1, <2>2 DEF DiskInv
<1>10. Backed(window \cup {indexed})'
  <2>1. \A h \in window \cup {indexed} : chain[h] \in intact'
    BY <1>1, <1>5 DEF StageInv, Backed
  <2>2. ASSUME NEW k \in Key PROVE FlushedCount(k)' >= Occ(window \cup {indexed}, k)'
    <3>1. FlushedCount(k)' = rootCount'[k]
      BY <1>5, <1>6 DEF FlushedCount, NoDelta
    <3>2. Occ(window \cup {indexed}, k)' = Occ(window \cup {indexed}, k)
      BY <1>1 DEF Occ, Occurrences
    <3>3. Occ(window \cup {indexed}, k)
            = Occ(window, k) + IF new = k THEN 1 ELSE 0
      BY <1>2, OccPush
    <3> QED
      BY <3>1, <3>2, <3>3, <1>3, <1>6
  <2> QED
    BY <1>1, <2>1, <2>2 DEF Backed
<1>11. StageInv'
  BY <1>1, <1>5, <1>10 DEF StageInv
<1> QED
  BY <1>5, <1>7, <1>9, <1>11 DEF NeverStranded

\* The stored window is cut to blocks that are all backed, the tip included.
LEMMA WriteBlockInv == IInv /\ WriteBlock => IInv'
<1> SUFFICES ASSUME IInv, WriteBlock PROVE IInv'
  OBVIOUS
<1> USE DEF IInv, WriteBlock
<1> DEFINE pushed == window \cup {indexed}
<1>1. /\ indexed < MaxHeight /\ indexed \in Heights
      /\ window \subseteq 0 .. indexed - 1
      /\ pushed \in SUBSET Heights
      /\ pushed \subseteq 0 .. indexed
      /\ ledger = chain[indexed]
      /\ pending = NoDelta
  BY MaxHeightAssumption DEF TypeOK, StageInv, Heights
<1>2. limit \in Nat \ {0}
  BY RetentionsAssumption DEF TypeOK
<1>3. storedWindow' \subseteq pushed /\ indexed \in storedWindow'
  <2>1. indexed \in pushed /\ \A g \in pushed : ~(g > indexed)
    BY <1>1
  <2>2. Newest(pushed, limit) \subseteq pushed /\ indexed \in Newest(pushed, limit)
    BY <1>2, <2>1, NewestKeepsTip
  <2> QED
    BY <2>2
<1>4. TypeOK'
  <2>1. storedWindow' \subseteq Heights
    BY <1>1, <1>3
  <2>2. indexed' \in 0 .. MaxHeight
    BY <1>1, MaxHeightAssumption DEF TypeOK
  <2> QED
    BY <2>1, <2>2 DEF TypeOK
<1>5. Backed(pushed)
  BY DEF StageInv
<1>6. \A h \in pushed : chain[h] \in intact /\ rootCount[chain[h]] > 0
  <2> TAKE h \in pushed
  <2>1. chain[h] \in Key
    BY <1>1 DEF TypeOK
  <2>2. Occ(pushed, chain[h]) \in Nat /\ Occ(pushed, chain[h]) > 0
    BY <1>1, OccType
  <2>3. FlushedCount(chain[h]) = rootCount[chain[h]]
    BY <1>1, <2>1 DEF FlushedCount, NoDelta, TypeOK
  <2>4. FlushedCount(chain[h]) >= Occ(pushed, chain[h]) /\ chain[h] \in intact
    BY <2>1, <1>5 DEF Backed
  <2>5. rootCount[chain[h]] \in Nat
    BY <2>1 DEF TypeOK
  <2> QED
    BY <2>2, <2>3, <2>4, <2>5
<1>7. DiskInv'
  <2>1. RootedIsWhole'
    BY <1>3, <1>6 DEF RootedIsWhole
  <2>2. indexed' - 1 = indexed /\ indexed \in pushed
    BY DEF TypeOK
  <2>3. storedWindow' \subseteq 0 .. indexed' - 1
    BY <1>1, <1>3, <2>2
  <2> QED
    BY <1>3, <1>6, <2>1, <2>2, <2>3 DEF DiskInv
<1>8. indexed' - 1 = indexed /\ indexed' - 2 = indexed - 1 /\ indexed' > 0
  BY DEF TypeOK
<1>9. Backed(window \cup {indexed - 1})'
  BY <1>5, <1>8 DEF Backed, FlushedCount, Occ, Occurrences
<1>10. storedWindow' = Newest(window \cup {indexed - 1}, limit)'
  BY <1>8 DEF Newest
<1>11. StageInv'
  BY <1>1, <1>8, <1>9, <1>10 DEF StageInv
<1> QED
  BY <1>4, <1>7, <1>11 DEF NeverStranded

\* The states that age out take their occurrences, and no others, with them.
LEMMA AdvanceWindowInv == IInv /\ AdvanceWindow => IInv'
<1> SUFFICES ASSUME IInv, AdvanceWindow PROVE IInv'
  OBVIOUS
<1> USE DEF IInv
<1> DEFINE pushed == window \cup {indexed - 1}
           kept   == Newest(pushed, limit)
<1>1. /\ pc = "written" /\ pc' = "advanced"
      /\ window' = kept
      /\ pending' = [k \in Key |-> pending[k] - Occ(pushed \ kept, k)]
      /\ chain' = chain /\ indexed' = indexed /\ storedWindow' = storedWindow
      /\ rootCount' = rootCount /\ intact' = intact
      /\ limit' = limit /\ ledger' = ledger /\ crashes' = crashes
  BY DEF AdvanceWindow, disk
<1>2. /\ indexed > 0 /\ indexed \in Int
      /\ window \subseteq 0 .. indexed - 2
      /\ pending = NoDelta
      /\ Backed(pushed)
      /\ storedWindow = kept
      /\ ledger = chain[indexed - 1]
  BY <1>1 DEF StageInv, TypeOK
<1>3. /\ pushed \in SUBSET Heights
      /\ indexed - 1 \in pushed /\ \A g \in pushed : ~(g > indexed - 1)
  BY <1>2, MaxHeightAssumption DEF TypeOK, Heights
<1>4. limit \in Nat \ {0}
  BY RetentionsAssumption DEF TypeOK
<1>5. kept \in SUBSET pushed /\ indexed - 1 \in kept
  BY <1>3, <1>4, NewestKeepsTip
<1> HIDE DEF pushed, kept
<1>6. \A k \in Key : /\ Occ(pushed \ kept, k) \in Nat
                     /\ Occ(kept, k) \in Nat
                     /\ Occ(pushed, k) = Occ(kept, k) + Occ(pushed \ kept, k)
                     /\ rootCount[k] \in Nat
                     /\ rootCount[k] >= Occ(pushed, k)
  <2> TAKE k \in Key
  <2>1. pushed \ kept \in SUBSET Heights /\ kept \in SUBSET Heights
    BY <1>3, <1>5
  <2>2. Occ(pushed \ kept, k) \in Nat /\ Occ(kept, k) \in Nat
    BY <2>1, OccType
  <2>3. Occ(pushed, k) = Occ(kept, k) + Occ(pushed \ kept, k)
    BY <1>3, <1>5, OccSplit
  <2>4. rootCount[k] \in Nat
    BY DEF TypeOK
  <2>5. FlushedCount(k) = rootCount[k]
    BY <1>2, <2>4 DEF FlushedCount, NoDelta
  <2>6. FlushedCount(k) >= Occ(pushed, k)
    BY <1>2 DEF Backed
  <2> QED
    BY <2>2, <2>3, <2>4, <2>5, <2>6
<1>7. \A k \in Key : /\ pending'[k] \in Int /\ pending'[k] <= 0
                     /\ FlushedCount(k)' >= Occ(kept, k)
  <2> TAKE k \in Key
  <2>1. pending'[k] = 0 - Occ(pushed \ kept, k)
    BY <1>1, <1>2 DEF NoDelta
  <2>2. FlushedCount(k)' = rootCount[k] + pending'[k]
    BY <1>1 DEF FlushedCount
  <2>3. /\ Occ(pushed \ kept, k) \in Nat /\ Occ(kept, k) \in Nat
        /\ rootCount[k] \in Nat
        /\ rootCount[k] >= Occ(kept, k) + Occ(pushed \ kept, k)
    BY <1>6
  <2>4. pending'[k] \in Int /\ pending'[k] <= 0
    BY <2>1, <2>3
  <2>5. rootCount[k] + pending'[k] >= Occ(kept, k)
    BY <2>1, <2>3
  <2> QED
    BY <2>2, <2>4, <2>5
<1>8. TypeOK'
  <2>1. window' \subseteq Heights
    BY <1>1, <1>3, <1>5
  <2>2. pending' \in [Key -> Int] /\ \A k \in Key : pending'[k] <= 0
    BY <1>1, <1>7
  <2> QED
    BY <1>1, <2>1, <2>2 DEF TypeOK
<1>9. DiskInv'
  BY <1>1 DEF DiskInv, RootedIsWhole
<1>10. Backed(window)'
  <2>1. \A h \in window' : chain'[h] \in intact'
    BY <1>1, <1>2, <1>5 DEF Backed
  <2>2. \A k \in Key : Occ(window, k)' = Occ(kept, k)
    BY <1>1 DEF Occ, Occurrences
  <2> QED
    BY <1>7, <2>1, <2>2 DEF Backed
<1>11. StageInv'
  <2>1. kept \subseteq 0 .. indexed - 1
    BY <1>2, <1>5 DEF pushed
  <2> QED
    BY <1>1, <1>2, <1>5, <1>10, <2>1 DEF StageInv
<1> QED
  BY <1>1, <1>8, <1>9, <1>11 DEF NeverStranded

\* The sweep culls no state that the stored window names and roots.
LEMMA CollectInv == IInv /\ Collect => IInv'
<1> SUFFICES ASSUME IInv, Collect PROVE IInv'
  OBVIOUS
<1> USE DEF IInv
<1>1. /\ pc = "advanced" /\ pc' = "ready"
      /\ chain' = chain /\ indexed' = indexed /\ storedWindow' = storedWindow
      /\ rootCount' = rootCount /\ limit' = limit /\ window' = window
      /\ pending' = pending /\ ledger' = ledger /\ crashes' = crashes
      /\ intact' \subseteq intact
      /\ \A k \in intact : FlushedCount(k) > 0 => k \in intact'
  <2>1. \A k \in Key : FlushedCount(k) \in Int
    BY DEF FlushedCount, TypeOK
  <2> QED
    BY <2>1 DEF Collect, TypeOK
<1>2. /\ window = storedWindow
      /\ window \in SUBSET Heights
      /\ window \subseteq 0 .. indexed - 1
      /\ Backed(window)
      /\ indexed > 0 => indexed - 1 \in window /\ ledger = chain[indexed - 1]
  BY <1>1 DEF StageInv, TypeOK
<1>3. \A h \in window : chain[h] \in intact'
  <2> TAKE h \in window
  <2>1. chain[h] \in Key
    BY <1>2 DEF TypeOK
  <2>2. Occ(window, chain[h]) \in Nat /\ Occ(window, chain[h]) > 0
    BY <1>2, OccType
  <2>3. FlushedCount(chain[h]) >= Occ(window, chain[h]) /\ chain[h] \in intact
    BY <1>2, <2>1 DEF Backed
  <2>4. FlushedCount(chain[h]) \in Int
    BY <2>1 DEF FlushedCount, TypeOK
  <2> QED
    BY <1>1, <2>2, <2>3, <2>4
<1>4. TypeOK'
  BY <1>1 DEF TypeOK
<1>5. DiskInv'
  BY <1>1, <1>2, <1>3 DEF DiskInv, RootedIsWhole
<1>6. Backed(window)'
  BY <1>1, <1>2, <1>3 DEF Backed, FlushedCount, Occ, Occurrences
<1>7. StageInv'
  BY <1>1, <1>2, <1>6 DEF StageInv
<1> QED
  BY <1>1, <1>4, <1>5, <1>7 DEF NeverStranded

\* A process death changes nothing on disk.
LEMMA CrashInv == IInv /\ Crash => IInv'
<1> SUFFICES ASSUME IInv, Crash PROVE IInv'
  OBVIOUS
<1> USE DEF IInv, Crash, disk
<1>1. TypeOK'
  BY MaxCrashesAssumption DEF TypeOK, NoDelta
<1>2. DiskInv'
  BY DEF DiskInv, RootedIsWhole
<1> QED
  BY <1>1, <1>2 DEF StageInv, NeverStranded

\* Nothing changes in a stuttering step.
LEMMA StutterInv == IInv /\ UNCHANGED vars => IInv'
<1> SUFFICES ASSUME IInv, UNCHANGED vars PROVE IInv'
  OBVIOUS
<1> USE DEF vars
<1>1. TypeOK'
  BY DEF IInv, TypeOK
<1>2. DiskInv' /\ NeverStranded'
  BY DEF IInv, DiskInv, RootedIsWhole, NeverStranded
<1>3. StageInv'
  BY DEF IInv, StageInv, Backed, FlushedCount, Occ, Occurrences, Newest
<1> QED
  BY <1>1, <1>2, <1>3 DEF IInv

\* The invariant is inductive.
LEMMA StepInv == IInv /\ [Next]_vars => IInv'
  BY StartInv, SeedInv, PersistBlockInv, WriteBlockInv, AdvanceWindowInv,
     CollectInv, CrashInv, StutterInv DEF Next, Work

----------------------------------------------------------------------------
(* What the invariant is for *)

\* No flush can panic: a stage's pending deltas never exceed its root counts.
LEMMA InvNoUnderflow == IInv => NoUnderflow
<1> SUFFICES ASSUME IInv, NEW k \in Key PROVE FlushedCount(k) >= 0
  BY DEF NoUnderflow
<1> USE DEF IInv
<1>1. rootCount[k] \in Nat /\ pending[k] \in Int
  BY DEF TypeOK
<1>2. CASE pending = NoDelta
  BY <1>1, <1>2 DEF FlushedCount, NoDelta
<1>3. CASE pc \in {"ready", "advanced"}
  <2>1. FlushedCount(k) >= Occ(window, k)
    BY <1>3 DEF StageInv, Backed
  <2>2. Occ(window, k) \in Nat
    BY OccType DEF TypeOK
  <2> QED
    BY <1>1, <2>1, <2>2 DEF FlushedCount
<1> QED
  BY <1>2, <1>3 DEF StageInv, TypeOK, NeverStranded

\* For every chain, retention and number of process deaths, from a fresh data
\* directory: every variable keeps its type, the arena's root counts are
\* never driven below zero, every run finds the tip's state and replays the
\* next block on it, and a rooted state of the stored window is whole.
THEOREM RetentionSafe ==
    Spec => [](TypeOK /\ NoUnderflow /\ NeverStranded /\ RootedIsWhole)
<1>1. Init => IInv
  BY InitInv
<1>2. IInv /\ [Next]_vars => IInv'
  BY StepInv
<1>3. IInv => TypeOK /\ NoUnderflow /\ NeverStranded /\ RootedIsWhole
  BY InvNoUnderflow DEF IInv, DiskInv
<1> QED
  BY <1>1, <1>2, <1>3, PTL DEF Spec

\* The same from a data directory whose root counts are too low: the repair
\* makes the unpersists that follow safe.
THEOREM RepairedRetentionSafe ==
    LegacySpec => [](TypeOK /\ NoUnderflow /\ NeverStranded /\ RootedIsWhole)
<1>1. LegacyInit => IInv
  BY InitInv
<1>2. IInv /\ [Next]_vars => IInv'
  BY StepInv
<1>3. IInv => TypeOK /\ NoUnderflow /\ NeverStranded /\ RootedIsWhole
  BY InvNoUnderflow DEF IInv, DiskInv
<1> QED
  BY <1>1, <1>2, <1>3, PTL DEF LegacySpec

\* What start-up relies on when it raises counts: in an undercounted store too a
\* state of the stored window with a root count has never been swept.
THEOREM RootedStatesAreWhole == LegacySpec => []RootedIsWhole
BY RepairedRetentionSafe, PTL

\* Start-up only raises root counts, and none of a swept state's.
THEOREM RepairRaises == LegacySpec => RepairOnlyRaises
<1>1. LegacyInit => IInv
  BY InitInv
<1>2. IInv /\ [Next]_vars => IInv'
  BY StepInv
<1>3. ASSUME IInv, Next, pc = "down", NEW k \in Key
      PROVE  /\ rootCount'[k] >= rootCount[k]
             /\ rootCount'[k] > rootCount[k] => k \in intact
  <2>1. Start
    BY <1>3 DEF Next, Work, Seed, PersistBlock, WriteBlock, AdvanceWindow,
                Collect, Crash
  <2>2. rootCount'[k] = RaisedCount(k)
    BY <1>3, <2>1, TipIsLoadable DEF Start
  <2>3. rootCount[k] \in Nat /\ Occ(storedWindow, k) \in Nat
    BY <1>3, OccType DEF IInv, TypeOK
  <2>4. rootCount[k] > 0 => k \in intact \/ k \notin {chain[h] : h \in storedWindow}
    BY <1>3 DEF IInv, DiskInv, RootedIsWhole
  <2>5. k \notin {chain[h] : h \in storedWindow} => Occ(storedWindow, k) = 0
    <3>1. k \notin {chain[h] : h \in storedWindow} => Occurrences(storedWindow, k) = {}
      BY DEF Occurrences
    <3> QED
      BY <3>1, FS_EmptySet DEF Occ
  <2> QED
    BY <2>2, <2>3, <2>4, <2>5 DEF RaisedCount
<1>4. IInv /\ [Next]_vars =>
        [pc = "down" => \A k \in Key :
           /\ rootCount'[k] >= rootCount[k]
           /\ rootCount'[k] > rootCount[k] => k \in intact]_vars
  BY <1>3
<1> QED
  BY <1>1, <1>2, <1>4, PTL DEF LegacySpec, RepairOnlyRaises

----------------------------------------------------------------------------
(* The stored window of a store that was never undercounted *)

\* A part of a window names no root more often than the window does.
LEMMA OccMonotonic ==
    ASSUME NEW S \in SUBSET Heights, NEW T \in SUBSET S, NEW k
    PROVE  Occ(T, k) <= Occ(S, k)
<1>1. T \in SUBSET Heights /\ S \ T \in SUBSET Heights
  OBVIOUS
<1>2. Occ(T, k) \in Nat /\ Occ(S \ T, k) \in Nat /\ Occ(S, k) \in Nat
  BY <1>1, OccType
<1>3. Occ(S, k) = Occ(T, k) + Occ(S \ T, k)
  BY OccSplit
<1> QED
  BY <1>2, <1>3

\* Counts that pay for the stored window are not raised, and all of the
\* window's heights are seeded.
LEMMA PaidWindow ==
    ASSUME IInv, StoredInv
    PROVE  /\ \A k \in Key : RaisedCount(k) = rootCount[k]
           /\ \A h \in storedWindow : rootCount[chain[h]] > 0
           /\ Rooted = storedWindow
<1> USE DEF IInv, StoredInv
<1>1. \A k \in Key : /\ Occ(storedWindow, k) \in Nat
                     /\ rootCount[k] \in Nat
                     /\ rootCount[k] >= Occ(storedWindow, k)
  BY OccType DEF TypeOK
<1>2. \A k \in Key : RaisedCount(k) = rootCount[k]
  BY <1>1 DEF RaisedCount
<1>3. ASSUME NEW h \in storedWindow PROVE rootCount[chain[h]] > 0
  <2>1. chain[h] \in Key
    BY DEF TypeOK
  <2>2. Occ(storedWindow, chain[h]) > 0
    BY OccType DEF TypeOK
  <2> QED
    BY <1>1, <2>1, <2>2
<1> QED
  BY <1>2, <1>3 DEF Rooted

\* A fresh store names no state.
LEMMA InitStored == Init => StoredInv
<1>1. ASSUME Init, NEW k \in Key PROVE Occ(storedWindow, k) = 0
  <2>1. Occurrences(storedWindow, k) = {}
    BY <1>1 DEF Init, FreshDisk, Occurrences
  <2> QED
    BY <2>1, FS_EmptySet DEF Occ
<1> QED
  BY <1>1 DEF Init, FreshDisk, NoProcess, StoredInv

\* A batch stores a window of blocks that are all paid for.
LEMMA WriteBlockStored == IInv /\ StoredInv /\ WriteBlock => StoredInv'
<1> SUFFICES ASSUME IInv, StoredInv, WriteBlock PROVE StoredInv'
  OBVIOUS
<1> USE DEF IInv, WriteBlock
<1> DEFINE pushed == window \cup {indexed}
<1>1. /\ pushed \in SUBSET Heights
      /\ pending = NoDelta
      /\ Backed(pushed)
      /\ storedWindow' = Newest(pushed, limit)
  BY MaxHeightAssumption DEF TypeOK, StageInv, Heights
<1>2. storedWindow' \in SUBSET pushed
  BY <1>1 DEF Newest
<1> HIDE DEF pushed
<1>3. ASSUME NEW k \in Key PROVE rootCount[k] >= Occ(storedWindow', k)
  <2>1. rootCount[k] \in Nat
    BY DEF TypeOK
  <2>2. rootCount[k] >= Occ(pushed, k)
    BY <1>1, <2>1 DEF Backed, FlushedCount, NoDelta
  <2>3. storedWindow' \in SUBSET Heights
    BY <1>1, <1>2
  <2>4. Occ(pushed, k) \in Nat /\ Occ(storedWindow', k) \in Nat
    BY <1>1, <2>3, OccType
  <2>5. Occ(storedWindow', k) <= Occ(pushed, k)
    BY <1>1, <1>2, OccMonotonic
  <2> QED
    BY <2>1, <2>2, <2>4, <2>5
<1>4. \A k \in Key : Occ(storedWindow, k)' = Occ(storedWindow', k)
  BY DEF Occ, Occurrences
<1>5. \A h \in storedWindow' : chain[h] \in intact
  BY <1>1, <1>2 DEF Backed
<1> QED
  BY <1>3, <1>4, <1>5 DEF StoredInv

\* Persisting a block flushes no count below what the stored window needs.
LEMMA PersistBlockStored == IInv /\ StoredInv /\ PersistBlock => StoredInv'
<1> SUFFICES ASSUME IInv, StoredInv, PersistBlock PROVE StoredInv'
  OBVIOUS
<1> USE DEF IInv
<1>1. IInv'
  BY PersistBlockInv
<1>2. /\ pc = "ready" /\ window = storedWindow /\ Backed(window)
      /\ storedWindow' = storedWindow /\ window' = window /\ chain' = chain
  BY DEF PersistBlock, StoredInv, StageInv
<1>3. /\ rootCount' = [k \in Key |->
                         FlushedCount(k) + IF k = chain[indexed] THEN 1 ELSE 0]
      /\ intact' = intact \cup {chain[indexed]}
      /\ pc' = "persisted"
  <2>1. pc' # "bailed"
    BY <1>1 DEF NeverStranded
  <2> QED
    BY <2>1 DEF PersistBlock
<1>4. ASSUME NEW k \in Key PROVE rootCount'[k] >= Occ(storedWindow, k)
  <2>1. FlushedCount(k) \in Int /\ FlushedCount(k) >= Occ(storedWindow, k)
    BY <1>2 DEF Backed, FlushedCount, TypeOK
  <2>2. Occ(storedWindow, k) \in Nat
    BY OccType DEF TypeOK
  <2> QED
    BY <1>3, <2>1, <2>2
<1>5. \A k \in Key : Occ(storedWindow, k)' = Occ(storedWindow, k)
  BY <1>2 DEF Occ, Occurrences
<1> QED
  BY <1>2, <1>3, <1>4, <1>5 DEF StoredInv

\* What the stored window needs is kept by every step.
LEMMA StoredStep == IInv /\ StoredInv /\ [Next]_vars => StoredInv'
<1> SUFFICES ASSUME IInv, StoredInv, [Next]_vars PROVE StoredInv'
  OBVIOUS
<1>1. CASE Start
  <2>1. storedWindow' = storedWindow /\ chain' = chain /\ intact' = intact
    BY <1>1 DEF Start
  <2>2. pc' \in {"repaired", "bailed"} /\ \A k \in Key : rootCount'[k] = rootCount[k]
    BY <1>1, PaidWindow DEF Start
  <2> QED
    BY <2>1, <2>2 DEF StoredInv, Occ, Occurrences
<1>2. CASE Seed
  <2>1. window' = storedWindow
    BY <1>2, PaidWindow DEF Seed
  <2> QED
    BY <1>2, <2>1 DEF Seed, disk, StoredInv, Occ, Occurrences
<1>3. CASE PersistBlock
  BY <1>3, PersistBlockStored
<1>4. CASE WriteBlock
  BY <1>4, WriteBlockStored
<1>5. CASE AdvanceWindow
  <2>1. window' = storedWindow
    BY <1>5 DEF AdvanceWindow, IInv, StageInv
  <2> QED
    BY <1>5, <2>1 DEF AdvanceWindow, disk, StoredInv, Occ, Occurrences
<1>6. CASE Collect
  <2>1. IInv'
    BY <1>6, CollectInv
  <2>2. \A h \in storedWindow : rootCount[chain[h]] > 0
    BY PaidWindow
  <2>3. /\ storedWindow' = storedWindow /\ chain' = chain /\ rootCount' = rootCount
        /\ window' = window /\ pc = "advanced" /\ pc' = "ready"
    BY <1>6 DEF Collect
  <2>4. \A h \in storedWindow' : chain'[h] \in intact'
    BY <2>1, <2>2, <2>3 DEF IInv, DiskInv, RootedIsWhole
  <2> QED
    BY <2>3, <2>4 DEF StoredInv, Occ, Occurrences
<1>7. CASE Crash
  BY <1>7 DEF Crash, disk, StoredInv, Occ, Occurrences
<1>8. CASE UNCHANGED vars
  BY <1>8 DEF vars, StoredInv, Occ, Occurrences
<1> QED
  BY <1>1, <1>2, <1>3, <1>4, <1>5, <1>6, <1>7, <1>8 DEF Next, Work

\* At every moment of every run of a store that began fresh, whatever
\* retentions its builds were started with, each state the stored window names
\* is rooted and whole: a reader that takes a key from it finds the state.
THEOREM WindowLoadable == Spec => []StoredWindowLoadable
<1>1. Init => IInv /\ StoredInv
  BY InitInv, InitStored
<1>2. IInv /\ StoredInv /\ [Next]_vars => (IInv /\ StoredInv)'
  BY StepInv, StoredStep
<1>3. IInv /\ StoredInv => StoredWindowLoadable
  BY PaidWindow DEF StoredWindowLoadable, StoredInv
<1> QED
  BY <1>1, <1>2, <1>3, PTL DEF Spec

\* The n newest of an unbroken run of heights that ends at m are the last n.
LEMMA NewestOfRun ==
    ASSUME NEW m \in Nat, NEW n \in Nat \ {0},
           NEW S, S = {h \in 0 .. m : h >= m - n}
    PROVE  Newest(S, n) = {h \in 0 .. m : h >= m + 1 - n}
<1>1. ASSUME NEW h \in S PROVE Cardinality({g \in S : g > h}) = m - h
  <2>1. {g \in S : g > h} = (h + 1) .. m
    OBVIOUS
  <2>2. Cardinality((h + 1) .. m) = m - h
    <3>1. h + 1 \in Int /\ m \in Int
      OBVIOUS
    <3>2. Cardinality((h + 1) .. m) = IF h + 1 > m THEN 0 ELSE m - (h + 1) + 1
      BY <3>1, FS_Interval
    <3> QED
      BY <3>2
  <2> QED
    BY <2>1, <2>2
<1>2. Newest(S, n) = {h \in S : m - h < n}
  BY <1>1 DEF Newest
<1> QED
  BY <1>2

\* Nothing is indexed into a fresh store.
LEMMA InitExact == Init => StoredWindowExact
  BY DEF Init, FreshDisk, StoredWindowExact

\* A block takes its place in the stored window and the oldest one leaves it.
LEMMA ExactStep ==
    ASSUME \A a, b \in Retentions : a = b,
           StoredWindowExact, IInv, StoredInv, [Next]_vars
    PROVE  StoredWindowExact'
<1>1. limit' = limit
  BY StepInv DEF IInv, TypeOK
<1>2. CASE WriteBlock
  <2>1. /\ pc = "persisted" /\ indexed' = indexed + 1
        /\ storedWindow' = Newest(storedWindow \cup {indexed}, limit)
    BY <1>2 DEF WriteBlock, StoredInv
  <2>2. indexed \in Nat /\ limit \in Nat \ {0}
    BY RetentionsAssumption DEF IInv, TypeOK
  <2>3. storedWindow \cup {indexed} = {h \in 0 .. indexed : h >= indexed - limit}
    BY <2>2 DEF StoredWindowExact
  <2>4. storedWindow' = {h \in 0 .. indexed : h >= indexed + 1 - limit}
    BY <2>1, <2>2, <2>3, NewestOfRun
  <2> QED
    BY <1>1, <2>1, <2>2, <2>4 DEF StoredWindowExact
<1>3. CASE ~WriteBlock
  <2>1. storedWindow' = storedWindow /\ indexed' = indexed
    BY <1>3 DEF Next, Work, Start, Seed, PersistBlock, AdvanceWindow,
                Collect, Crash, disk, vars
  <2> QED
    BY <1>1, <2>1 DEF StoredWindowExact
<1> QED
  BY <1>2, <1>3

\* As long as every build has the same retention, the stored window is exactly
\* the newest blocks: no death and no restart loses a height or brings one back.
THEOREM WindowExact ==
    ASSUME \A a, b \in Retentions : a = b
    PROVE  Spec => []StoredWindowExact
<1> DEFINE Exact == StoredWindowExact /\ IInv /\ StoredInv
<1>1. Init => Exact
  BY InitInv, InitStored, InitExact
<1>2. Exact /\ [Next]_vars => Exact'
  BY ExactStep, StepInv, StoredStep
<1>3. Exact => StoredWindowExact
  OBVIOUS
<1> HIDE DEF Exact
<1> QED
  BY <1>1, <1>2, <1>3, PTL DEF Spec

----------------------------------------------------------------------------
(* The root counts that deaths leave behind *)

\* A key is referenced once for each number up to its count.
LEMMA ReferencesAre ==
    ASSUME NEW c, NEW k, NEW i
    PROVE  <<k, i>> \in References(c) <=> k \in Key /\ i \in 1 .. c[k]
  BY DEF References

\* One more for one key is one more reference.
LEMMA OneMore ==
    ASSUME NEW c \in [Key -> Nat], NEW k \in Key, IsFiniteSet(References(c)),
           NEW d, d = [c EXCEPT ![k] = @ + 1]
    PROVE  /\ IsFiniteSet(References(d))
           /\ Cardinality(References(d)) = Cardinality(References(c)) + 1
<1> DEFINE new == <<k, c[k] + 1>>
<1>1. new \notin References(c)
  BY ReferencesAre
<1>2. References(d) = References(c) \cup {new}
  <2>1. 1 .. d[k] = (1 .. c[k]) \cup {c[k] + 1}
    BY Z3
  <2>2. \A j \in Key : j # k => d[j] = c[j]
    OBVIOUS
  <2>3. ASSUME NEW p \in References(d) PROVE p \in References(c) \cup {new}
    <3>1. PICK j \in Key : \E n \in 1 .. d[j] : p = <<j, n>>
      BY DEF References
    <3>2. PICK n \in 1 .. d[j] : p = <<j, n>>
      BY <3>1
    <3>3. CASE j = k /\ n = c[k] + 1
      BY <3>2, <3>3
    <3>4. CASE ~(j = k /\ n = c[k] + 1)
      <4>1. n \in 1 .. c[j]
        BY <2>1, <2>2, <3>4
      <4> QED
        BY <3>2, <4>1, ReferencesAre
    <3> QED
      BY <3>3, <3>4
  <2>4. ASSUME NEW p \in References(c) PROVE p \in References(d)
    <3>1. PICK j \in Key : \E n \in 1 .. c[j] : p = <<j, n>>
      BY DEF References
    <3>2. PICK n \in 1 .. c[j] : p = <<j, n>>
      BY <3>1
    <3>3. n \in 1 .. d[j]
      BY <2>1, <2>2
    <3> QED
      BY <3>2, <3>3, ReferencesAre
  <2>5. new \in References(d)
    BY <2>1, ReferencesAre
  <2> HIDE DEF new
  <2>6. \A p : p \in References(d) <=> p \in References(c) \cup {new}
    BY <2>3, <2>4, <2>5
  <2> QED
    BY <2>6
<1> HIDE DEF new
<1>3. /\ IsFiniteSet(References(c) \cup {new})
      /\ Cardinality(References(c) \cup {new}) = Cardinality(References(c)) + 1
  BY <1>1, FS_AddElement
<1> QED
  BY <1>2, <1>3

\* Lower counts reference no more.
LEMMA FewerReferences ==
    ASSUME NEW c \in [Key -> Nat], NEW d \in [Key -> Nat],
           \A k \in Key : c[k] <= d[k], IsFiniteSet(References(d))
    PROVE  IsFiniteSet(References(c))
<1>1. ASSUME NEW p \in References(c) PROVE p \in References(d)
  <2>1. PICK k \in Key : \E n \in 1 .. c[k] : p = <<k, n>>
    BY DEF References
  <2>2. PICK n \in 1 .. c[k] : p = <<k, n>>
    BY <2>1
  <2>3. n \in 1 .. d[k]
    OBVIOUS
  <2> QED
    BY <2>2, <2>3, ReferencesAre
<1> QED
  BY <1>1, FS_Subset

\* A fresh store has none.
LEMMA InitOrphan == Init => OrphanInv
<1> SUFFICES ASSUME Init PROVE OrphanInv
  OBVIOUS
<1>1. References(rootCount) = {}
  <2>1. \A k \in Key : 1 .. rootCount[k] = {}
    BY DEF Init, FreshDisk
  <2> QED
    BY <2>1 DEF References
<1>2. storedWindow = {} /\ crashes = 0 /\ pc = "down"
  BY DEF Init, FreshDisk, NoProcess
<1> QED
  BY <1>1, <1>2, FS_EmptySet DEF OrphanInv

\* What the invariants say of sizes.
LEMMA OrphanTypes ==
    ASSUME IInv, OrphanInv
    PROVE  /\ Cardinality(References(rootCount)) \in Nat
           /\ Cardinality(storedWindow) \in Nat /\ IsFiniteSet(storedWindow)
           /\ Cardinality(window) \in Nat /\ IsFiniteSet(window)
           /\ crashes \in Nat
<1>1. IsFiniteSet(storedWindow) /\ IsFiniteSet(window) /\ crashes \in Nat
  BY OccType DEF IInv, TypeOK
<1>2. IsFiniteSet(References(rootCount))
  BY DEF OrphanInv
<1> QED
  BY <1>1, <1>2, FS_CardinalityType

\* What flushing would leave is counted by natural numbers too.
LEMMA FlushedTypes ==
    ASSUME IInv, OrphanInv
    PROVE  LET counts == [k \in Key |-> FlushedCount(k)]
           IN  /\ counts \in [Key -> Nat]
               /\ IsFiniteSet(References(counts))
               /\ Cardinality(References(counts)) \in Nat
<1> DEFINE counts == [k \in Key |-> FlushedCount(k)]
<1>1. \A k \in Key : FlushedCount(k) \in Nat /\ FlushedCount(k) <= rootCount[k]
  BY InvNoUnderflow DEF NoUnderflow, FlushedCount, IInv, TypeOK
<1>2. \A k \in Key : counts[k] = FlushedCount(k)
  OBVIOUS
<1>3. rootCount \in [Key -> Nat] /\ counts \in [Key -> Nat]
  BY <1>1 DEF IInv, TypeOK
<1> HIDE DEF counts
<1>4. IsFiniteSet(References(counts))
  BY <1>1, <1>2, <1>3, FewerReferences DEF OrphanInv
<1>5. Cardinality(References(counts)) \in Nat
  BY <1>4, FS_CardinalityType
<1> QED
  BY <1>3, <1>4, <1>5 DEF counts

\* While a block is in the index and not yet in the window, the window is the
\* stored one with the block it lets go of and without the new one.
LEMMA WrittenWindow ==
    ASSUME IInv, StoredWindowExact, OrphanInv, pc = "written"
    PROVE  LET pushed == window \cup {indexed - 1}
               oldest == indexed - 1 - limit
           IN  /\ Cardinality(pushed) = Cardinality(window) + 1
               /\ oldest >= 0 => /\ oldest \in pushed
                                 /\ storedWindow = pushed \ {oldest}
                                 /\ Cardinality(pushed) = Cardinality(storedWindow) + 1
               /\ oldest < 0 => storedWindow = pushed
<1> DEFINE pushed == window \cup {indexed - 1}
           oldest == indexed - 1 - limit
<1>1. /\ window = {h \in 0 .. indexed - 2 : h >= indexed - 1 - limit}
      /\ storedWindow = {h \in 0 .. indexed - 1 : h >= indexed - limit}
      /\ indexed \in Nat /\ indexed > 0 /\ limit \in Nat \ {0}
  BY RetentionsAssumption DEF OrphanInv, StoredWindowExact, IInv, TypeOK, StageInv
<1>2. IsFiniteSet(window) /\ indexed - 1 \notin window
  BY <1>1, OrphanTypes
<1>3. Cardinality(pushed) = Cardinality(window) + 1 /\ IsFiniteSet(pushed)
  BY <1>2, FS_AddElement
<1>4. pushed = {h \in 0 .. indexed - 1 : h >= oldest}
  BY <1>1
<1>5. ASSUME oldest >= 0
      PROVE  oldest \in pushed /\ storedWindow = pushed \ {oldest}
  BY <1>1, <1>4, <1>5
<1>6. ASSUME oldest < 0 PROVE storedWindow = pushed
  BY <1>1, <1>4, <1>6
<1>7. ASSUME oldest >= 0 PROVE Cardinality(pushed) = Cardinality(storedWindow) + 1
  <2> HIDE DEF pushed, oldest
  <2>1. Cardinality(pushed \ {oldest}) = Cardinality(pushed) - 1
    BY <1>3, <1>5, <1>7, FS_RemoveElement
  <2>2. Cardinality(pushed) \in Nat
    BY <1>3, FS_CardinalityType
  <2> QED
    BY <1>5, <1>7, <2>1, <2>2
<1> QED
  BY <1>3, <1>5, <1>6, <1>7

\* The bound follows, a window being stored with the block it will let go of
\* still counted.
LEMMA OrphanBound ==
    ASSUME IInv, StoredWindowExact, OrphanInv
    PROVE  OrphanRootsBounded
<1> USE OrphanTypes
<1>1. CASE pc \in {"down", "repaired", "persisted"}
  BY <1>1 DEF OrphanInv, OrphanRootsBounded
<1>2. CASE pc \in {"ready", "advanced"}
  <2> DEFINE flushed == References([k \in Key |-> FlushedCount(k)])
  <2>1. /\ Cardinality(flushed) <= Cardinality(storedWindow) + crashes
        /\ Cardinality(References(rootCount)) <= Cardinality(flushed) + 1
    BY <1>2 DEF OrphanInv
  <2>2. Cardinality(flushed) \in Nat
    BY FlushedTypes
  <2> HIDE DEF flushed
  <2> QED
    BY <1>2, <2>1, <2>2 DEF OrphanRootsBounded
<1>3. CASE pc = "written"
  <2>1. Cardinality(References(rootCount)) <= Cardinality(window) + 1 + crashes
    BY <1>3 DEF OrphanInv
  <2>2. Cardinality(window) + 1 <= Cardinality(storedWindow) + 1
    <3> DEFINE pushed == window \cup {indexed - 1}
    <3>1. Cardinality(pushed) = Cardinality(window) + 1
      BY <1>3, WrittenWindow
    <3>2. indexed - 1 - limit >= 0 => Cardinality(pushed) = Cardinality(storedWindow) + 1
      BY <1>3, WrittenWindow
    <3>3. indexed - 1 - limit < 0 => Cardinality(pushed) = Cardinality(storedWindow)
      BY <1>3, WrittenWindow
    <3>4. limit \in Nat /\ indexed \in Nat
      BY RetentionsAssumption DEF IInv, TypeOK
    <3> QED
      BY <3>1, <3>2, <3>3, <3>4
  <2> QED
    BY <1>3, <2>1, <2>2 DEF OrphanRootsBounded
<1> QED
  BY <1>1, <1>2, <1>3 DEF IInv, TypeOK, NeverStranded

\* A process death leaves as many counts as there are, with one more to show
\* for them.
LEMMA CrashOrphan ==
    ASSUME IInv, StoredInv, StoredWindowExact, OrphanInv, Crash
    PROVE  OrphanInv'
<1>1. OrphanRootsBounded
  BY OrphanBound
<1> QED
  BY <1>1, OrphanTypes DEF Crash, disk, OrphanInv, OrphanRootsBounded

\* A new state adds one count to what the flush leaves.
LEMMA PersistBlockOrphan ==
    ASSUME IInv, StoredInv, StoredWindowExact, OrphanInv, PersistBlock
    PROVE  OrphanInv'
<1> DEFINE counts == [k \in Key |-> FlushedCount(k)]
           new == chain[indexed]
<1>1. /\ pc = "ready" /\ storedWindow' = storedWindow /\ crashes' = crashes
      /\ indexed < MaxHeight
  BY DEF PersistBlock
<1>2. /\ pc' = "persisted"
      /\ rootCount' = [k \in Key |-> FlushedCount(k) + IF k = new THEN 1 ELSE 0]
  <2>1. pc' # "bailed"
    BY PersistBlockInv DEF IInv, NeverStranded
  <2> QED
    BY <2>1 DEF PersistBlock
<1>3. new \in Key
  BY <1>1, MaxHeightAssumption DEF IInv, TypeOK, Heights
<1>4. counts \in [Key -> Nat] /\ IsFiniteSet(References(counts))
  BY FlushedTypes
<1>5. rootCount' = [counts EXCEPT ![new] = @ + 1]
  <2>1. \A k \in Key : rootCount'[k] = IF k = new THEN counts[k] + 1 ELSE counts[k]
    BY <1>2, <1>4
  <2> HIDE DEF counts
  <2> QED
    BY <1>2, <1>3, <1>4, <2>1
<1>6. /\ IsFiniteSet(References(rootCount'))
      /\ Cardinality(References(rootCount')) = Cardinality(References(counts)) + 1
  <2> HIDE DEF counts, new
  <2> QED
    BY <1>3, <1>4, <1>5, OneMore
<1>7. Cardinality(References(counts)) <= Cardinality(storedWindow) + crashes
  BY <1>1 DEF OrphanInv
<1>8. Cardinality(References(counts)) \in Nat
  BY FlushedTypes
<1> HIDE DEF counts, new
<1>9. References(rootCount)' = References(rootCount')
  BY DEF References
<1> QED
  BY <1>1, <1>2, <1>6, <1>7, <1>8, <1>9, OrphanTypes DEF OrphanInv

\* The window that is stored was the window so far, and lets go of its oldest
\* block once it is as long as the retention.
LEMMA WriteBlockOrphan ==
    ASSUME IInv, StoredInv, StoredWindowExact, OrphanInv, WriteBlock
    PROVE  OrphanInv'
<1>1. /\ pc = "persisted" /\ pc' = "written" /\ window' = window
      /\ indexed' = indexed + 1 /\ rootCount' = rootCount /\ limit' = limit
      /\ crashes' = crashes
  BY DEF WriteBlock
<1>2. window = storedWindow
  BY <1>1 DEF StoredInv
<1>3. indexed \in Nat
  BY DEF IInv, TypeOK
<1>4. window' = {h \in 0 .. indexed' - 2 : h >= indexed' - 1 - limit}
  BY <1>1, <1>2, <1>3 DEF StoredWindowExact
<1>5. References(rootCount)' = References(rootCount)
  BY <1>1 DEF References
<1>6. Cardinality(References(rootCount)) <= Cardinality(window) + 1 + crashes
  BY <1>1, <1>2 DEF OrphanInv
<1> QED
  BY <1>1, <1>4, <1>5, <1>6 DEF OrphanInv

\* The unpersist of the block that leaves the window, if one does, is all
\* there is to flush.
LEMMA AdvanceWindowOrphan ==
    ASSUME IInv, StoredInv, StoredWindowExact, OrphanInv, AdvanceWindow
    PROVE  OrphanInv'
<1> DEFINE pushed == window \cup {indexed - 1}
           oldest == indexed - 1 - limit
           flushed == [k \in Key |-> rootCount[k] - Occ(pushed \ storedWindow, k)]
<1>1. /\ pc = "written" /\ pc' = "advanced" /\ pending = NoDelta
      /\ storedWindow' = storedWindow /\ rootCount' = rootCount
      /\ crashes' = crashes /\ chain' = chain
      /\ pending' = [k \in Key |-> pending[k] - Occ(pushed \ storedWindow, k)]
  BY DEF AdvanceWindow, disk, IInv, StageInv
<1>2. pushed \in SUBSET Heights /\ limit \in Nat \ {0} /\ indexed \in Nat
  BY <1>1, RetentionsAssumption, MaxHeightAssumption DEF IInv, TypeOK, StageInv, Heights
<1>3. \A k \in Key : /\ FlushedCount(k)' = flushed[k]
                     /\ Occ(pushed \ storedWindow, k) \in Nat
  <2>1. \A k \in Key : Occ(pushed \ storedWindow, k) \in Nat
    BY <1>2, OccType
  <2> QED
    BY <1>1, <2>1 DEF FlushedCount, NoDelta, IInv, TypeOK
<1>4. /\ rootCount \in [Key -> Nat]
      /\ \A k \in Key : flushed[k] = rootCount[k] - Occ(pushed \ storedWindow, k)
      /\ flushed = [k \in Key |-> flushed[k]]
  BY DEF IInv, TypeOK
<1>5. /\ Cardinality(pushed) = Cardinality(window) + 1
      /\ Cardinality(References(rootCount)) <= Cardinality(pushed) + crashes
  BY <1>1, WrittenWindow, OrphanTypes DEF OrphanInv
<1>6. /\ IsFiniteSet(References(rootCount))
      /\ Cardinality(References(rootCount)) \in Nat
      /\ Cardinality(storedWindow) \in Nat /\ crashes \in Nat
  BY OrphanTypes DEF OrphanInv
<1>7. /\ Cardinality(References(flushed)) <= Cardinality(storedWindow) + crashes
      /\ Cardinality(References(rootCount)) <= Cardinality(References(flushed)) + 1
  <2>1. CASE oldest < 0
    <3>1. storedWindow = pushed
      BY <1>1, <2>1, WrittenWindow
    <3>2. \A k \in Key : Occ(pushed \ storedWindow, k) = 0
      <4>1. \A k \in Key : Occurrences(pushed \ storedWindow, k) = {}
        BY <3>1 DEF Occurrences
      <4> QED
        BY <4>1, FS_EmptySet DEF Occ
    <3>3. flushed = rootCount
      <4>1. \A k \in Key : flushed[k] = rootCount[k]
        BY <3>2, <1>4
      <4> QED
        BY <4>1, <1>4
    <3> QED
      BY <3>1, <3>3, <1>5, <1>6
  <2>2. CASE oldest >= 0
    <3>1. /\ oldest \in pushed /\ storedWindow = pushed \ {oldest}
          /\ Cardinality(pushed) = Cardinality(storedWindow) + 1
      BY <1>1, <2>2, WrittenWindow
    <3>2. pushed \ storedWindow = {} \cup {oldest}
      BY <3>1
    <3>3. ASSUME NEW k \in Key
          PROVE  Occ(pushed \ storedWindow, k) = IF chain[oldest] = k THEN 1 ELSE 0
      <4>1. Occ({} \cup {oldest}, k) = Occ({}, k) + IF chain[oldest] = k THEN 1 ELSE 0
        BY <3>1, <1>2, OccPush
      <4>2. Occ({}, k) = 0
        <5>1. Occurrences({}, k) = {}
          BY DEF Occurrences
        <5> QED
          BY <5>1, FS_EmptySet DEF Occ
      <4> QED
        BY <3>2, <4>1, <4>2
    <3>4. chain[oldest] \in Key
      BY <3>1, <1>2 DEF IInv, TypeOK
    <3>5. flushed \in [Key -> Nat]
      <4>1. IInv'
        BY AdvanceWindowInv
      <4>2. NoUnderflow'
        BY <4>1, InvNoUnderflow, PTL
      <4> HIDE DEF flushed, pushed
      <4>3. \A k \in Key : flushed[k] \in Nat
        <5> TAKE k \in Key
        <5>1. FlushedCount(k)' >= 0
          BY <4>2 DEF NoUnderflow
        <5>2. rootCount[k] \in Nat /\ Occ(pushed \ storedWindow, k) \in Nat
          BY <1>3, <1>4
        <5> QED
          BY <1>3, <1>4, <5>1, <5>2
      <4> QED
        BY <4>3, <1>4
    <3>6. rootCount = [flushed EXCEPT ![chain[oldest]] = @ + 1]
      <4>1. \A k \in Key : rootCount[k] = IF k = chain[oldest] THEN flushed[k] + 1
                                          ELSE flushed[k]
        <5> HIDE DEF flushed, pushed, oldest
        <5> TAKE k \in Key
        <5>1. rootCount[k] \in Nat /\ flushed[k] = rootCount[k] - Occ(pushed \ storedWindow, k)
          BY <1>4
        <5>2. Occ(pushed \ storedWindow, k) = IF chain[oldest] = k THEN 1 ELSE 0
          BY <3>3
        <5> QED
          BY <5>1, <5>2
      <4> HIDE DEF flushed, oldest
      <4> QED
        BY <4>1, <1>4, <3>4, <3>5
    <3>7. IsFiniteSet(References(flushed))
      <4>1. \A k \in Key : flushed[k] \in Nat /\ flushed[k] <= rootCount[k]
        <5> HIDE DEF flushed, pushed, oldest
        <5> QED
          BY <1>3, <1>4, <3>5
      <4> HIDE DEF flushed
      <4> QED
        BY <4>1, <1>6, <1>4, <3>5, FewerReferences
    <3>8. Cardinality(References(rootCount)) = Cardinality(References(flushed)) + 1
      <4> HIDE DEF flushed, oldest
      <4> QED
        BY <3>4, <3>5, <3>6, <3>7, OneMore
    <3>9. Cardinality(References(flushed)) \in Nat
      BY <3>7, FS_CardinalityType
    <3> HIDE DEF flushed, pushed
    <3> QED
      BY <3>1, <3>8, <3>9, <1>5, <1>6
  <2> QED
    BY <1>2, <2>1, <2>2
<1>8. [k \in Key |-> FlushedCount(k)]' = flushed
  BY <1>3
<1>9. References([k \in Key |-> FlushedCount(k)])' = References(flushed)
  BY <1>8 DEF References
<1>10. References(rootCount)' = References(rootCount)
  BY <1>1 DEF References
<1> HIDE DEF flushed
<1> QED
  BY <1>1, <1>6, <1>7, <1>9, <1>10 DEF OrphanInv

\* The counts that deaths leave behind are never more than the deaths.
LEMMA OrphanStep ==
    ASSUME IInv, StoredInv, StoredWindowExact, OrphanInv, [Next]_vars
    PROVE  OrphanInv'
<1>1. CASE Start
  <2>1. \A k \in Key : rootCount'[k] = rootCount[k]
    BY <1>1, PaidWindow DEF Start
  <2>2. References(rootCount)' = References(rootCount)
    BY <2>1 DEF References
  <2>3. /\ pc = "down" /\ pc' \in {"repaired", "bailed"}
        /\ storedWindow' = storedWindow /\ crashes' = crashes
    BY <1>1 DEF Start
  <2> QED
    BY <2>2, <2>3 DEF OrphanInv
<1>2. CASE Seed
  <2>1. /\ pc = "repaired" /\ pc' \in {"ready", "bailed"} /\ storedWindow' = storedWindow
        /\ crashes' = crashes /\ rootCount' = rootCount /\ pending' = pending
    BY <1>2 DEF Seed, disk
  <2>2. [k \in Key |-> FlushedCount(k)] = rootCount
    BY <2>1 DEF StageInv, FlushedCount, NoDelta, IInv, TypeOK
  <2>3. [k \in Key |-> FlushedCount(k)]' = rootCount
    BY <2>1, <2>2 DEF FlushedCount
  <2>4. References([k \in Key |-> FlushedCount(k)])' = References(rootCount)
    BY <2>3 DEF References
  <2>5. References(rootCount)' = References(rootCount)
    BY <2>1 DEF References
  <2> QED
    BY <2>1, <2>4, <2>5, OrphanTypes DEF OrphanInv
<1>3. CASE PersistBlock
  BY <1>3, PersistBlockOrphan
<1>4. CASE WriteBlock
  BY <1>4, WriteBlockOrphan
<1>5. CASE AdvanceWindow
  BY <1>5, AdvanceWindowOrphan
<1>6. CASE Collect
  <2>1. /\ pc = "advanced" /\ pc' = "ready" /\ storedWindow' = storedWindow
        /\ crashes' = crashes /\ rootCount' = rootCount /\ pending' = pending
    BY <1>6 DEF Collect
  <2>2. /\ References(rootCount)' = References(rootCount)
        /\ References([k \in Key |-> FlushedCount(k)])'
             = References([k \in Key |-> FlushedCount(k)])
    BY <2>1 DEF References, FlushedCount
  <2> QED
    BY <2>1, <2>2 DEF OrphanInv
<1>7. CASE Crash
  BY <1>7, CrashOrphan
<1>8. CASE UNCHANGED vars
  BY <1>8 DEF vars, OrphanInv, References, FlushedCount
<1> QED
  BY <1>1, <1>2, <1>3, <1>4, <1>5, <1>6, <1>7, <1>8 DEF Next, Work

\* Each process death leaves at most one root count behind, if all builds have
\* one retention: whatever the deaths interrupted, the arena has no more roots
\* than the stored window has blocks, but for one per death and one for the
\* block under way.
THEOREM OrphansBounded ==
    ASSUME \A a, b \in Retentions : a = b
    PROVE  Spec => []OrphanRootsBounded
<1> DEFINE Known == StoredWindowExact /\ IInv /\ StoredInv /\ OrphanInv
<1>1. Init => Known
  BY InitInv, InitStored, InitOrphan, InitExact
<1>2. Known /\ [Next]_vars => Known'
  BY ExactStep, StepInv, StoredStep, OrphanStep
<1>3. Known => OrphanRootsBounded
  BY OrphanBound
<1> HIDE DEF Known
<1> QED
  BY <1>1, <1>2, <1>3, PTL DEF Spec

=============================================================================
