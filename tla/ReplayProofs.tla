---------------------------- MODULE ReplayProofs ----------------------------
(***************************************************************************)
(* Proofs, for every chain and every number of process deaths, that the    *)
(* replay arrives at the node's ledger state after every block, stops only *)
(* where the chain changes the ledger version, that the index agrees with  *)
(* a ledger it never reads, and that it holds every log of a contract,     *)
(* whatever event of whatever layout.                                      *)
(***************************************************************************)
EXTENDS Replay, FiniteSetTheorems, SequenceTheorems, WellFoundedInduction, TLAPS

(* What is computed along a block or a chain: a function that is defined by  *)
(* recursion does what its definition says.                                  *)

\* Induction, of a set: one with 0 and the successors of its numbers has all.
LEMMA AllNumbers ==
    ASSUME NEW T \in SUBSET Nat, 0 \in T, \A n \in T : n + 1 \in T
    PROVE  T = Nat
<1> SUFFICES ASSUME Nat \ T # {} PROVE FALSE
  OBVIOUS
<1> DEFINE R == OpToRel(<, Nat)
<1>1. PICK x \in Nat \ T : \A y \in Nat \ T : ~(<<y, x>> \in R)
  <2>1. Nat \ T \subseteq Nat
    OBVIOUS
  <2> QED
    BY <2>1, NatLessThanWellFounded, WFMin
<1>2. x \in Nat \ {0} /\ x - 1 \in Nat /\ x - 1 < x /\ (x - 1) + 1 = x
  OBVIOUS
<1>3. x - 1 \in T
  BY <1>1, <1>2 DEF OpToRel
<1> QED
  BY <1>2, <1>3

\* The states after each transaction of a block.
LEMMA ReplayedIs ==
    ASSUME NEW s, NEW h, Len(Block(h).txs) \in Nat
    PROVE  LET r == Replayed(s, h)
           IN  /\ r[0] = s
               /\ \A i \in 1 .. Len(Block(h).txs) :
                     r[i] = LedgerApply(r[i - 1], Block(h).txs[i],
                                        Block(h).time, TimeBefore(h))
<1> DEFINE n == Len(Block(h).txs)
           Apply1(t, i) == LedgerApply(t, Block(h).txs[i], Block(h).time, TimeBefore(h))
           Goes(g, m) == g = [i \in 0 .. m |-> IF i = 0 THEN s ELSE Apply1(g[i - 1], i)]
           T == {m \in Nat : \E g : Goes(g, m)}
<1> HIDE DEF Apply1
<1>1. 0 \in T
  <2>1. Goes([i \in 0 .. 0 |-> s], 0)
    OBVIOUS
  <2> QED
    BY <2>1
<1>2. ASSUME NEW m \in T PROVE m + 1 \in T
  <2>1. PICK g : Goes(g, m)
    OBVIOUS
  <2> DEFINE k == [i \in 0 .. m + 1 |-> IF i <= m THEN g[i] ELSE Apply1(g[m], m + 1)]
  <2>2. ASSUME NEW i \in 0 .. m + 1
        PROVE  k[i] = IF i = 0 THEN s ELSE Apply1(k[i - 1], i)
    <3>1. CASE i <= m
      <4>1. i \in 0 .. m /\ k[i] = g[i] /\ (i # 0 => k[i - 1] = g[i - 1])
        BY <3>1
      <4> QED
        BY <2>1, <4>1
    <3>2. CASE i = m + 1
      <4>1. i # 0 /\ i - 1 = m /\ k[i - 1] = g[m]
        BY <3>2
      <4> QED
        BY <3>2, <4>1
    <3> QED
      BY <3>1, <3>2
  <2>3. Goes(k, m + 1)
    BY <2>2
  <2>4. m + 1 \in Nat
    OBVIOUS
  <2> QED
    BY <2>3, <2>4
<1>3. T = Nat
  <2> HIDE DEF T
  <2>1. T \in SUBSET Nat
    BY DEF T
  <2> QED
    BY <1>1, <1>2, <2>1, AllNumbers
<1>4. \E g : Goes(g, n)
  BY <1>3
<1>5. Goes(Replayed(s, h), n)
  <2>1. Replayed(s, h) = CHOOSE g : Goes(g, n)
    BY DEF Replayed, Apply1
  <2> HIDE DEF Goes
  <2> QED
    BY <1>4, <2>1
<1> DEFINE r == Replayed(s, h)
<1> HIDE DEF r
<1>6. Goes(r, n)
  BY <1>5 DEF r
<1>7. n \in Nat
  OBVIOUS
<1> HIDE DEF n
<1>8. r[0] = s /\ \A i \in 1 .. n : r[i] = Apply1(r[i - 1], i)
  <2>1. \A i \in 0 .. n : r[i] = IF i = 0 THEN s ELSE Apply1(r[i - 1], i)
    BY <1>6
  <2>2. \A i \in 1 .. n : i \in 0 .. n /\ i # 0
    BY <1>7
  <2>3. 0 \in 0 .. n
    BY <1>7
  <2> QED
    BY <2>1, <2>2, <2>3
<1> QED
  BY <1>8 DEF r, n, Apply1

\* What each transaction adds to the fullness.
LEMMA CountedIs ==
    ASSUME NEW txs, Len(txs) \in Nat
    PROVE  LET r == Counted(txs)
           IN  /\ r[0] = 0
               /\ \A i \in 1 .. Len(txs) :
                     r[i] = IF Failed(txs[i]) THEN r[i - 1] ELSE r[i - 1] + txs[i].cost
<1> DEFINE n == Len(txs)
           Add(t, i) == IF Failed(txs[i]) THEN t ELSE t + txs[i].cost
           Goes(g, m) == g = [i \in 0 .. m |-> IF i = 0 THEN 0 ELSE Add(g[i - 1], i)]
           T == {m \in Nat : \E g : Goes(g, m)}
<1> HIDE DEF Add
<1>1. 0 \in T
  <2>1. Goes([i \in 0 .. 0 |-> 0], 0)
    OBVIOUS
  <2> QED
    BY <2>1
<1>2. ASSUME NEW m \in T PROVE m + 1 \in T
  <2>1. PICK g : Goes(g, m)
    OBVIOUS
  <2> DEFINE k == [i \in 0 .. m + 1 |-> IF i <= m THEN g[i] ELSE Add(g[m], m + 1)]
  <2>2. ASSUME NEW i \in 0 .. m + 1
        PROVE  k[i] = IF i = 0 THEN 0 ELSE Add(k[i - 1], i)
    <3>1. CASE i <= m
      <4>1. i \in 0 .. m /\ k[i] = g[i] /\ (i # 0 => k[i - 1] = g[i - 1])
        BY <3>1
      <4> QED
        BY <2>1, <4>1
    <3>2. CASE i = m + 1
      <4>1. i # 0 /\ i - 1 = m /\ k[i - 1] = g[m]
        BY <3>2
      <4> QED
        BY <3>2, <4>1
    <3> QED
      BY <3>1, <3>2
  <2>3. Goes(k, m + 1)
    BY <2>2
  <2>4. m + 1 \in Nat
    OBVIOUS
  <2> QED
    BY <2>3, <2>4
<1>3. T = Nat
  <2> HIDE DEF T
  <2>1. T \in SUBSET Nat
    BY DEF T
  <2> QED
    BY <1>1, <1>2, <2>1, AllNumbers
<1>4. \E g : Goes(g, n)
  BY <1>3
<1>5. Goes(Counted(txs), n)
  <2>1. Counted(txs) = CHOOSE g : Goes(g, n)
    BY DEF Counted, Add
  <2> HIDE DEF Goes
  <2> QED
    BY <1>4, <2>1
<1> DEFINE r == Counted(txs)
<1> HIDE DEF r
<1>6. Goes(r, n)
  BY <1>5 DEF r
<1>7. n \in Nat
  OBVIOUS
<1> HIDE DEF n
<1>8. r[0] = 0 /\ \A i \in 1 .. n : r[i] = Add(r[i - 1], i)
  <2>1. \A i \in 0 .. n : r[i] = IF i = 0 THEN 0 ELSE Add(r[i - 1], i)
    BY <1>6
  <2>2. \A i \in 1 .. n : i \in 0 .. n /\ i # 0
    BY <1>7
  <2>3. 0 \in 0 .. n
    BY <1>7
  <2> QED
    BY <2>1, <2>2, <2>3
<1> QED
  BY <1>8 DEF r, n, Add

\* The node's states after each block.
LEMMA NodeIs ==
    ASSUME Len(Blocks) \in Nat, Len(Blocks) > 0
    PROVE  /\ Node[0] = NodeBlock(Before0, 0)
           /\ \A h \in 1 .. Len(Blocks) - 1 :
                 Node[h] = NodeBlock([Node[h - 1] EXCEPT !.version = Block(h).version], h)
<1> DEFINE n == Len(Blocks) - 1
           Add(t, i) == NodeBlock([t EXCEPT !.version = Block(i).version], i)
           Goes(g, m) == g = [i \in 0 .. m |-> IF i = 0 THEN NodeBlock(Before0, 0) ELSE Add(g[i - 1], i)]
           T == {m \in Nat : \E g : Goes(g, m)}
<1> HIDE DEF Add
<1>1. 0 \in T
  <2>1. Goes([i \in 0 .. 0 |-> NodeBlock(Before0, 0)], 0)
    OBVIOUS
  <2> QED
    BY <2>1
<1>2. ASSUME NEW m \in T PROVE m + 1 \in T
  <2>1. PICK g : Goes(g, m)
    OBVIOUS
  <2> DEFINE k == [i \in 0 .. m + 1 |-> IF i <= m THEN g[i] ELSE Add(g[m], m + 1)]
  <2>2. ASSUME NEW i \in 0 .. m + 1
        PROVE  k[i] = IF i = 0 THEN NodeBlock(Before0, 0) ELSE Add(k[i - 1], i)
    <3>1. CASE i <= m
      <4>1. i \in 0 .. m /\ k[i] = g[i] /\ (i # 0 => k[i - 1] = g[i - 1])
        BY <3>1
      <4> QED
        BY <2>1, <4>1
    <3>2. CASE i = m + 1
      <4>1. i # 0 /\ i - 1 = m /\ k[i - 1] = g[m]
        BY <3>2
      <4> QED
        BY <3>2, <4>1
    <3> QED
      BY <3>1, <3>2
  <2>3. Goes(k, m + 1)
    BY <2>2
  <2>4. m + 1 \in Nat
    OBVIOUS
  <2> QED
    BY <2>3, <2>4
<1>3. T = Nat
  <2> HIDE DEF T
  <2>1. T \in SUBSET Nat
    BY DEF T
  <2> QED
    BY <1>1, <1>2, <2>1, AllNumbers
<1>4. \E g : Goes(g, n)
  BY <1>3
<1>5. Goes(Node, n)
  <2>1. Node = CHOOSE g : Goes(g, n)
    BY DEF Node, Heights, Add
  <2> HIDE DEF Goes
  <2> QED
    BY <1>4, <2>1
<1> DEFINE r == Node
<1> HIDE DEF r
<1>6. Goes(r, n)
  BY <1>5 DEF r
<1>7. n \in Nat
  OBVIOUS
<1> HIDE DEF n
<1>8. r[0] = NodeBlock(Before0, 0) /\ \A i \in 1 .. n : r[i] = Add(r[i - 1], i)
  <2>1. \A i \in 0 .. n : r[i] = IF i = 0 THEN NodeBlock(Before0, 0) ELSE Add(r[i - 1], i)
    BY <1>6
  <2>2. \A i \in 1 .. n : i \in 0 .. n /\ i # 0
    BY <1>7
  <2>3. 0 \in 0 .. n
    BY <1>7
  <2> QED
    BY <2>1, <2>2, <2>3
<1> QED
  BY <1>8 DEF r, n, Add

----------------------------------------------------------------------------
(* States and chains *)

\* A chain is a sequence of blocks, a block's transactions are a sequence.
LEMMA ChainIs ==
    ASSUME chain \in Chains
    PROVE  /\ Len(Blocks) \in Nat /\ DOMAIN Blocks = 1 .. Len(Blocks)
           /\ \A h \in Heights : /\ Len(Block(h).txs) \in Nat
                                 /\ DOMAIN Block(h).txs = 1 .. Len(Block(h).txs)
<1>1. Blocks \in Seq(Range(Blocks))
  BY ChainsAssumption DEF Blocks
<1>2. Len(Blocks) \in Nat /\ DOMAIN Blocks = 1 .. Len(Blocks)
  BY <1>1
<1>3. ASSUME NEW h \in Heights
      PROVE  Block(h).txs \in Seq(Range(Block(h).txs))
  <2>1. h + 1 \in DOMAIN Blocks
    BY <1>2 DEF Heights
  <2>2. Block(h) \in Range(Blocks)
    BY <2>1 DEF Block, Range
  <2> QED
    BY <2>2, ChainsAssumption DEF Blocks
<1> QED
  BY <1>2, <1>3

\* No transaction and no end of a block changes the version.
LEMMA VersionKept ==
    ASSUME NEW s, IsState(s)
    PROVE  /\ \A tx, time, before :
                 /\ IsState(LedgerApply(s, tx, time, before))
                 /\ LedgerApply(s, tx, time, before).version = s.version
           /\ \A full, time : /\ IsState(PostBlock(s, full, time))
                              /\ PostBlock(s, full, time).version = s.version
           /\ \A v : /\ IsState([s EXCEPT !.version = v])
                     /\ [s EXCEPT !.version = v].version = v
<1>1. s = [f \in Fields |-> s[f]]
  BY DEF IsState
<1>2. \A d : IsState([s EXCEPT !.mark = d]) /\ [s EXCEPT !.mark = d].version = s.version
  BY <1>1 DEF IsState, Fields
<1>3. \A v : IsState([s EXCEPT !.version = v]) /\ [s EXCEPT !.version = v].version = v
  BY <1>1 DEF IsState, Fields
<1>4. ASSUME NEW tx, NEW time, NEW before
      PROVE  /\ IsState(LedgerApply(s, tx, time, before))
             /\ LedgerApply(s, tx, time, before).version = s.version
  <2> DEFINE a == (s.utxos \cup LedgerOut(tx)) \ LedgerIn(tx)
             b == s.free + Outputs(tx)
             c == Changed(s.contracts, tx)
             d == Append(s.mark, <<time, before>>)
  <2>1. LedgerApply(s, tx, time, before) =
           IF Failed(tx) THEN s
           ELSE [s EXCEPT !.utxos = a, !.free = b, !.contracts = c, !.mark = d]
    BY DEF LedgerApply
  <2> HIDE DEF a, b, c, d
  <2> DEFINE t == [s EXCEPT !.utxos = a, !.free = b, !.contracts = c, !.mark = d]
  <2>2. IsState(t) /\ t.version = s.version
    BY <1>1 DEF IsState, Fields
  <2> HIDE DEF t
  <2>3. CASE Failed(tx)
    BY <2>1, <2>3
  <2>4. CASE ~Failed(tx)
    BY <2>1, <2>2, <2>4 DEF t
  <2> QED
    BY <2>3, <2>4
<1>5. ASSUME NEW full, NEW time
      PROVE  /\ IsState(PostBlock(s, full, time))
             /\ PostBlock(s, full, time).version = s.version
  BY <1>2 DEF PostBlock
<1> QED
  BY <1>3, <1>4, <1>5

\* Nor does a block.
LEMMA BlockVersion ==
    ASSUME chain \in Chains, NEW h \in Heights, NEW s, IsState(s)
    PROVE  /\ IsState(NodeBlock(s, h)) /\ NodeBlock(s, h).version = s.version
           /\ \A i \in 0 .. Len(Block(h).txs) :
                 IsState(Replayed(s, h)[i]) /\ Replayed(s, h)[i].version = s.version
<1> DEFINE r == Replayed(s, h)
           n == Len(Block(h).txs)
           Same(t) == IsState(t) /\ t.version = s.version
           T == {i \in Nat : i <= n => Same(r[i])}
<1>1. n \in Nat
  BY ChainIs
<1>2. /\ r[0] = s
      /\ \A i \in 1 .. n : r[i] = LedgerApply(r[i - 1], Block(h).txs[i],
                                              Block(h).time, TimeBefore(h))
  BY <1>1, ReplayedIs
<1> HIDE DEF r, n
<1>3. 0 \in T
  BY <1>2
<1>4. ASSUME NEW i \in T PROVE i + 1 \in T
  <2> SUFFICES ASSUME i + 1 <= n PROVE Same(r[i + 1])
    OBVIOUS
  <2>1. i + 1 \in 1 .. n /\ (i + 1) - 1 = i /\ Same(r[i])
    BY <1>1
  <2>2. r[i + 1] = LedgerApply(r[i], Block(h).txs[i + 1], Block(h).time, TimeBefore(h))
    BY <1>2, <2>1
  <2> QED
    BY <2>1, <2>2, VersionKept
<1>5. T = Nat
  <2> HIDE DEF T
  <2>1. T \in SUBSET Nat
    BY DEF T
  <2> QED
    BY <1>3, <1>4, <2>1, AllNumbers
<1>6. \A i \in 0 .. n : Same(r[i])
  BY <1>1, <1>5
<1>7. Same(r[n])
  BY <1>1, <1>6
<1>8. Same(NodeBlock(s, h))
  BY <1>7, VersionKept DEF NodeBlock, r, n
<1> QED
  BY <1>6, <1>8 DEF r, n

\* The node's state has the version of its block.
LEMMA NodeVersion ==
    ASSUME chain \in Chains
    PROVE  \A h \in Heights : IsState(Node[h]) /\ Node[h].version = Block(h).version
<1> DEFINE Good(h) == IsState(Node[h]) /\ Node[h].version = Block(h).version
           T == {h \in Nat : h \in Heights => Good(h)}
<1>1. Len(Blocks) \in Nat
  BY ChainIs
<1>2. 0 \in T
  <2> SUFFICES ASSUME 0 \in Heights PROVE Good(0)
    OBVIOUS
  <2>1. Node[0] = NodeBlock(Before0, 0)
    BY <1>1, NodeIs DEF Heights
  <2>2. IsState(Before0) /\ Before0.version = Block(0).version
    BY DEF IsState, Fields, Before0, New
  <2> QED
    BY <2>1, <2>2, BlockVersion
<1>3. ASSUME NEW h \in T PROVE h + 1 \in T
  <2> SUFFICES ASSUME h + 1 \in Heights PROVE Good(h + 1)
    OBVIOUS
  <2>1. h + 1 \in 1 .. Len(Blocks) - 1 /\ (h + 1) - 1 = h /\ Good(h)
    BY <1>1 DEF Heights
  <2> DEFINE s == [Node[h] EXCEPT !.version = Block(h + 1).version]
  <2>2. Node[h + 1] = NodeBlock(s, h + 1)
    BY <1>1, <2>1, NodeIs
  <2>3. IsState(s) /\ s.version = Block(h + 1).version
    BY <2>1, VersionKept
  <2> HIDE DEF s
  <2> QED
    BY <2>2, <2>3, BlockVersion
<1>4. T = Nat
  <2> HIDE DEF T
  <2>1. T \in SUBSET Nat
    BY DEF T
  <2> QED
    BY <1>2, <1>3, <2>1, AllNumbers
<1> QED
  BY <1>1, <1>4 DEF Heights

\* A block that keeps the version continues the state of the one before.
LEMMA NodeContinues ==
    ASSUME chain \in Chains, NEW h \in Heights, h > 0,
           Block(h).version = Block(h - 1).version
    PROVE  Node[h] = NodeBlock(Node[h - 1], h)
<1>1. Len(Blocks) \in Nat /\ h \in 1 .. Len(Blocks) - 1 /\ h - 1 \in Heights
  BY ChainIs DEF Heights
<1>2. IsState(Node[h - 1]) /\ Node[h - 1].version = Block(h).version
  BY <1>1, NodeVersion
<1>3. \A s : IsState(s) => [s EXCEPT !.version = s.version] = s
  BY DEF IsState, Fields
<1>4. [Node[h - 1] EXCEPT !.version = Block(h).version] = Node[h - 1]
  BY <1>2, <1>3
<1> QED
  BY <1>1, <1>4, NodeIs

----------------------------------------------------------------------------
(* Every step does what the node did *)

\* A store that was never indexed into.
LEMMA InitReplay == Init => ReplayInv
<1> SUFFICES ASSUME Init PROVE ReplayInv
  OBVIOUS
<1>1. chain \in Chains /\ Legal(chain)
  BY DEF Init
<1>2. Len(Blocks) \in Nat
  BY <1>1, ChainIs
<1> QED
  BY <1>1, <1>2 DEF Init, NoProcess, ReplayInv, StoreInv, IdleInv, ApplyInv, StopsAtUpgradesOnly

\* What is used of the block under way.
LEMMA Underway ==
    ASSUME ReplayInv, pc = "apply"
    PROVE  /\ chain \in Chains /\ Height \in Heights /\ Height \in Nat
           /\ disk.tip = Height - 1
           /\ Height > 0 => Height - 1 \in Heights
           /\ B = Block(Height)
           /\ Len(B.txs) \in Nat /\ DOMAIN B.txs = 1 .. Len(B.txs)
           /\ at \in Nat
<1>1. chain \in Chains /\ Height \in Heights /\ at \in 0 .. Len(B.txs)
  BY DEF ReplayInv, ApplyInv
<1>2. Len(Blocks) \in Nat
  BY <1>1, ChainIs
<1>3. Height \in Nat /\ (Height > 0 => Height - 1 \in Heights)
  BY <1>1, <1>2 DEF Heights
<1>4. disk.tip = Height - 1
  BY <1>2 DEF Height, ReplayInv, StoreInv
<1> QED
  BY <1>1, <1>3, <1>4, ChainIs DEF B

\* The chain stays, and with it what is said of it.
LEMMA SameChain ==
    ASSUME chain' = chain
    PROVE  /\ Blocks' = Blocks /\ Node' = Node /\ Before0' = Before0
           /\ GenesisState' = GenesisState /\ Legal(chain)' = Legal(chain)
           /\ \A h : Block(h)' = Block(h) /\ TimeBefore(h)' = TimeBefore(h)
           /\ \A s, h : Replayed(s, h)' = Replayed(s, h)
<1>1. Blocks' = Blocks
  BY DEF Blocks
<1>2. \A h : Block(h)' = Block(h) /\ TimeBefore(h)' = TimeBefore(h)
  BY <1>1 DEF Block, TimeBefore
<1>3. \A s, h : Replayed(s, h)' = Replayed(s, h)
  BY <1>2 DEF Replayed
<1>4. Before0' = Before0
  BY <1>2 DEF Before0
<1>5. \A s, h : NodeBlock(s, h)' = NodeBlock(s, h)
  BY <1>2, <1>3 DEF NodeBlock
<1>6. GenesisState' = GenesisState
  BY <1>4, <1>5 DEF GenesisState
<1>7. Node' = Node
  BY <1>1, <1>2, <1>4, <1>5 DEF Node, Heights
<1>8. Legal(chain)' = Legal(chain)
  BY DEF Legal
<1> QED
  BY <1>1, <1>2, <1>3, <1>4, <1>6, <1>7, <1>8

\* A run goes on from the state and the time of the last block.
LEMMA StartReplay == ReplayInv /\ Start => ReplayInv'
<1> SUFFICES ASSUME ReplayInv, Start PROVE ReplayInv'
  OBVIOUS
<1> USE DEF ReplayInv, Start
<1>1. StoreInv'
  BY SameChain DEF StoreInv, Block
<1>2. chain' \in Chains /\ Legal(chain)'
  BY SameChain
<1> QED
  BY <1>1, <1>2 DEF IdleInv, ApplyInv, StopsAtUpgradesOnly

\* A death leaves the store.
LEMMA CrashReplay == ReplayInv /\ Crash => ReplayInv'
<1> SUFFICES ASSUME ReplayInv, Crash PROVE ReplayInv'
  OBVIOUS
<1> USE DEF ReplayInv, Crash
<1>1. StoreInv'
  BY SameChain DEF StoreInv, Block
<1>2. chain' \in Chains /\ Legal(chain)'
  BY SameChain
<1> QED
  BY <1>1, <1>2 DEF IdleInv, ApplyInv, StopsAtUpgradesOnly

\* A block begins from what the one before left, block 0 from the genesis
\* state unless it is in that state already.
LEMMA BeginReplay == ReplayInv /\ Begin => ReplayInv'
<1> SUFFICES ASSUME ReplayInv, Begin PROVE ReplayInv'
  OBVIOUS
<1>1. /\ pc = "fetch" /\ Height \in Heights /\ chain' = chain /\ disk' = disk
      /\ first' \in BOOLEAN
      /\ at' = at /\ fullness' = fullness /\ first' = TRUE
      /\ parent' = IF parent = 0 THEN B.time ELSE parent
  BY DEF Begin
<1>2. /\ chain \in Chains /\ StoreInv /\ at = 0 /\ fullness = 0 /\ genesis = <<>>
      /\ parent = disk.time /\ (disk.tip >= 0 => ledger = disk.state)
  BY <1>1 DEF ReplayInv, IdleInv
<1>3. Len(Blocks) \in Nat /\ Len(B.txs) \in Nat
  BY <1>1, <1>2, ChainIs DEF B
<1>4. /\ Height \in Nat /\ disk.tip = Height - 1 /\ Height' = Height
      /\ Height > 0 => Height - 1 \in Heights
  BY <1>1, <1>2, <1>3 DEF Height, Heights, StoreInv
<1>5. StoreInv'
  BY <1>1, <1>2, SameChain DEF StoreInv, Block
<1>6. chain' \in Chains /\ Legal(chain)'
  BY <1>1, <1>2, SameChain DEF ReplayInv
<1>7. parent' = TimeBefore(Height)
  <2>1. CASE Height = 0
    BY <1>1, <1>2, <1>4, <2>1 DEF StoreInv, TimeBefore, B
  <2>2. CASE Height > 0
    BY <1>1, <1>2, <1>4, <2>2 DEF StoreInv, TimeBefore, B
  <2> QED
    BY <1>4, <2>1, <2>2
<1>8. Height > 0 => ledger = Node[Height - 1] /\ ledger.version = Block(Height - 1).version
  BY <1>2, <1>4, NodeVersion DEF StoreInv
<1>9. B' = B /\ Heights' = Heights /\ Block(Height)' = Block(Height)
      /\ Block(Height - 1)' = Block(Height - 1) /\ TimeBefore(Height)' = TimeBefore(Height)
  BY <1>1, <1>4, SameChain DEF B, Heights, Block, TimeBefore
<1>10. CASE Translates
  <2>1. /\ pc' = "apply"
        /\ ledger' = IF Height > 0 THEN ledger
                     ELSE IF GenesisPost THEN New(B.version) ELSE GenesisState
        /\ genesis' = IF Height = 0 /\ GenesisPost THEN <<GenesisState>> ELSE <<>>
    BY <1>10 DEF Begin
  <2>2. Replayed(Node[Height - 1], Height)[0] = Node[Height - 1]
    BY <1>3, ReplayedIs DEF B
  <2>3. Replayed(Before0, 0)[0] = Before0 \/ Height > 0
    BY <1>3, <1>4, ReplayedIs DEF B
  <2>4. Height > 0 => /\ genesis' = <<>> /\ B.version = Block(Height - 1).version
                      /\ ledger' = Replayed(Node[Height - 1], Height)[0]
    BY <1>8, <1>10, <2>1, <2>2 DEF Translates
  <2>5. Height = 0 => \/ genesis' = <<>> /\ ledger' = Replayed(Before0, 0)[0]
                      \/ genesis' = <<Node[0]>>
    <3> SUFFICES ASSUME Height = 0, genesis' # <<Node[0]>>
                 PROVE  genesis' = <<>> /\ ledger' = Replayed(Before0, 0)[0]
      OBVIOUS
    <3>1. ~GenesisPost
      BY <2>1 DEF GenesisPost
    <3>2. Node[0] = NodeBlock(Before0, 0)
      BY <1>1, <1>3, NodeIs DEF Heights
    <3>3. GenesisState = Before0
      BY <3>1, <3>2 DEF GenesisPost, GenesisState
    <3> QED
      BY <2>1, <2>3, <3>1, <3>3
  <2>6. Counted(B.txs)[0] = 0
    BY <1>3, CountedIs
  <2>7. ApplyInv'
    <3>1. \A s, h : Replayed(s, h)' = Replayed(s, h)
      BY <1>1, SameChain
    <3>2. Node' = Node /\ Before0' = Before0
      BY <1>1, SameChain
    <3> QED
      BY <1>1, <1>2, <1>3, <1>4, <1>7, <1>9, <2>4, <2>5, <2>6, <3>1, <3>2 DEF ApplyInv
  <2> QED
    BY <1>1, <1>5, <1>6, <2>1, <2>7 DEF ReplayInv, IdleInv, StopsAtUpgradesOnly
<1>11. CASE ~Translates
  <2>1. pc' = "failed"
    BY <1>11 DEF Begin
  <2>2. Height > 0 /\ B.version # Block(Height - 1).version
    BY <1>4, <1>8, <1>11 DEF Translates
  <2>3. StopsAtUpgradesOnly'
    BY <1>4, <1>9, <2>2 DEF StopsAtUpgradesOnly
  <2> QED
    BY <1>1, <1>5, <1>6, <2>1, <2>3 DEF ReplayInv, IdleInv, ApplyInv
<1> QED
  BY <1>10, <1>11


\* The least of a set of naturals is in it and below all others.
LEMMA Least ==
    ASSUME NEW I \in SUBSET Nat, I # {}
    PROVE  Min(I) \in I /\ \A i \in I : Min(I) <= i
<1> DEFINE R == OpToRel(<, Nat)
<1>1. PICK x \in I : \A y \in I : ~(<<y, x>> \in R)
  BY NatLessThanWellFounded, WFMin
<1>2. ASSUME NEW y \in I PROVE x <= y
  <2>1. x \in Nat /\ y \in Nat /\ ~(y < x)
    BY <1>1 DEF OpToRel
  <2> QED
    BY <2>1
<1>3. \E m \in I : \A y \in I : m <= y
  BY <1>2
<1> QED
  BY <1>3 DEF Min

\* The chain's first regular transaction is well formed at one of the two times
\* at which it is tried, every other one at the block's.
LEMMA NodeAccepted ==
    ASSUME ReplayInv, pc = "apply", at < Len(B.txs), IsRegular(B.txs[at + 1])
    PROVE  Accepts(B.txs[at + 1])
<1> DEFINE tx == B.txs[at + 1]
           h == Height + 1
<1>1. /\ Height \in Nat /\ h \in 1 .. Len(chain.blocks) /\ chain.blocks[h] = B
      /\ h - 1 = Height /\ (Height > 0 => chain.blocks[h - 1] = Block(Height - 1))
      /\ at + 1 \in DOMAIN B.txs /\ at + 1 \in 1 .. Len(B.txs)
  <2>1. /\ Height \in Nat /\ Height \in 0 .. Len(Blocks) - 1 /\ Len(Blocks) \in Nat
        /\ B = Block(Height)
    BY Underway, ChainIs DEF Heights
  <2>2. at \in Nat /\ Len(B.txs) \in Nat /\ DOMAIN B.txs = 1 .. Len(B.txs)
    BY Underway
  <2>3. at + 1 \in DOMAIN B.txs /\ at + 1 \in 1 .. Len(B.txs)
    BY <2>2
  <2>4. h \in 1 .. Len(Blocks) /\ h - 1 = Height
    BY <2>1
  <2>5. chain.blocks[h] = B /\ (Height > 0 => chain.blocks[h - 1] = Block(Height - 1))
    BY <2>1, <2>4 DEF Blocks, Block
  <2> QED
    BY <2>1, <2>3, <2>4, <2>5 DEF Blocks
<1>2. \/ WellFormed(tx, B.time)
      \/ /\ h > 1 /\ at + 1 = FirstRegular(B.txs)
         /\ WellFormed(tx, (IF h = 1 \/ chain.blocks[h - 1].time = 0
                            THEN B.time ELSE chain.blocks[h - 1].time) + Bump)
  BY <1>1 DEF ReplayInv, Legal
<1>3. ASSUME h > 1, at + 1 = FirstRegular(B.txs) PROVE first
  <2> DEFINE I == {i \in 1 .. Len(B.txs) : IsRegular(B.txs[i])}
  <2>1. at + 1 = Min(I)
    <3>1. FirstRegular(B.txs) = IF I # {} THEN Min(I) ELSE 0
      BY DEF FirstRegular, SelectInSeq
    <3>2. at + 1 \in I
      BY <1>1
    <3> QED
      BY <1>3, <3>1, <3>2
  <2>2. \A i \in I : at + 1 <= i
    <3>1. I \in SUBSET Nat /\ I # {}
      BY <1>1
    <3> HIDE DEF I
    <3>2. \A i \in I : Min(I) <= i
      BY <3>1, Least
    <3> QED
      BY <2>1, <3>2
  <2>3. ASSUME NEW i \in 1 .. at PROVE ~IsRegular(B.txs[i])
    <3> DEFINE n == Len(B.txs)
    <3>1. at \in Nat /\ n \in Nat /\ at + 1 \in 1 .. n
      BY <1>1, Underway
    <3>2. i \in 1 .. n /\ ~(at + 1 <= i)
      <4> HIDE DEF n
      <4> QED
        BY <3>1
    <3>3. i \notin I
      <4> HIDE DEF I
      <4> QED
        BY <2>2, <3>2
    <3> QED
      BY <3>2, <3>3
  <2> QED
    BY <2>3 DEF ReplayInv, ApplyInv
<1>4. parent = TimeBefore(Height)
  BY DEF ReplayInv, ApplyInv
<1>5. CASE WellFormed(tx, B.time)
  BY <1>5 DEF Accepts
<1>6. CASE ~WellFormed(tx, B.time)
  <2>1. h > 1 /\ Height > 0 /\ first
    BY <1>1, <1>2, <1>3, <1>6
  <2>2. parent = IF chain.blocks[h - 1].time = 0 THEN B.time ELSE chain.blocks[h - 1].time
    BY <1>1, <1>4, <2>1 DEF TimeBefore, B
  <2>3. WellFormed(tx, parent + Bump)
    BY <1>1, <1>2, <1>6, <2>1, <2>2
  <2> QED
    BY <2>1, <2>3 DEF Accepts
<1> QED
  BY <1>5, <1>6

\* Applying a transaction does what the node did.
LEMMA ApplyReplay ==
    ASSUME ReplayInv, pc = "apply", at < Len(B.txs), Apply(B.txs[at + 1]),
           first' = (first /\ ~IsRegular(B.txs[at + 1]))
    PROVE  ReplayInv'
<1> DEFINE tx == B.txs[at + 1]
<1>1. /\ ledger' = LedgerApply(ledger, tx, B.time, parent)
      /\ fullness' = Fuller(tx) /\ at' = at + 1
      /\ chain' = chain /\ pc' = pc /\ parent' = parent /\ genesis' = genesis
      /\ disk' = disk
  BY DEF Apply
<1>2. /\ chain \in Chains /\ Height \in Heights /\ Height \in Nat /\ B = Block(Height)
      /\ Len(B.txs) \in Nat /\ at \in Nat
  BY Underway
<1>3. at + 1 \in 1 .. Len(B.txs) /\ (at + 1) - 1 = at /\ at' \in 0 .. Len(B.txs)
  BY <1>1, <1>2
<1>4. StoreInv'
  BY <1>1, SameChain DEF ReplayInv, StoreInv, Block
<1>5. chain' \in Chains /\ Legal(chain)'
  BY <1>1, <1>2, SameChain DEF ReplayInv
<1>6. /\ B' = B /\ Heights' = Heights /\ Height' = Height /\ Block(Height)' = Block(Height)
      /\ Block(Height - 1)' = Block(Height - 1) /\ TimeBefore(Height)' = TimeBefore(Height)
      /\ Node' = Node /\ Before0' = Before0 /\ \A s, h : Replayed(s, h)' = Replayed(s, h)
  BY <1>1, SameChain DEF B, Height, Heights, Block, TimeBefore
<1>7. \A s : Replayed(s, Height)[at + 1]
                = LedgerApply(Replayed(s, Height)[at], tx, B.time, TimeBefore(Height))
  BY <1>2, <1>3, ReplayedIs
<1>8. fullness' = Counted(B.txs)[at + 1]
  <2>1. Counted(B.txs)[at + 1] = IF Failed(tx) THEN Counted(B.txs)[at]
                                 ELSE Counted(B.txs)[at] + tx.cost
    BY <1>2, <1>3, CountedIs
  <2>2. fullness' = IF Failed(tx) THEN fullness ELSE fullness + tx.cost
    BY <1>1 DEF Fuller, Result, Failed
  <2> QED
    BY <2>1, <2>2 DEF ReplayInv, ApplyInv
<1>9. first' <=> \A i \in 1 .. at + 1 : ~IsRegular(B.txs[i])
  <2>1. first <=> \A i \in 1 .. at : ~IsRegular(B.txs[i])
    BY DEF ReplayInv, ApplyInv
  <2>2. 1 .. at + 1 = (1 .. at) \cup {at + 1}
    BY <1>2
  <2> QED
    BY <2>1, <2>2
<1>10. ApplyInv'
  <2>1. /\ parent = TimeBefore(Height)
        /\ Height > 0 => /\ genesis = <<>> /\ B.version = Block(Height - 1).version
                         /\ ledger = Replayed(Node[Height - 1], Height)[at]
        /\ Height = 0 => \/ genesis = <<>> /\ ledger = Replayed(Before0, 0)[at]
                         \/ genesis = <<Node[0]>>
    BY DEF ReplayInv, ApplyInv
  <2>2. Height > 0 => ledger' = Replayed(Node[Height - 1], Height)[at + 1]
    BY <1>1, <1>7, <2>1
  <2>3. Height = 0 /\ genesis = <<>> => ledger' = Replayed(Before0, 0)[at + 1]
    BY <1>1, <1>7, <2>1
  <2> QED
    BY <1>1, <1>2, <1>3, <1>6, <1>8, <1>9, <2>1, <2>2, <2>3 DEF ApplyInv
<1> QED
  BY <1>1, <1>4, <1>5, <1>10 DEF ReplayInv, IdleInv, StopsAtUpgradesOnly

\* A regular transaction is tried and never refused.
LEMMA ApplyRegularReplay == ReplayInv /\ ApplyRegular => ReplayInv'
<1> SUFFICES ASSUME ReplayInv, ApplyRegular PROVE ReplayInv'
  OBVIOUS
<1>1. pc = "apply" /\ at < Len(B.txs) /\ IsRegular(B.txs[at + 1])
  BY DEF ApplyRegular
<1>2. Accepts(B.txs[at + 1])
  BY <1>1, NodeAccepted
<1>3. Apply(B.txs[at + 1]) /\ first' = FALSE
  BY <1>2 DEF ApplyRegular
<1> QED
  BY <1>1, <1>3, ApplyReplay

\* A system transaction does not end the wait for the first regular one.
LEMMA ApplySystemReplay == ReplayInv /\ ApplySystem => ReplayInv'
<1> SUFFICES ASSUME ReplayInv, ApplySystem PROVE ReplayInv'
  OBVIOUS
<1>1. /\ pc = "apply" /\ at < Len(B.txs) /\ ~IsRegular(B.txs[at + 1])
      /\ Apply(B.txs[at + 1]) /\ first' = first
  BY DEF ApplySystem
<1>2. first \in BOOLEAN
  BY DEF ReplayInv
<1> QED
  BY <1>1, <1>2, ApplyReplay

\* The block ends as the node's did.
LEMMA NodeFinishes ==
    ASSUME ReplayInv, pc = "apply", at = Len(B.txs)
    PROVE  Node[Height] = IF genesis # <<>> THEN genesis[1]
                          ELSE PostBlock(ledger, Clamped(fullness), B.time)
<1>1. /\ chain \in Chains /\ Height \in Heights /\ Height \in Nat /\ B = Block(Height)
      /\ Len(B.txs) \in Nat /\ at \in Nat /\ disk.tip = Height - 1
  BY Underway
<1>2. fullness = Counted(B.txs)[Len(B.txs)]
  BY DEF ReplayInv, ApplyInv
<1>3. \A s : NodeBlock(s, Height) = PostBlock(Replayed(s, Height)[at], Clamped(fullness), B.time)
  BY <1>1, <1>2 DEF NodeBlock
<1>4. CASE Height > 0
  <2>1. /\ genesis = <<>> /\ ledger = Replayed(Node[Height - 1], Height)[at]
        /\ B.version = Block(Height - 1).version
    BY <1>4 DEF ReplayInv, ApplyInv
  <2>2. Node[Height] = NodeBlock(Node[Height - 1], Height)
    BY <1>1, <1>4, <2>1, NodeContinues
  <2> QED
    BY <1>3, <2>1, <2>2
<1>5. CASE Height = 0
  <2>1. \/ genesis = <<>> /\ ledger = Replayed(Before0, 0)[at]
        \/ genesis = <<Node[0]>>
    BY <1>5 DEF ReplayInv, ApplyInv
  <2>2. Node[0] = NodeBlock(Before0, 0)
    BY <1>1, <1>5, ChainIs, NodeIs DEF Heights
  <2> QED
    BY <1>3, <1>5, <2>1, <2>2
<1> QED
  BY <1>1, <1>4, <1>5

\* Both checks succeed, and would without either being made.
LEMMA FinishReplay == ReplayInv /\ Finish => ReplayInv'
<1> SUFFICES ASSUME ReplayInv, Finish PROVE ReplayInv'
  OBVIOUS
<1> DEFINE posted == PostBlock(ledger, Clamped(fullness), B.time)
           final == IF genesis # <<>> THEN genesis[1] ELSE posted
<1>1. /\ pc = "apply" /\ at = Len(B.txs) /\ chain' = chain /\ genesis' = <<>>
      /\ first' = first
  BY DEF Finish
<1>2. /\ chain \in Chains /\ Height \in Heights /\ Height \in Nat /\ B = Block(Height)
      /\ Len(B.txs) \in Nat /\ at \in Nat /\ disk.tip = Height - 1
  BY <1>1, Underway
<1>3. final = Node[Height]
  BY <1>1, NodeFinishes
<1> HIDE DEF final
<1>4. /\ pc' = "fetch" /\ at' = 0 /\ fullness' = 0 /\ parent' = B.time /\ ledger' = final
      /\ disk'.tip = Height /\ disk'.time = B.time /\ disk'.state = final
  BY <1>3 DEF Finish, final
<1>5. StoreInv'
  <2>1. Node' = Node /\ Blocks' = Blocks
    BY <1>1, SameChain
  <2>2. Height \in -1 .. Len(Blocks) - 1 /\ Height # -1
    BY <1>2, ChainIs DEF Heights
  <2>3. Blocks'[disk'.tip + 1] = B
    BY <1>2, <1>4, <2>1 DEF Block
  <2> QED
    BY <1>3, <1>4, <2>1, <2>2, <2>3 DEF StoreInv, Block
<1>6. chain' \in Chains /\ Legal(chain)'
  BY <1>1, <1>2, SameChain DEF ReplayInv
<1> QED
  BY <1>1, <1>4, <1>5, <1>6 DEF ReplayInv, IdleInv, ApplyInv, StopsAtUpgradesOnly

\* Nothing changes in a stuttering step.
LEMMA StutterReplay == ReplayInv /\ UNCHANGED vars => ReplayInv'
<1> SUFFICES ASSUME ReplayInv, UNCHANGED vars PROVE ReplayInv'
  OBVIOUS
<1> USE DEF vars, memory
<1>1. StoreInv' /\ Legal(chain)'
  BY SameChain DEF ReplayInv, StoreInv, Block
<1>2. ApplyInv' /\ StopsAtUpgradesOnly'
  BY SameChain DEF ReplayInv, ApplyInv, StopsAtUpgradesOnly, Height, Heights, B, Block, TimeBefore
<1> QED
  BY <1>1, <1>2 DEF ReplayInv, IdleInv

\* Every step preserves the invariant.
LEMMA ReplayStep == ReplayInv /\ [Next]_vars => ReplayInv'
  BY StartReplay, BeginReplay, ApplyRegularReplay, ApplySystemReplay, FinishReplay,
     CrashReplay, StutterReplay DEF Next, Work

\* So it holds throughout.
LEMMA ReplayInductive == Spec => []ReplayInv
  BY InitReplay, ReplayStep, PTL DEF Spec

\* Whatever the chain and wherever the process died: what is persisted after a
\* block is the node's ledger state, also of blocks that carry no root.
THEOREM ReplayStaysExact == Spec => []ReplayExact
<1>1. ReplayInv => ReplayExact
  BY DEF ReplayInv, StoreInv, ReplayExact
<1> QED
  BY <1>1, ReplayInductive, PTL

\* The replay never stops at a block the node has made, unless the block
\* changes the ledger version.
THEOREM ReplayStopsAtUpgrades == Spec => []StopsAtUpgradesOnly
<1>1. ReplayInv => StopsAtUpgradesOnly
  BY DEF ReplayInv
<1> QED
  BY <1>1, ReplayInductive, PTL

----------------------------------------------------------------------------
(* The index accounts for the ledger *)

\* The indexer derives the outputs and inputs the ledger applies.
LEMMA DerivedIsApplied ==
    ASSUME NEW tx, tx.fate \in {"success", "failure"}
    PROVE  Created(tx) = LedgerOut(tx) /\ Spent(tx) = LedgerIn(tx)
<1>1. CASE Failed(tx)
  <2>1. Result(tx).kind = "failure"
    BY <1>1 DEF Failed, Result
  <2>2. Created(tx) = {} /\ Spent(tx) = {}
    BY <2>1 DEF Created, Spent
  <2>3. LedgerOut(tx) = {} /\ LedgerIn(tx) = {}
    BY <1>1 DEF LedgerOut, LedgerIn
  <2> QED
    BY <2>2, <2>3
<1>2. CASE ~Failed(tx)
  <2>1. tx.fate = "success" /\ Result(tx).kind # "failure"
    BY <1>2 DEF Failed, Result
  <2>2. Successful(tx) = Applied(tx)
    <3>1. CASE tx.fails = {}
      BY <1>2, <2>1, <3>1 DEF Result, Successful, Applied
    <3>2. CASE tx.fails # {}
      <4> DEFINE P == {<<s, s \in Applied(tx)>> : s \in DOMAIN tx.intents}
      <4>1. Result(tx) = [kind |-> "partial", segments |-> P]
        BY <1>2, <3>2 DEF Result
      <4>2. Successful(tx) = {s \in DOMAIN tx.intents : <<s, TRUE>> \in P}
        <5> HIDE DEF P
        <5> QED
          BY <4>1 DEF Successful
      <4>3. Applied(tx) \subseteq DOMAIN tx.intents
        BY DEF Applied
      <4>4. \A s : (s \in Applied(tx)) \in BOOLEAN
        BY DEF Applied
      <4>5. \A s \in DOMAIN tx.intents : <<s, TRUE>> \in P <=> s \in Applied(tx)
        BY <4>4
      <4> QED
        BY <4>2, <4>3, <4>5
    <3> QED
      BY <3>1, <3>2
  <2>3. CASE tx.kind = "standard"
    <3> DEFINE I == DOMAIN tx.intents
    <3>1. Parts(tx) = {Part(tx.intents[s], TRUE) : s \in I}
                         \cup {Part(tx.intents[s], FALSE) : s \in Applied(tx)}
      BY <2>2 DEF Parts
    <3>2. \A s : /\ Part(tx.intents[s], TRUE).out = tx.intents[s].gOut
                 /\ Part(tx.intents[s], TRUE).in = tx.intents[s].gIn
                 /\ Part(tx.intents[s], FALSE).out = tx.intents[s].fOut
                 /\ Part(tx.intents[s], FALSE).in = tx.intents[s].fIn
      BY DEF Part
    <3>3. UNION {part.out : part \in Parts(tx)}
             = (UNION {tx.intents[s].gOut : s \in I}) \cup UNION {tx.intents[s].fOut : s \in Applied(tx)}
      <4>1. ASSUME NEW x
            PROVE  x \in UNION {part.out : part \in Parts(tx)} <=>
                      \/ \E s \in I : x \in tx.intents[s].gOut
                      \/ \E s \in Applied(tx) : x \in tx.intents[s].fOut
        <5>1. x \in UNION {part.out : part \in Parts(tx)} <=> \E part \in Parts(tx) : x \in part.out
          OBVIOUS
        <5>2. (\E part \in Parts(tx) : x \in part.out) <=>
                 \/ \E s \in I : x \in Part(tx.intents[s], TRUE).out
                 \/ \E s \in Applied(tx) : x \in Part(tx.intents[s], FALSE).out
          <6> HIDE DEF I
          <6> QED
            BY <3>1
        <5> QED
          BY <3>2, <5>1, <5>2
      <4>2. ASSUME NEW x
            PROVE  x \in (UNION {tx.intents[s].gOut : s \in I})
                             \cup UNION {tx.intents[s].fOut : s \in Applied(tx)} <=>
                      \/ \E s \in I : x \in tx.intents[s].gOut
                      \/ \E s \in Applied(tx) : x \in tx.intents[s].fOut
        <5>1. x \in UNION {tx.intents[s].gOut : s \in I} <=> \E s \in I : x \in tx.intents[s].gOut
          <6> HIDE DEF I
          <6> QED
            OBVIOUS
        <5>2. x \in UNION {tx.intents[s].fOut : s \in Applied(tx)} <=>
                 \E s \in Applied(tx) : x \in tx.intents[s].fOut
          OBVIOUS
        <5> HIDE DEF I
        <5> QED
          BY <5>1, <5>2
      <4> QED
        BY <4>1, <4>2
    <3>4. UNION {part.in : part \in Parts(tx)}
             = (UNION {tx.intents[s].gIn : s \in I}) \cup UNION {tx.intents[s].fIn : s \in Applied(tx)}
      <4>1. ASSUME NEW x
            PROVE  x \in UNION {part.in : part \in Parts(tx)} <=>
                      \/ \E s \in I : x \in tx.intents[s].gIn
                      \/ \E s \in Applied(tx) : x \in tx.intents[s].fIn
        <5>1. x \in UNION {part.in : part \in Parts(tx)} <=> \E part \in Parts(tx) : x \in part.in
          OBVIOUS
        <5>2. (\E part \in Parts(tx) : x \in part.in) <=>
                 \/ \E s \in I : x \in Part(tx.intents[s], TRUE).in
                 \/ \E s \in Applied(tx) : x \in Part(tx.intents[s], FALSE).in
          <6> HIDE DEF I
          <6> QED
            BY <3>1
        <5> QED
          BY <3>2, <5>1, <5>2
      <4>2. ASSUME NEW x
            PROVE  x \in (UNION {tx.intents[s].gIn : s \in I})
                             \cup UNION {tx.intents[s].fIn : s \in Applied(tx)} <=>
                      \/ \E s \in I : x \in tx.intents[s].gIn
                      \/ \E s \in Applied(tx) : x \in tx.intents[s].fIn
        <5>1. x \in UNION {tx.intents[s].gIn : s \in I} <=> \E s \in I : x \in tx.intents[s].gIn
          <6> HIDE DEF I
          <6> QED
            OBVIOUS
        <5>2. x \in UNION {tx.intents[s].fIn : s \in Applied(tx)} <=>
                 \E s \in Applied(tx) : x \in tx.intents[s].fIn
          OBVIOUS
        <5> HIDE DEF I
        <5> QED
          BY <5>1, <5>2
      <4> QED
        BY <4>1, <4>2
    <3>5. Created(tx) = UNION {part.out : part \in Parts(tx)}
          /\ Spent(tx) = UNION {part.in : part \in Parts(tx)}
      BY <2>1, <2>3 DEF Created, Spent
    <3>6. LedgerOut(tx) = (UNION {tx.intents[s].gOut : s \in I})
                            \cup UNION {tx.intents[s].fOut : s \in Applied(tx)}
          /\ LedgerIn(tx) = (UNION {tx.intents[s].gIn : s \in I})
                              \cup UNION {tx.intents[s].fIn : s \in Applied(tx)}
      BY <1>2, <2>3 DEF LedgerOut, LedgerIn
    <3> QED
      BY <3>3, <3>4, <3>5, <3>6
  <2>4. CASE tx.kind # "standard"
    BY <1>2, <2>1, <2>4 DEF Created, Spent, LedgerOut, LedgerIn
  <2> QED
    BY <2>3, <2>4
<1> QED
  BY <1>1, <1>2

\* The events that are kept, one more with each event of a kind that is kept.
LEMMA KeptIs ==
    ASSUME NEW emits, NEW kinds, Len(emits) \in Nat
    PROVE  LET r == Kept(emits, kinds)
           IN  /\ r[0] = <<>>
               /\ \A i \in 1 .. Len(emits) :
                     r[i] = IF emits[i].kind \in kinds THEN Append(r[i - 1], emits[i]) ELSE r[i - 1]
<1> DEFINE n == Len(emits)
           Add(t, i) == IF emits[i].kind \in kinds THEN Append(t, emits[i]) ELSE t
           Goes(g, m) == g = [i \in 0 .. m |-> IF i = 0 THEN <<>> ELSE Add(g[i - 1], i)]
           T == {m \in Nat : \E g : Goes(g, m)}
<1> HIDE DEF Add
<1>1. 0 \in T
  <2>1. Goes([i \in 0 .. 0 |-> <<>>], 0)
    OBVIOUS
  <2> QED
    BY <2>1
<1>2. ASSUME NEW m \in T PROVE m + 1 \in T
  <2>1. PICK g : Goes(g, m)
    OBVIOUS
  <2> DEFINE k == [i \in 0 .. m + 1 |-> IF i <= m THEN g[i] ELSE Add(g[m], m + 1)]
  <2>2. ASSUME NEW i \in 0 .. m + 1
        PROVE  k[i] = IF i = 0 THEN <<>> ELSE Add(k[i - 1], i)
    <3>1. CASE i <= m
      <4>1. i \in 0 .. m /\ k[i] = g[i] /\ (i # 0 => k[i - 1] = g[i - 1])
        BY <3>1
      <4> QED
        BY <2>1, <4>1
    <3>2. CASE i = m + 1
      <4>1. i # 0 /\ i - 1 = m /\ k[i - 1] = g[m]
        BY <3>2
      <4> QED
        BY <3>2, <4>1
    <3> QED
      BY <3>1, <3>2
  <2>3. Goes(k, m + 1)
    BY <2>2
  <2>4. m + 1 \in Nat
    OBVIOUS
  <2> QED
    BY <2>3, <2>4
<1>3. T = Nat
  <2> HIDE DEF T
  <2>1. T \in SUBSET Nat
    BY DEF T
  <2> QED
    BY <1>1, <1>2, <2>1, AllNumbers
<1>4. \E g : Goes(g, n)
  BY <1>3
<1>5. Goes(Kept(emits, kinds), n)
  <2>1. Kept(emits, kinds) = CHOOSE g : Goes(g, n)
    BY DEF Kept, Add
  <2> HIDE DEF Goes
  <2> QED
    BY <1>4, <2>1
<1> DEFINE r == Kept(emits, kinds)
<1> HIDE DEF r
<1>6. Goes(r, n)
  BY <1>5 DEF r
<1>7. n \in Nat
  OBVIOUS
<1> HIDE DEF n
<1>8. r[0] = <<>> /\ \A i \in 1 .. n : r[i] = Add(r[i - 1], i)
  <2>1. \A i \in 0 .. n : r[i] = IF i = 0 THEN <<>> ELSE Add(r[i - 1], i)
    BY <1>6
  <2>2. \A i \in 1 .. n : i \in 0 .. n /\ i # 0
    BY <1>7
  <2>3. 0 \in 0 .. n
    BY <1>7
  <2> QED
    BY <2>1, <2>2, <2>3
<1> QED
  BY <1>8 DEF r, n, Add

\* None of them is of another kind.
LEMMA KeptOf ==
    ASSUME NEW S, NEW emits \in Seq(S), NEW kinds
    PROVE  Kept(emits, kinds)[Len(emits)] \in Seq({e \in S : e.kind \in kinds})
<1> DEFINE n == Len(emits)
           U == {e \in S : e.kind \in kinds}
           r == Kept(emits, kinds)
           T == {i \in Nat : i <= n => r[i] \in Seq(U)}
<1>1. n \in Nat /\ \A i \in 1 .. n : emits[i] \in S
  OBVIOUS
<1>2. /\ r[0] = <<>>
      /\ \A i \in 1 .. n :
            r[i] = IF emits[i].kind \in kinds THEN Append(r[i - 1], emits[i]) ELSE r[i - 1]
  BY <1>1, KeptIs
<1>3. \A i \in 1 .. n : emits[i].kind \in kinds => emits[i] \in U
  BY <1>1
<1> HIDE DEF n, U, r
<1>4. 0 \in T
  <2>1. r[0] \in Seq(U)
    BY <1>2
  <2> QED
    BY <2>1
<1>5. ASSUME NEW i \in T PROVE i + 1 \in T
  <2> SUFFICES ASSUME i + 1 <= n PROVE r[i + 1] \in Seq(U)
    OBVIOUS
  <2>1. i + 1 \in 1 .. n /\ (i + 1) - 1 = i /\ r[i] \in Seq(U)
    BY <1>1
  <2>2. r[i + 1] = IF emits[i + 1].kind \in kinds THEN Append(r[i], emits[i + 1]) ELSE r[i]
    BY <1>2, <2>1
  <2> QED
    BY <1>3, <2>1, <2>2
<1>6. T = Nat
  <2> HIDE DEF T
  <2>1. T \in SUBSET Nat
    BY DEF T
  <2> QED
    BY <1>4, <1>5, <2>1, AllNumbers
<1>7. r[n] \in Seq(U)
  BY <1>1, <1>6
<1> QED
  BY <1>7 DEF n, r, U

\* A transaction has an output event for each index it takes.
LEMMA OutputsCounted ==
    ASSUME NEW tx, tx.fate \in {"success", "failure"}, tx.outputs \in Nat,
           tx.emits \in Seq(Range(tx.emits)),
           NEW row, row.events = LedgerEvents(tx)
    PROVE  Cardinality(OutputEvents(row)) = Outputs(tx)
<1>1. CASE Failed(tx)
  <2>1. row.events = <<>>
    BY <1>1 DEF LedgerEvents, Result, Failed
  <2>2. OutputEvents(row) = {}
    BY <2>1 DEF OutputEvents
  <2> QED
    BY <1>1, <2>2, FS_EmptySet DEF Outputs
<1>2. CASE ~Failed(tx)
  <2> DEFINE o == [i \in 1 .. tx.outputs |-> [kind |-> "output"]]
             kept == Kept(tx.emits, EventKinds)[Len(tx.emits)]
             k == [i \in DOMAIN kept |-> Event(kept[i])]
  <2>1. row.events = o \o k
    BY <1>2 DEF LedgerEvents, Result, Failed
  <2>2. /\ \A i \in DOMAIN kept : kept[i].kind # "output"
        /\ Len(kept) \in Nat /\ DOMAIN kept = 1 .. Len(kept)
    <3> DEFINE V == {e \in Range(tx.emits) : e.kind \in EventKinds}
    <3>1. kept \in Seq(V)
      BY KeptOf
    <3>2. \A e \in V : e.kind # "output"
      BY DEF EventKinds
    <3> HIDE DEF kept, V
    <3> QED
      BY <3>1, <3>2
  <2> DEFINE S == {Event(kept[i]) : i \in DOMAIN kept}
  <2>3. k \in Seq(S) /\ \A e \in S : e.kind # "output"
    <3>1. ASSUME NEW i, kept[i].kind # "output" PROVE Event(kept[i]).kind # "output"
      BY <3>1 DEF Event
    <3> HIDE DEF kept
    <3>2. k \in [1 .. Len(kept) -> S]
      BY <2>2
    <3>3. k \in Seq(S)
      <4> HIDE DEF S
      <4> QED
        BY <2>2, <3>2
    <3> QED
      BY <2>2, <3>1, <3>3
  <2>4. o \in Seq({[kind |-> "output"]}) /\ Len(o) = tx.outputs
        /\ \A i \in 1 .. tx.outputs : o[i].kind = "output"
    OBVIOUS
  <2> HIDE DEF o, k, S
  <2>5. Len(k) \in Nat /\ \A i \in 1 .. Len(k) : k[i].kind # "output"
    BY <2>3
  <2>6. /\ DOMAIN row.events = 1 .. tx.outputs + Len(k)
        /\ \A i \in 1 .. tx.outputs + Len(k) :
              row.events[i] = IF i <= tx.outputs THEN o[i] ELSE k[i - tx.outputs]
    <3> DEFINE U == S \cup {[kind |-> "output"]}
    <3>1. o \in Seq(U) /\ k \in Seq(U)
      BY <2>3, <2>4
    <3> QED
      BY <2>1, <2>4, <3>1
  <2>7. OutputEvents(row) = 1 .. tx.outputs
    <3>1. ASSUME NEW i \in 1 .. tx.outputs + Len(k)
          PROVE  row.events[i].kind = "output" <=> i <= tx.outputs
      <4>1. CASE i <= tx.outputs
        BY <2>4, <2>6, <4>1
      <4>2. CASE ~(i <= tx.outputs)
        <5>1. i - tx.outputs \in 1 .. Len(k)
          BY <2>5, <4>2
        <5> QED
          BY <2>5, <2>6, <4>2, <5>1
      <4> QED
        BY <4>1, <4>2
    <3>2. OutputEvents(row) = {i \in 1 .. tx.outputs + Len(k) : i <= tx.outputs}
      BY <2>6, <3>1 DEF OutputEvents
    <3> QED
      BY <2>5, <3>2
  <2>8. Cardinality(1 .. tx.outputs) = tx.outputs
    BY FS_Interval
  <2> QED
    BY <1>2, <2>7, <2>8 DEF Outputs
<1> QED
  BY <1>1, <1>2

\* A row more takes the outputs it spends from those before and its own.
LEMMA UnspentAppend ==
    ASSUME NEW S, NEW rows \in Seq(S), NEW r \in S
    PROVE  Unspent(Append(rows, r)) = (Unspent(rows) \cup r.created) \ r.spent
<1> DEFINE n == Len(rows)
           more == Append(rows, r)
<1>1. /\ n \in Nat /\ DOMAIN rows = 1 .. n /\ DOMAIN more = 1 .. n + 1 /\ Len(more) = n + 1
      /\ more[n + 1] = r /\ \A i \in 1 .. n : more[i] = rows[i]
  OBVIOUS
<1> HIDE DEF n, more
<1>2. ASSUME NEW x
      PROVE  /\ x \in Unspent(rows) <=>
                   \E i \in 1 .. n : /\ x \in rows[i].created
                                     /\ \A j \in i .. n : x \notin rows[j].spent
             /\ x \in Unspent(more) <=>
                   \E i \in 1 .. n + 1 : /\ x \in more[i].created
                                         /\ \A j \in i .. n + 1 : x \notin more[j].spent
  BY <1>1 DEF Unspent, n
<1>3. ASSUME NEW x, NEW i \in 1 .. n
      PROVE  (\A j \in i .. n + 1 : x \notin more[j].spent) <=>
                (\A j \in i .. n : x \notin rows[j].spent) /\ x \notin r.spent
  <2>1. i .. n + 1 = (i .. n) \cup {n + 1} /\ \A j \in i .. n : j \in 1 .. n
    BY <1>1
  <2> QED
    BY <1>1, <2>1
<1>4. ASSUME NEW x
      PROVE  x \in Unspent(more) <=> (x \in Unspent(rows) \/ x \in r.created) /\ x \notin r.spent
  <2>1. 1 .. n + 1 = (1 .. n) \cup {n + 1} /\ n + 1 .. n + 1 = {n + 1}
    BY <1>1
  <2>2. (\E i \in 1 .. n + 1 : /\ x \in more[i].created
                               /\ \A j \in i .. n + 1 : x \notin more[j].spent)
          <=> \/ \E i \in 1 .. n : /\ x \in rows[i].created
                                   /\ \A j \in i .. n : x \notin rows[j].spent
                                   /\ x \notin r.spent
              \/ x \in r.created /\ x \notin r.spent
    BY <1>1, <1>3, <2>1
  <2> QED
    BY <1>2, <2>2
<1> QED
  BY <1>4 DEF more

\* And takes the ranges on.
LEMMA RangesAppend ==
    ASSUME NEW S, NEW rows \in Seq(S), NEW r \in S, RangesMeet(rows),
           r.start = (IF rows = <<>> THEN 0 ELSE Last(rows).end),
           r.end - r.start = Cardinality(OutputEvents(r))
    PROVE  RangesMeet(Append(rows, r))
<1> DEFINE n == Len(rows)
           more == Append(rows, r)
<1>1. /\ n \in Nat /\ DOMAIN rows = 1 .. n /\ DOMAIN more = 1 .. n + 1
      /\ more[n + 1] = r /\ (\A i \in 1 .. n : more[i] = rows[i])
      /\ (rows = <<>> <=> n = 0) /\ Last(rows) = rows[n]
  BY DEF Last
<1> HIDE DEF n, more
<1>2. ASSUME NEW i \in 1 .. n + 1
      PROVE  /\ more[i].start = IF i = 1 THEN 0 ELSE more[i - 1].end
             /\ more[i].end - more[i].start = Cardinality(OutputEvents(more[i]))
  <2>1. CASE i = n + 1
    <3>1. i # 1 => n \in 1 .. n /\ i - 1 = n
      BY <1>1, <2>1
    <3> QED
      BY <1>1, <2>1, <3>1
  <2>2. CASE i # n + 1
    <3>1. i \in 1 .. n /\ (i # 1 => i - 1 \in 1 .. n)
      BY <1>1, <2>2
    <3>2. /\ rows[i].start = IF i = 1 THEN 0 ELSE rows[i - 1].end
          /\ rows[i].end - rows[i].start = Cardinality(OutputEvents(rows[i]))
      BY <1>1, <3>1 DEF RangesMeet
    <3> QED
      BY <1>1, <3>1, <3>2
  <2> QED
    BY <2>1, <2>2
<1> QED
  BY <1>1, <1>2 DEF RangesMeet, more

\* The outputs and the first free index of a state after a transaction.
LEMMA AppliedFields ==
    ASSUME NEW s, IsState(s), NEW tx, NEW time, NEW before,
           tx.fate \in {"success", "failure"}
    PROVE  LET t == LedgerApply(s, tx, time, before)
           IN  /\ t.utxos = (s.utxos \cup Created(tx)) \ Spent(tx)
               /\ t.free = IF Failed(tx) THEN s.free ELSE s.free + tx.outputs
<1> DEFINE a == (s.utxos \cup LedgerOut(tx)) \ LedgerIn(tx)
           b == s.free + Outputs(tx)
           c == Changed(s.contracts, tx)
           d == Append(s.mark, <<time, before>>)
<1>1. LedgerApply(s, tx, time, before) =
         IF Failed(tx) THEN s
         ELSE [s EXCEPT !.utxos = a, !.free = b, !.contracts = c, !.mark = d]
  BY DEF LedgerApply
<1> HIDE DEF a, b, c, d
<1> DEFINE u == [s EXCEPT !.utxos = a, !.free = b, !.contracts = c, !.mark = d]
<1>2. u.utxos = a /\ u.free = b
  BY DEF IsState, Fields
<1> HIDE DEF u
<1>3. Failed(tx) => Created(tx) = {} /\ Spent(tx) = {}
  <2> SUFFICES ASSUME Failed(tx) PROVE Created(tx) = {} /\ Spent(tx) = {}
    OBVIOUS
  <2>1. Result(tx).kind = "failure"
    BY DEF Failed, Result
  <2> QED
    BY <2>1 DEF Created, Spent
<1> DEFINE t == LedgerApply(s, tx, time, before)
<1>4. Failed(tx) => t = s
  BY <1>1
<1>5. ~Failed(tx) => t = u
  BY <1>1 DEF u
<1> HIDE DEF t
<1>6. t.utxos = (s.utxos \cup Created(tx)) \ Spent(tx)
  <2>1. CASE Failed(tx)
    BY <1>3, <1>4, <2>1
  <2>2. CASE ~Failed(tx)
    <3>1. a = (s.utxos \cup Created(tx)) \ Spent(tx)
      BY DerivedIsApplied DEF a
    <3> QED
      BY <1>2, <1>5, <2>2, <3>1
  <2> QED
    BY <2>1, <2>2
<1>7. t.free = IF Failed(tx) THEN s.free ELSE s.free + tx.outputs
  BY <1>2, <1>4, <1>5 DEF b, Outputs
<1> QED
  BY <1>6, <1>7 DEF t

\* What is derived of a transaction accounts for what it does to the state.
LEMMA IndexedAppend ==
    ASSUME NEW S, NEW rows \in Seq(S), NEW r \in S, NEW s, IsState(s), Indexed(rows, s),
           NEW tx, NEW time, NEW before,
           tx.fate \in {"success", "failure"}, tx.outputs \in Nat,
           tx.emits \in Seq(Range(tx.emits)),
           r.created = Created(tx), r.spent = Spent(tx), r.events = LedgerEvents(tx),
           r.start = s.free, r.end = LedgerApply(s, tx, time, before).free
    PROVE  Indexed(Append(rows, r), LedgerApply(s, tx, time, before))
<1> DEFINE t == LedgerApply(s, tx, time, before)
<1>1. /\ t.utxos = (s.utxos \cup Created(tx)) \ Spent(tx)
      /\ t.free = IF Failed(tx) THEN s.free ELSE s.free + tx.outputs
  BY AppliedFields
<1>2. /\ Unspent(rows) = s.utxos /\ RangesMeet(rows) /\ s.free \in Nat
      /\ s.free = IF rows = <<>> THEN 0 ELSE Last(rows).end
  BY DEF Indexed
<1>3. r.end = t.free
  OBVIOUS
<1> HIDE DEF t
<1>4. Unspent(Append(rows, r)) = t.utxos
  <2>1. Unspent(Append(rows, r)) = (s.utxos \cup Created(tx)) \ Spent(tx)
    BY <1>2, UnspentAppend
  <2> QED
    BY <1>1, <2>1
<1>5. Cardinality(OutputEvents(r)) = IF Failed(tx) THEN 0 ELSE tx.outputs
  BY OutputsCounted DEF Outputs
<1>6. t.free \in Nat /\ r.end - r.start = Cardinality(OutputEvents(r))
  BY <1>1, <1>2, <1>3, <1>5
<1>7. RangesMeet(Append(rows, r))
  BY <1>2, <1>6, RangesAppend
<1>8. Append(rows, r) # <<>> /\ Last(Append(rows, r)) = r
  BY DEF Last
<1>9. Indexed(Append(rows, r), t)
  BY <1>3, <1>4, <1>6, <1>7, <1>8 DEF Indexed
<1> QED
  BY <1>9 DEF t

\* While the store stays and no block is under way nothing is to be shown.
LEMMA IdleIndex ==
    ASSUME IndexInv, disk' = disk, derived' = <<>>, pc' # "apply"
    PROVE  IndexInv'
<1>1. /\ disk.rows \in Seq(Range(disk.rows))
      /\ \A r \in Range(disk.rows) : r.block \in 0 .. disk.tip
      /\ disk.tip = -1 => disk.rows = <<>>
      /\ disk.tip >= 0 => /\ Indexed(disk.rows, disk.state)
                          /\ \A r \in Range(disk.rows) :
                                r.block = disk.tip => ActionsOf(r, disk.state.contracts)
  BY DEF IndexInv
<1>2. derived' \in Seq(Range(derived'))
  OBVIOUS
<1> QED
  BY <1>1, <1>2 DEF IndexInv

LEMMA InitIndex == Init => IndexInv
<1> SUFFICES ASSUME Init PROVE IndexInv
  OBVIOUS
<1>1. /\ pc = "down" /\ derived = <<>> /\ disk.tip = -1 /\ disk.rows = <<>>
  BY DEF Init, NoProcess
<1>2. Range(disk.rows) = {}
  BY <1>1 DEF Range
<1>3. disk.rows \in Seq(Range(disk.rows)) /\ derived \in Seq(Range(derived))
  BY <1>1
<1> QED
  BY <1>1, <1>2, <1>3 DEF IndexInv

LEMMA StartIndex == IndexInv /\ Start => IndexInv'
<1> SUFFICES ASSUME IndexInv, Start PROVE IndexInv'
  OBVIOUS
<1>1. disk' = disk /\ derived' = <<>> /\ pc' # "apply"
  BY DEF Start, IndexInv
<1> QED
  BY <1>1, IdleIndex

LEMMA CrashIndex == IndexInv /\ Crash => IndexInv'
<1> SUFFICES ASSUME IndexInv, Crash PROVE IndexInv'
  OBVIOUS
<1>1. disk' = disk /\ derived' = <<>> /\ pc' # "apply"
  BY DEF Crash
<1> QED
  BY <1>1, IdleIndex

\* Nothing is derived yet, so the state must be that of the store.
LEMMA BeginIndex == ReplayInv /\ IndexInv /\ Begin => IndexInv'
<1> SUFFICES ASSUME ReplayInv, IndexInv, Begin PROVE IndexInv'
  OBVIOUS
<1>1. /\ pc = "fetch" /\ disk' = disk /\ derived' = derived /\ chain' = chain
      /\ at' = at /\ Height \in Heights
  BY DEF Begin
<1>2. derived = <<>> /\ at = 0 /\ chain \in Chains
  BY <1>1 DEF IndexInv, ReplayInv, IdleInv
<1>3. CASE ~Translates
  <2>1. pc' = "failed"
    BY <1>3 DEF Begin
  <2> QED
    BY <1>1, <1>2, <2>1, IdleIndex
<1>4. CASE Translates
  <2>1. /\ pc' = "apply"
        /\ ledger' = IF Height > 0 THEN ledger
                     ELSE IF GenesisPost THEN New(B.version) ELSE GenesisState
        /\ genesis' = IF Height = 0 /\ GenesisPost THEN <<GenesisState>> ELSE <<>>
    BY <1>4 DEF Begin
  <2>2. /\ disk.rows \in Seq(Range(disk.rows))
        /\ \A r \in Range(disk.rows) : r.block \in 0 .. disk.tip
        /\ disk.tip = -1 => disk.rows = <<>>
        /\ disk.tip >= 0 => /\ Indexed(disk.rows, disk.state)
                            /\ \A r \in Range(disk.rows) :
                                  r.block = disk.tip => ActionsOf(r, disk.state.contracts)
    BY DEF IndexInv
  <2>3. disk.rows \o <<>> = disk.rows
    BY <2>2
  <2>4. Height \in Nat /\ disk.tip = Height - 1 /\ Height' = Height
    BY <1>1, <1>2, ChainIs DEF Height, Heights, ReplayInv, StoreInv
  <2>5. Node' = Node /\ Before0' = Before0 /\ \A s, h : Replayed(s, h)' = Replayed(s, h)
    BY <1>1, SameChain
  <2>6. Height = 0 => Replayed(Before0, 0)[0] = Before0
    BY <1>1, <1>2, ChainIs, ReplayedIs
  <2>7. /\ \A v : IsState(New(v)) /\ New(v).utxos = {} /\ New(v).free = 0
        /\ IsState(Before0) /\ Before0.utxos = {} /\ Before0.free = 0
    BY DEF New, Before0, IsState, Fields
  <2>8. Height = 0 => \/ ledger' = New(B.version)
                      \/ ledger' = Before0
    <3> SUFFICES ASSUME Height = 0, ~GenesisPost PROVE GenesisState = Before0
      BY <2>1, <2>4
    <3>1. Node[0] = NodeBlock(Before0, 0)
      BY <1>1, <1>2, ChainIs, NodeIs DEF Heights
    <3> QED
      BY <3>1 DEF GenesisPost, GenesisState
  <2>9. Height = 0 => /\ IsState(ledger') /\ ledger'.utxos = {} /\ ledger'.free = 0
    BY <2>7, <2>8
  <2>10. Height > 0 => /\ ledger' = disk.state /\ IsState(disk.state)
                       /\ Indexed(disk.rows, disk.state)
    <3> SUFFICES ASSUME Height > 0
                 PROVE  /\ ledger = disk.state /\ IsState(disk.state)
                        /\ Indexed(disk.rows, disk.state)
      BY <2>1
    <3>1. disk.tip >= 0 /\ disk.tip \in Heights
      BY <1>1, <1>2, <2>4, ChainIs DEF Heights
    <3>2. ledger = disk.state /\ disk.state = Node[disk.tip]
      BY <1>1, <3>1 DEF ReplayInv, IdleInv, StoreInv
    <3> QED
      BY <1>2, <2>2, <3>1, <3>2, NodeVersion
  <2>11. Height = 0 => Indexed(disk.rows, ledger')
    <3> SUFFICES ASSUME Height = 0 PROVE Indexed(disk.rows, ledger')
      OBVIOUS
    <3>1. disk.rows = <<>>
      BY <2>2, <2>4
    <3>2. DOMAIN disk.rows = {}
      BY <3>1
    <3>3. Unspent(disk.rows) = {} /\ RangesMeet(disk.rows)
      BY <3>2 DEF Unspent, RangesMeet
    <3>4. ledger'.utxos = {} /\ ledger'.free = 0
      BY <2>9
    <3>5. ledger'.free = IF disk.rows = <<>> THEN 0 ELSE Last(disk.rows).end
      BY <3>1, <3>4
    <3>6. ledger'.free \in Nat
      BY <3>4
    <3> QED
      BY <3>3, <3>4, <3>5, <3>6 DEF Indexed
  <2>12. IsState(ledger') /\ Indexed(disk.rows \o derived', ledger')
    BY <1>1, <1>2, <2>3, <2>4, <2>9, <2>10, <2>11
  <2>13. Height = 0 => LET s == Replayed(Before0, 0)[at]
                       IN  ledger'.utxos = s.utxos /\ ledger'.free = s.free
    BY <1>2, <2>6, <2>7, <2>9
  <2>14. derived' \in Seq(Range(derived')) /\ Range(derived') = {}
    BY <1>1, <1>2 DEF Range
  <2> QED
    BY <1>1, <2>1, <2>2, <2>4, <2>5, <2>12, <2>13, <2>14 DEF IndexInv
<1> QED
  BY <1>3, <1>4

LEMMA StutterIndex == IndexInv /\ UNCHANGED vars => IndexInv'
<1> SUFFICES ASSUME IndexInv, UNCHANGED vars PROVE IndexInv'
  OBVIOUS
<1> USE DEF vars, memory
<1>1. Height' = Height /\ Node' = Node /\ Before0' = Before0
      /\ \A s, h : Replayed(s, h)' = Replayed(s, h)
  BY SameChain DEF Height
<1> QED
  BY <1>1 DEF IndexInv

\* A sequence more and an element more, in either order.
LEMMA ConcatAppend ==
    ASSUME NEW S, NEW p \in Seq(S), NEW q \in Seq(S), NEW e \in S
    PROVE  p \o Append(q, e) = Append(p \o q, e)
<1>1. Append(q, e) = q \o <<e>> /\ <<e>> \in Seq(S) /\ p \o q \in Seq(S)
  BY AppendIsConcat
<1>2. Append(p \o q, e) = (p \o q) \o <<e>>
  BY <1>1, AppendIsConcat
<1>3. (p \o q) \o <<e>> = p \o (q \o <<e>>)
  BY <1>1, ConcatAssociative
<1> QED
  BY <1>1, <1>2, <1>3

\* What a transaction may be.
LEMMA TransactionIs ==
    ASSUME ReplayInv, pc = "apply", at < Len(B.txs)
    PROVE  LET tx == B.txs[at + 1]
           IN  /\ tx.fate \in {"success", "failure"} /\ tx.outputs \in Nat
               /\ tx.emits \in Seq(Range(tx.emits))
<1>1. /\ chain \in Chains /\ Height \in Heights /\ B = Block(Height)
      /\ Len(B.txs) \in Nat /\ DOMAIN B.txs = 1 .. Len(B.txs) /\ at \in Nat
  BY Underway
<1>2. Len(Blocks) \in Nat /\ DOMAIN Blocks = 1 .. Len(Blocks)
  BY <1>1, ChainIs
<1>3. B \in Range(chain.blocks)
  BY <1>1, <1>2 DEF Heights, Block, Blocks, Range
<1>4. at + 1 \in DOMAIN B.txs
  BY <1>1
<1>5. B.txs[at + 1] \in Range(B.txs)
  BY <1>4 DEF Range
<1> QED
  BY <1>1, <1>3, <1>5, ChainsAssumption

\* Every action has the state of its contract at the end of the block.
LEMMA ActionsFetched ==
    ASSUME NEW tx, NEW r, r.actions = Actions(tx)
    PROVE  ActionsOf(r, Node[Height].contracts)
<1> DEFINE state(a) == Node[Height].contracts[a.contract]
<1> SUFFICES ASSUME NEW a \in Range(r.actions)
             PROVE  /\ a.hash = <<>> <=> state(a) = 0
                    /\ state(a) # 0 => a.hash = <<state(a)>>
                    /\ a.balances \subseteq {state(a)} \ Opaque
  BY DEF ActionsOf
<1>1. PICK i \in DOMAIN tx.acts : a = r.actions[i]
  BY DEF Actions, Range
<1> DEFINE f == FetchedState(tx.acts[i].contract)
<1>2. a = [contract |-> tx.acts[i].contract, kind |-> tx.acts[i].kind,
           hash     |-> IF f = 0 THEN <<>> ELSE <<f>>,
           balances |-> IF f = 0 THEN {} ELSE Balances(f)]
  BY <1>1 DEF Actions
<1>3. f = Node[Height].contracts[tx.acts[i].contract]
  BY DEF FetchedState
<1> HIDE DEF f
<1>4. /\ a.contract = tx.acts[i].contract
      /\ a.hash = (IF f = 0 THEN <<>> ELSE <<f>>)
      /\ a.balances = (IF f = 0 THEN {} ELSE Balances(f))
  BY <1>2
<1>5. state(a) = f
  BY <1>3, <1>4
<1>6. Balances(f) \subseteq {f} \ Opaque
  BY DEF Balances
<1>7. <<f>> # <<>>
  OBVIOUS
<1> QED
  BY <1>4, <1>5, <1>6, <1>7

\* What a transaction does to state and index agrees.
LEMMA ApplyIndex ==
    ASSUME ReplayInv, IndexInv, pc = "apply", at < Len(B.txs), Apply(B.txs[at + 1])
    PROVE  IndexInv'
<1> DEFINE tx == B.txs[at + 1]
           r == Derived(tx, ledger')
           S == Range(disk.rows) \cup Range(derived) \cup {r}
           rows == disk.rows \o derived
<1>1. /\ ledger' = LedgerApply(ledger, tx, B.time, parent)
      /\ derived' = Append(derived, r) /\ at' = at + 1
      /\ chain' = chain /\ pc' = pc /\ disk' = disk
  BY DEF Apply
<1>2. /\ chain \in Chains /\ Height \in Heights /\ Height \in Nat /\ B = Block(Height)
      /\ Len(B.txs) \in Nat /\ at \in Nat
  BY Underway
<1>3. at + 1 \in 1 .. Len(B.txs) /\ (at + 1) - 1 = at /\ at \in 0 .. Len(B.txs)
  BY <1>2
<1>4. /\ tx.fate \in {"success", "failure"} /\ tx.outputs \in Nat
      /\ tx.emits \in Seq(Range(tx.emits))
  BY TransactionIs
<1>5. /\ disk.rows \in Seq(Range(disk.rows)) /\ derived \in Seq(Range(derived))
      /\ \A q \in Range(disk.rows) : q.block \in 0 .. disk.tip
      /\ disk.tip = -1 => disk.rows = <<>>
      /\ disk.tip >= 0 => /\ Indexed(disk.rows, disk.state)
                          /\ \A q \in Range(disk.rows) :
                                q.block = disk.tip => ActionsOf(q, disk.state.contracts)
      /\ IsState(ledger) /\ Indexed(rows, ledger)
      /\ \A q \in Range(derived) : q.block = Height /\ ActionsOf(q, Node[Height].contracts)
      /\ Height = 0 => LET s == Replayed(Before0, 0)[at]
                       IN  ledger.utxos = s.utxos /\ ledger.free = s.free
  BY DEF IndexInv
<1>6. /\ r.block = Height /\ r.created = Created(tx) /\ r.spent = Spent(tx)
      /\ r.events = LedgerEvents(tx) /\ r.actions = Actions(tx)
      /\ r.start = ledger.free /\ r.end = ledger'.free
  BY DEF Derived
<1>7. Height = 0 => LET s == Replayed(Before0, 0)[at + 1]
                    IN  ledger'.utxos = s.utxos /\ ledger'.free = s.free
  <2> SUFFICES ASSUME Height = 0
               PROVE  LET s == Replayed(Before0, 0)[at + 1]
                      IN  ledger'.utxos = s.utxos /\ ledger'.free = s.free
    OBVIOUS
  <2> DEFINE s == Replayed(Before0, 0)[at]
             t == Replayed(Before0, 0)[at + 1]
  <2>1. t = LedgerApply(s, tx, Block(0).time, TimeBefore(0))
    BY <1>2, <1>3, ReplayedIs
  <2>2. IsState(Before0)
    BY DEF New, Before0, IsState, Fields
  <2>3. IsState(s)
    BY <1>2, <1>3, <2>2, BlockVersion
  <2>4. ledger.utxos = s.utxos /\ ledger.free = s.free
    BY <1>5
  <2> HIDE DEF s, t, tx
  <2>5. /\ t.utxos = (s.utxos \cup Created(tx)) \ Spent(tx)
        /\ t.free = IF Failed(tx) THEN s.free ELSE s.free + tx.outputs
    BY <1>4, <2>1, <2>3, AppliedFields
  <2>6. /\ ledger'.utxos = (ledger.utxos \cup Created(tx)) \ Spent(tx)
        /\ ledger'.free = IF Failed(tx) THEN ledger.free ELSE ledger.free + tx.outputs
    BY <1>1, <1>4, <1>5, AppliedFields
  <2>7. ledger'.utxos = t.utxos /\ ledger'.free = t.free
    BY <2>4, <2>5, <2>6
  <2> QED
    BY <2>7 DEF t
<1>8. IsState(ledger')
  BY <1>1, <1>5, VersionKept
<1>9. ActionsOf(r, Node[Height].contracts)
  BY <1>6, ActionsFetched
<1> HIDE DEF r, tx
<1>10. rows \in Seq(S) /\ r \in S /\ disk.rows \o Append(derived, r) = Append(rows, r)
  <2>1. disk.rows \in Seq(S) /\ derived \in Seq(S) /\ r \in S
    BY <1>5
  <2> HIDE DEF S, r
  <2>2. rows \in Seq(S)
    BY <2>1
  <2> DEFINE old == disk.rows
             new == derived
  <2>3. old \in Seq(S) /\ new \in Seq(S) /\ r \in S
    BY <2>1
  <2> HIDE DEF old, new
  <2>4. old \o Append(new, r) = Append(old \o new, r)
    BY <2>3, ConcatAppend
  <2> QED
    BY <2>1, <2>2, <2>4 DEF old, new
<1> HIDE DEF S
<1>11. Indexed(Append(rows, r), ledger')
  <2>1. r.end = LedgerApply(ledger, tx, B.time, parent).free
    BY <1>1, <1>6
  <2> HIDE DEF rows
  <2> QED
    BY <1>1, <1>4, <1>5, <1>6, <1>10, <2>1, IndexedAppend
<1>12. Range(Append(derived, r)) = Range(derived) \cup {r}
       /\ Append(derived, r) \in Seq(Range(Append(derived, r)))
  <2>1. derived \in Seq(S)
    BY <1>5 DEF S
  <2>2. /\ DOMAIN derived = 1 .. Len(derived) /\ Len(derived) \in Nat
        /\ DOMAIN Append(derived, r) = 1 .. Len(derived) + 1
        /\ \A i \in 1 .. Len(derived) : Append(derived, r)[i] = derived[i]
        /\ Append(derived, r)[Len(derived) + 1] = r
    BY <1>10, <2>1
  <2>3. Range(Append(derived, r)) = Range(derived) \cup {r}
    <3>1. 1 .. Len(derived) + 1 = (1 .. Len(derived)) \cup {Len(derived) + 1}
      BY <2>2
    <3> QED
      BY <2>2, <3>1 DEF Range
  <2>4. derived \in Seq(Range(derived) \cup {r})
    BY <1>5
  <2> QED
    BY <2>3, <2>4
<1>13. Height' = Height /\ Node' = Node /\ Before0' = Before0
       /\ \A s, h : Replayed(s, h)' = Replayed(s, h)
  BY <1>1, SameChain DEF Height
<1>14. disk'.rows \o derived' = Append(rows, r)
  BY <1>1, <1>10
<1>15. \A q \in Range(derived') : q.block = Height /\ ActionsOf(q, Node[Height].contracts)
  BY <1>1, <1>5, <1>6, <1>9, <1>12
<1> HIDE DEF rows
<1> QED
  BY <1>1, <1>5, <1>7, <1>8, <1>11, <1>12, <1>13, <1>14, <1>15 DEF IndexInv

LEMMA ApplyRegularIndex == ReplayInv /\ IndexInv /\ ApplyRegular => IndexInv'
<1> SUFFICES ASSUME ReplayInv, IndexInv, ApplyRegular PROVE IndexInv'
  OBVIOUS
<1>1. pc = "apply" /\ at < Len(B.txs) /\ IsRegular(B.txs[at + 1])
  BY DEF ApplyRegular
<1>2. Accepts(B.txs[at + 1])
  BY <1>1, NodeAccepted
<1>3. Apply(B.txs[at + 1])
  BY <1>2 DEF ApplyRegular
<1> QED
  BY <1>1, <1>3, ApplyIndex

LEMMA ApplySystemIndex == ReplayInv /\ IndexInv /\ ApplySystem => IndexInv'
  BY ApplyIndex DEF ApplySystem

\* The end of a block changes nothing the index holds, and the state of the
\* genesis has the outputs its transactions were replayed to.
LEMMA FinishIndex == ReplayInv /\ IndexInv /\ Finish => IndexInv'
<1> SUFFICES ASSUME ReplayInv, IndexInv, Finish PROVE IndexInv'
  OBVIOUS
<1> DEFINE final == IF genesis # <<>> THEN genesis[1]
                    ELSE PostBlock(ledger, Clamped(fullness), B.time)
           rows == disk.rows \o derived
<1>1. pc = "apply" /\ at = Len(B.txs) /\ chain' = chain
  BY DEF Finish
<1>2. /\ chain \in Chains /\ Height \in Heights /\ Height \in Nat /\ B = Block(Height)
      /\ Len(B.txs) \in Nat /\ at \in Nat /\ disk.tip = Height - 1
  BY <1>1, Underway
<1>3. final = Node[Height]
  BY <1>1, NodeFinishes
<1>4. pc' = "fetch" /\ derived' = <<>>
      /\ disk' = [tip |-> Height, time |-> B.time, state |-> final, rows |-> rows]
  <2>1. (B.rooted => final = Node[Height]) /\ final.free = Node[Height].free
    BY <1>3
  <2> QED
    BY <2>1 DEF Finish
<1>5. /\ disk.rows \in Seq(Range(disk.rows)) /\ derived \in Seq(Range(derived))
      /\ \A r \in Range(disk.rows) : r.block \in 0 .. disk.tip
      /\ IsState(ledger) /\ Indexed(rows, ledger)
      /\ \A r \in Range(derived) : r.block = Height /\ ActionsOf(r, Node[Height].contracts)
      /\ Height = 0 => LET s == Replayed(Before0, 0)[at]
                       IN  ledger.utxos = s.utxos /\ ledger.free = s.free
  BY <1>1 DEF IndexInv
<1>6. ASSUME NEW s, IsState(s), NEW full, NEW time
      PROVE  PostBlock(s, full, time).utxos = s.utxos /\ PostBlock(s, full, time).free = s.free
  <2>1. \A d : [s EXCEPT !.mark = d].utxos = s.utxos /\ [s EXCEPT !.mark = d].free = s.free
    BY <1>6 DEF IsState, Fields
  <2> QED
    BY <2>1 DEF PostBlock
<1>7. Node[Height].utxos = ledger.utxos /\ Node[Height].free = ledger.free
  <2>1. CASE genesis = <<>>
    BY <1>3, <1>5, <1>6, <2>1
  <2>2. CASE genesis # <<>>
    <3>1. Height = 0
      BY <1>1, <1>2, <2>2 DEF ReplayInv, ApplyInv
    <3> DEFINE s == Replayed(Before0, 0)[at]
    <3>2. Node[0] = NodeBlock(Before0, 0)
      BY <1>2, <3>1, ChainIs, NodeIs DEF Heights
    <3>3. Node[0] = PostBlock(s, Clamped(Counted(Block(0).txs)[at]), Block(0).time)
      BY <1>1, <1>2, <3>1, <3>2 DEF NodeBlock
    <3>4. IsState(Before0)
      BY DEF New, Before0, IsState, Fields
    <3>5. IsState(s)
      BY <1>1, <1>2, <3>1, <3>4, BlockVersion
    <3>6. ledger.utxos = s.utxos /\ ledger.free = s.free
      BY <1>5, <3>1
    <3> HIDE DEF s
    <3> QED
      BY <1>6, <3>1, <3>3, <3>5, <3>6
  <2> QED
    BY <2>1, <2>2
<1>8. Indexed(rows, Node[Height])
  <2> HIDE DEF rows
  <2> QED
    BY <1>5, <1>7 DEF Indexed
<1>9. Range(rows) = Range(disk.rows) \cup Range(derived) /\ rows \in Seq(Range(rows))
  <2> DEFINE S == Range(disk.rows) \cup Range(derived)
             old == disk.rows
             new == derived
  <2>1. old \in Seq(S) /\ new \in Seq(S)
    BY <1>5
  <2> HIDE DEF S, old, new
  <2>2. Range(old \o new) = Range(old) \cup Range(new) /\ old \o new \in Seq(S)
    BY <2>1, RangeConcatenation
  <2>3. old \o new \in Seq(Range(old \o new))
    BY <2>2, SeqOfRange
  <2> QED
    BY <2>2, <2>3 DEF old, new
<1>10. \A r \in Range(rows) : r.block \in 0 .. Height
  BY <1>2, <1>5, <1>9
<1>11. \A r \in Range(rows) : r.block = Height => ActionsOf(r, Node[Height].contracts)
  <2>1. \A r \in Range(disk.rows) : r.block # Height
    BY <1>2, <1>5
  <2> QED
    BY <1>5, <1>9, <2>1
<1> HIDE DEF rows, final
<1>12. /\ disk'.tip = Height /\ disk'.state = Node[Height] /\ disk'.rows = rows
       /\ Height >= 0 /\ Height # -1
  BY <1>2, <1>3, <1>4
<1>13. derived' \in Seq(Range(derived'))
  BY <1>4
<1> QED
  BY <1>4, <1>8, <1>9, <1>10, <1>11, <1>12, <1>13 DEF IndexInv

\* Every step preserves what the index holds.
LEMMA IndexStep == ReplayInv /\ IndexInv /\ [Next]_vars => IndexInv'
  BY StartIndex, BeginIndex, ApplyRegularIndex, ApplySystemIndex, FinishIndex,
     CrashIndex, StutterIndex DEF Next, Work

\* The index agrees with the ledger it never reads, after every block and
\* wherever the process died: what it holds as created and not spent is the
\* ledger's outputs, its Zswap ranges lie end to end, and every action of a
\* block has the state its contract has at the end of it.
THEOREM ReplayIndexExact == Spec => []IndexExact
<1>1. ReplayInv /\ IndexInv => IndexExact
  BY DEF ReplayInv, StoreInv, IndexInv, Indexed, IndexExact
<1>2. Spec => []IndexInv
  BY InitIndex, IndexStep, ReplayInductive, PTL DEF Spec
<1> QED
  BY <1>1, <1>2, ReplayInductive, PTL

----------------------------------------------------------------------------
(* The logs: what a field is written as is read back from its offset, stripping *)
(* and padding change nothing but zeros at the end, and the rows of the index   *)
(* are those of the transactions.                                               *)

(* The decoder reads what was written. *)

\* Bytes that are found in others after so many.
Placed(b, offset, c) == \A i \in 1 .. Len(c) : b[offset + i] = c[i]

LEMMA PlacedIn ==
    ASSUME NEW p \in Seq(Nat), NEW q \in Seq(Nat)
    PROVE  /\ p \o q \in Seq(Nat) /\ Len(p \o q) = Len(p) + Len(q)
           /\ Placed(p \o q, Len(p), q)
           /\ \A c \in Seq(Nat), offset \in Nat :
                 offset + Len(c) <= Len(p) /\ Placed(p, offset, c) => Placed(p \o q, offset, c)
<1> DEFINE b == p \o q
<1>1. b \in Seq(Nat) /\ Len(b) = Len(p) + Len(q)
  OBVIOUS
<1>2. \A i \in 1 .. Len(p) + Len(q) : b[i] = IF i <= Len(p) THEN p[i] ELSE q[i - Len(p)]
  OBVIOUS
<1> HIDE DEF b
<1>3. Placed(b, Len(p), q)
  <2> SUFFICES ASSUME NEW i \in 1 .. Len(q) PROVE b[Len(p) + i] = q[i]
    BY DEF Placed
  <2>1. /\ Len(p) + i \in 1 .. Len(p) + Len(q) /\ ~(Len(p) + i <= Len(p))
        /\ (Len(p) + i) - Len(p) = i
    OBVIOUS
  <2> QED
    BY <1>2, <2>1
<1>4. ASSUME NEW c \in Seq(Nat), NEW offset \in Nat, offset + Len(c) <= Len(p),
             Placed(p, offset, c)
      PROVE  Placed(b, offset, c)
  <2> SUFFICES ASSUME NEW i \in 1 .. Len(c) PROVE b[offset + i] = c[i]
    BY DEF Placed
  <2>1. offset + i \in 1 .. Len(p) + Len(q) /\ offset + i <= Len(p)
    BY <1>4
  <2>2. p[offset + i] = c[i]
    BY <1>4 DEF Placed
  <2> QED
    BY <1>2, <2>1, <2>2
<1> QED
  BY <1>1, <1>3, <1>4 DEF b

\* Bytes are found in themselves.
LEMMA PlacedFirst ==
    ASSUME NEW c \in Seq(Nat) PROVE Placed(c, 0, c)
  BY DEF Placed

\* What fields are written as: one after the other.
LEMMA FlattenIs ==
    ASSUME NEW seqs, Len(seqs) \in Nat, Len(seqs) > 0
    PROVE  \E g : /\ g[1] = seqs[1]
                  /\ \A i \in 2 .. Len(seqs) : g[i] = g[i - 1] \o seqs[i]
                  /\ FlattenSeq(seqs) = g[Len(seqs)]
<1> DEFINE n == Len(seqs)
           Add(t, i) == t \o seqs[i]
           Goes(g, m) == g = [i \in 1 .. m |-> IF i = 1 THEN seqs[i] ELSE Add(g[i - 1], i)]
           T == {m \in Nat : \E g : Goes(g, m)}
<1> HIDE DEF Add
<1>1. 0 \in T
  <2>1. Goes([i \in 1 .. 0 |-> 0], 0)
    OBVIOUS
  <2> QED
    BY <2>1
<1>2. ASSUME NEW m \in T PROVE m + 1 \in T
  <2>1. PICK g : Goes(g, m)
    OBVIOUS
  <2> DEFINE k == [i \in 1 .. m + 1 |-> IF i <= m THEN g[i]
                                       ELSE IF i = 1 THEN seqs[i] ELSE Add(g[m], m + 1)]
  <2>2. ASSUME NEW i \in 1 .. m + 1
        PROVE  k[i] = IF i = 1 THEN seqs[i] ELSE Add(k[i - 1], i)
    <3>1. CASE i <= m
      <4>1. i \in 1 .. m /\ k[i] = g[i] /\ (i # 1 => k[i - 1] = g[i - 1])
        BY <3>1
      <4> QED
        BY <2>1, <4>1
    <3>2. CASE i = m + 1
      <4>1. i # 1 => i - 1 = m /\ k[i - 1] = g[m]
        BY <3>2
      <4> QED
        BY <3>2, <4>1
    <3> QED
      BY <3>1, <3>2
  <2>3. Goes(k, m + 1)
    BY <2>2
  <2>4. m + 1 \in Nat
    OBVIOUS
  <2> QED
    BY <2>3, <2>4
<1>3. T = Nat
  <2> HIDE DEF T
  <2>1. T \in SUBSET Nat
    BY DEF T
  <2> QED
    BY <1>1, <1>2, <2>1, AllNumbers
<1>4. \E g : Goes(g, n)
  BY <1>3
<1> DEFINE f == CHOOSE g : Goes(g, n)
<1>5. Goes(f, n)
  <2> HIDE DEF Goes
  <2> QED
    BY <1>4
<1>6. FlattenSeq(seqs) = f[n]
  <2>1. n # 0
    OBVIOUS
  <2> QED
    BY <2>1 DEF FlattenSeq, Add
<1> HIDE DEF f
<1>7. n \in Nat /\ n > 0
  OBVIOUS
<1> HIDE DEF n
<1>8. f[1] = seqs[1] /\ \A i \in 2 .. n : f[i] = Add(f[i - 1], i)
  <2>1. \A i \in 1 .. n : f[i] = IF i = 1 THEN seqs[i] ELSE Add(f[i - 1], i)
    BY <1>5
  <2>2. \A i \in 2 .. n : i \in 1 .. n /\ i # 1
    BY <1>7
  <2>3. 1 \in 1 .. n
    BY <1>7
  <2> QED
    BY <2>1, <2>2, <2>3
<1> QED
  BY <1>6, <1>8 DEF n, Add

\* Structs of one to four fields.
LEMMA FlatIs ==
    ASSUME NEW fs, Len(fs) \in 1 .. 4, DOMAIN fs = 1 .. Len(fs),
           \A i \in 1 .. Len(fs) : FieldBytes(fs[i]) \in Seq(Nat)
    PROVE  LET c(i) == FieldBytes(fs[i])
               b == Flat(fs)
               n == Len(fs)
           IN  /\ b \in Seq(Nat)
               /\ Len(b) = Len(c(1)) + (IF n < 2 THEN 0 ELSE Len(c(2)))
                             + (IF n < 3 THEN 0 ELSE Len(c(3)))
                             + (IF n < 4 THEN 0 ELSE Len(c(4)))
               /\ Placed(b, 0, c(1))
               /\ n > 1 => Placed(b, Len(c(1)), c(2))
               /\ n > 2 => Placed(b, Len(c(1)) + Len(c(2)), c(3))
               /\ n > 3 => Placed(b, Len(c(1)) + Len(c(2)) + Len(c(3)), c(4))
<1> DEFINE n == Len(fs)
           s == [i \in DOMAIN fs |-> FieldBytes(fs[i])]
           c1 == FieldBytes(fs[1])
           c2 == FieldBytes(fs[2])
           c3 == FieldBytes(fs[3])
           c4 == FieldBytes(fs[4])
           b == Flat(fs)
<1>1. Len(s) = n /\ n \in 1 .. 4 /\ s[1] = c1 /\ (n > 1 => s[2] = c2) /\ (n > 2 => s[3] = c3)
      /\ (n > 3 => s[4] = c4)
  OBVIOUS
<1>2. c1 \in Seq(Nat) /\ (n > 1 => c2 \in Seq(Nat)) /\ (n > 2 => c3 \in Seq(Nat))
      /\ (n > 3 => c4 \in Seq(Nat))
  OBVIOUS
<1>3. b = FlattenSeq(s)
  BY DEF Flat
<1> HIDE DEF s, n, c1, c2, c3, c4, b
<1>4. PICK g : /\ g[1] = s[1] /\ \A i \in 2 .. n : g[i] = g[i - 1] \o s[i]
               /\ FlattenSeq(s) = g[n]
  <2>1. Len(s) \in Nat /\ Len(s) > 0
    BY <1>1
  <2>2. \E g : /\ g[1] = s[1] /\ \A i \in 2 .. Len(s) : g[i] = g[i - 1] \o s[i]
               /\ FlattenSeq(s) = g[Len(s)]
    BY <2>1, FlattenIs
  <2> QED
    BY <1>1, <2>2
<1> DEFINE d2 == c1 \o c2
           d3 == d2 \o c3
           d4 == d3 \o c4
<1>5. /\ n > 1 => g[2] = d2
      /\ n > 2 => g[3] = d3
      /\ n > 3 => g[4] = d4
  <2>1. /\ n > 1 => 2 \in 2 .. n
        /\ n > 2 => 3 \in 2 .. n
        /\ n > 3 => 4 \in 2 .. n
    BY <1>1
  <2>2. /\ n > 1 => g[2] = g[2 - 1] \o s[2]
        /\ n > 2 => g[3] = g[3 - 1] \o s[3]
        /\ n > 3 => g[4] = g[4 - 1] \o s[4]
    BY <1>4, <2>1
  <2>3. n > 1 => g[2 - 1] = c1 /\ s[2] = c2
    BY <1>1, <1>4
  <2>4. n > 1 => g[2] = d2
    BY <2>2, <2>3
  <2> HIDE DEF d2
  <2>5. n > 2 => n > 1 /\ g[3 - 1] = g[2]
    BY <1>1
  <2>6. n > 2 => g[3] = d3
    BY <1>1, <2>2, <2>4, <2>5
  <2> HIDE DEF d3
  <2>7. n > 3 => n > 2 /\ g[4 - 1] = g[3]
    BY <1>1
  <2>8. n > 3 => g[4] = d4
    BY <1>1, <2>2, <2>6, <2>7
  <2> QED
    BY <2>4, <2>6, <2>8
<1>6. Placed(c1, 0, c1) /\ Len(c1) \in Nat
  BY <1>2, PlacedFirst
<1>7. n > 1 => /\ d2 \in Seq(Nat) /\ Len(d2) = Len(c1) + Len(c2) /\ Len(c2) \in Nat
               /\ Placed(d2, 0, c1) /\ Placed(d2, Len(c1), c2)
  BY <1>2, <1>6, PlacedIn
<1> HIDE DEF d2
<1>8. n > 2 => /\ d3 \in Seq(Nat) /\ Len(d3) = Len(c1) + Len(c2) + Len(c3) /\ Len(c3) \in Nat
               /\ Placed(d3, 0, c1) /\ Placed(d3, Len(c1), c2)
               /\ Placed(d3, Len(c1) + Len(c2), c3)
  BY <1>1, <1>2, <1>6, <1>7, PlacedIn
<1> HIDE DEF d3
<1>9. n > 3 => /\ d4 \in Seq(Nat) /\ Len(d4) = Len(c1) + Len(c2) + Len(c3) + Len(c4)
               /\ Len(c4) \in Nat
               /\ Placed(d4, 0, c1) /\ Placed(d4, Len(c1), c2)
               /\ Placed(d4, Len(c1) + Len(c2), c3)
               /\ Placed(d4, Len(c1) + Len(c2) + Len(c3), c4)
  <2> HIDE DEF d4
  <2> SUFFICES ASSUME n > 3
               PROVE  /\ d4 \in Seq(Nat) /\ Len(d4) = Len(d3) + Len(c4) /\ Len(c4) \in Nat
                      /\ Placed(d4, 0, c1) /\ Placed(d4, Len(c1), c2)
                      /\ Placed(d4, Len(c1) + Len(c2), c3)
                      /\ Placed(d4, Len(d3), c4)
    <3>1. n > 3 => n > 2
      BY <1>1
    <3>2. n > 3 => Len(d3) = Len(c1) + Len(c2) + Len(c3)
      BY <1>8, <3>1
    <3> QED
      BY <3>2
  <2>1. /\ d3 \in Seq(Nat) /\ Len(d3) = Len(c1) + Len(c2) + Len(c3)
        /\ Len(c1) \in Nat /\ Len(c2) \in Nat /\ Len(c3) \in Nat
        /\ c1 \in Seq(Nat) /\ c2 \in Seq(Nat) /\ c3 \in Seq(Nat) /\ c4 \in Seq(Nat)
        /\ Placed(d3, 0, c1) /\ Placed(d3, Len(c1), c2) /\ Placed(d3, Len(c1) + Len(c2), c3)
    BY <1>1, <1>2, <1>6, <1>7, <1>8
  <2>2. /\ d4 \in Seq(Nat) /\ Len(d4) = Len(d3) + Len(c4) /\ Placed(d4, Len(d3), c4)
        /\ \A c \in Seq(Nat), offset \in Nat :
              offset + Len(c) <= Len(d3) /\ Placed(d3, offset, c) => Placed(d4, offset, c)
    BY <2>1, PlacedIn DEF d4
  <2>3. /\ Len(c1) + Len(c2) \in Nat /\ 0 + Len(c1) <= Len(d3) /\ Len(c1) + Len(c2) <= Len(d3)
        /\ (Len(c1) + Len(c2)) + Len(c3) <= Len(d3)
    BY <2>1
  <2>4. Len(c4) \in Nat
    BY <2>1
  <2> QED
    BY <2>1, <2>2, <2>3, <2>4
<1> HIDE DEF d4
<1>10. \/ n = 1 /\ b = c1
       \/ n = 2 /\ b = d2
       \/ n = 3 /\ b = d3
       \/ n = 4 /\ b = d4
  BY <1>1, <1>3, <1>4, <1>5
<1>11. /\ b \in Seq(Nat)
       /\ Len(b) = Len(c1) + (IF n < 2 THEN 0 ELSE Len(c2)) + (IF n < 3 THEN 0 ELSE Len(c3))
                     + (IF n < 4 THEN 0 ELSE Len(c4))
       /\ Placed(b, 0, c1)
       /\ n > 1 => Placed(b, Len(c1), c2)
       /\ n > 2 => Placed(b, Len(c1) + Len(c2), c3)
       /\ n > 3 => Placed(b, Len(c1) + Len(c2) + Len(c3), c4)
  <2>1. CASE n = 1 /\ b = c1
    BY <1>2, <1>6, <2>1
  <2>2. CASE n = 2 /\ b = d2
    BY <1>6, <1>7, <2>2
  <2>3. CASE n = 3 /\ b = d3
    BY <1>6, <1>7, <1>8, <2>3
  <2>4. CASE n = 4 /\ b = d4
    BY <1>6, <1>7, <1>8, <1>9, <2>4
  <2> QED
    BY <1>10, <2>1, <2>2, <2>3, <2>4
<1> QED
  BY <1>11 DEF b, n, c1, c2, c3, c4

\* Zeros are as many as asked for.
LEMMA ZerosAre ==
    ASSUME NEW n \in Nat
    PROVE  Zeros(n) \in Seq(Nat) /\ Len(Zeros(n)) = n /\ \A i \in 1 .. n : Zeros(n)[i] = 0
  BY DEF Zeros

\* A slice with nothing else in it.
LEMMA BytesTaken ==
    ASSUME NEW b \in Seq(Nat), NEW c \in Seq(Nat), NEW offset \in Nat,
           b # <<>>, offset + Len(c) <= Len(b), Placed(b, offset, c)
    PROVE  take_bytes(b, offset, Len(c)) = c
<1> DEFINE n == Len(c)
           s == SubSeq(b, offset + 1, offset + n)
<1>1. n \in Nat
  OBVIOUS
<1>2. s = [i \in 1 .. n |-> b[i + (offset + 1) - 1]]
  OBVIOUS
<1>3. s = [i \in 1 .. n |-> c[i]]
  <2> HIDE DEF n
  <2>1. ASSUME NEW i \in 1 .. n PROVE b[i + (offset + 1) - 1] = c[i]
    <3>1. i + (offset + 1) - 1 = offset + i
      BY <1>1
    <3> QED
      BY <3>1 DEF Placed, n
  <2> QED
    BY <1>2, <2>1
<1>4. c = [i \in 1 .. n |-> c[i]]
  OBVIOUS
<1>5. take_bytes(b, offset, n) = s
  BY DEF take_bytes
<1> QED
  BY <1>3, <1>4, <1>5

\* Bytes are numbers.
LEMMA BytesAre ==
    ASSUME NEW n \in Nat, NEW v \in Bytes(n)
    PROVE  v \in Seq(Nat) /\ Len(v) = n
<1> DEFINE V == 0 .. 255
<1>1. v \in [1 .. n -> V]
  BY DEF Bytes
<1>2. V \subseteq Nat
  OBVIOUS
<1> HIDE DEF V
<1>3. v \in [1 .. n -> Nat]
  BY <1>1, <1>2
<1> QED
  BY <1>3

\* A key or payload.
LEMMA BytesRead ==
    ASSUME NEW field, NEW n \in Nat, field.kind = "bytes", field.value \in Bytes(n)
    PROVE  /\ FieldBytes(field) \in Seq(Nat) /\ Len(FieldBytes(field)) = n
           /\ \A b \in Seq(Nat), offset \in Nat :
                 b # <<>> /\ offset + n <= Len(b) /\ Placed(b, offset, FieldBytes(field))
                   => take_bytes(b, offset, n) = field.value
<1>1. FieldBytes(field) = field.value
  BY DEF FieldBytes
<1>2. field.value \in Seq(Nat) /\ Len(field.value) = n
  BY BytesAre
<1> QED
  BY <1>1, <1>2, BytesTaken

\* A number of two bytes.
LEMMA UintIs ==
    ASSUME NEW v \in Uint
    PROVE  /\ UintBytes(v) \in Seq(Nat) /\ Len(UintBytes(v)) = 2
           /\ UintBytes(v)[1] + 256 * UintBytes(v)[2] = v
<1>1. v \in Nat
  <2> DEFINE most == 256 * 256 - 1
  <2>1. v \in 0 .. most
    BY DEF Uint
  <2> HIDE DEF most
  <2> QED
    BY <2>1
<1>2. v % 256 \in Nat /\ v \div 256 \in Nat
  BY <1>1
<1>3. (v % 256) + 256 * (v \div 256) = v
  BY <1>1
<1> QED
  BY <1>2, <1>3 DEF UintBytes

LEMMA UintRead ==
    ASSUME NEW field, field.kind = "uint", field.value \in Uint
    PROVE  /\ FieldBytes(field) \in Seq(Nat) /\ Len(FieldBytes(field)) = 2
           /\ \A b \in Seq(Nat), offset \in Nat :
                 b # <<>> /\ offset + 2 <= Len(b) /\ Placed(b, offset, FieldBytes(field))
                   => take_uint_128_le(b, offset) = field.value
<1>1. FieldBytes(field) = UintBytes(field.value)
  BY DEF FieldBytes
<1>2. /\ UintBytes(field.value) \in Seq(Nat) /\ Len(UintBytes(field.value)) = 2
      /\ UintBytes(field.value)[1] + 256 * UintBytes(field.value)[2] = field.value
  BY UintIs
<1>3. ASSUME NEW b \in Seq(Nat), NEW offset \in Nat, b # <<>>,
             Placed(b, offset, FieldBytes(field))
      PROVE  take_uint_128_le(b, offset) = field.value
  <2>1. 1 \in 1 .. Len(FieldBytes(field)) /\ 2 \in 1 .. Len(FieldBytes(field))
    BY <1>1, <1>2
  <2>2. b[offset + 1] = FieldBytes(field)[1] /\ b[offset + 2] = FieldBytes(field)[2]
    BY <1>3, <2>1 DEF Placed
  <2> QED
    BY <1>1, <1>2, <1>3, <2>2 DEF take_uint_128_le
<1> QED
  BY <1>1, <1>2, <1>3

\* The bytes of a tag and a value.
LEMMA TaggedIs ==
    ASSUME NEW t \in Nat, NEW v \in Seq(Nat)
    PROVE  <<t>> \o v \in Seq(Nat) /\ Len(<<t>> \o v) = 1 + Len(v)
  OBVIOUS

LEMMA Tagged ==
    ASSUME NEW b, NEW offset \in Nat, NEW t \in Nat, NEW v \in Seq(Nat),
           Placed(b, offset, <<t>> \o v)
    PROVE  b[offset + 1] = t /\ Placed(b, offset + 1, v)
<1> DEFINE c == <<t>> \o v
<1>1. Len(c) = 1 + Len(v) /\ c[1] = t /\ \A i \in 1 .. Len(v) : c[1 + i] = v[i]
  OBVIOUS
<1>2. \A i \in 1 .. Len(c) : b[offset + i] = c[i]
  BY DEF Placed
<1> HIDE DEF c
<1>3. b[offset + 1] = t
  <2>1. 1 \in 1 .. Len(c)
    BY <1>1
  <2> QED
    BY <1>1, <1>2, <2>1
<1>4. ASSUME NEW i \in 1 .. Len(v) PROVE b[(offset + 1) + i] = v[i]
  <2>1. 1 + i \in 1 .. Len(c) /\ offset + (1 + i) = (offset + 1) + i
    BY <1>1
  <2> QED
    BY <1>1, <1>2, <2>1
<1> QED
  BY <1>3, <1>4 DEF Placed

\* An optional value: its tag is 1 if it is there, and all is zero if not.
LEMMA MaybeRead ==
    ASSUME NEW field, NEW n \in Nat, field.kind = "maybe", field.size = n,
           Optional(field.value, Bytes(n))
    PROVE  /\ FieldBytes(field) \in Seq(Nat) /\ Len(FieldBytes(field)) = 1 + n
           /\ \A b \in Seq(Nat), offset \in Nat :
                 b # <<>> /\ offset + 1 + n <= Len(b) /\ Placed(b, offset, FieldBytes(field))
                   => take_maybe_bytes(b, offset, n) = field.value
<1>1. CASE field.value = <<>>
  <2>1. FieldBytes(field) = Zeros(1 + n)
    BY <1>1 DEF FieldBytes
  <2>2. /\ FieldBytes(field) \in Seq(Nat) /\ Len(FieldBytes(field)) = 1 + n
        /\ FieldBytes(field)[1] = 0
    BY <2>1, ZerosAre
  <2>3. ASSUME NEW b \in Seq(Nat), NEW offset \in Nat, Placed(b, offset, FieldBytes(field))
        PROVE  take_maybe_bytes(b, offset, n) = field.value
    <3>1. b[offset + 1] = 0
      BY <2>2, <2>3 DEF Placed
    <3> QED
      BY <1>1, <3>1 DEF take_maybe_bytes
  <2> QED
    BY <2>2, <2>3
<1>2. CASE field.value # <<>>
  <2> DEFINE v == field.value[1]
  <2>1. field.value = <<v>> /\ v \in Bytes(n)
    BY <1>2 DEF Optional
  <2>2. v \in Seq(Nat) /\ Len(v) = n
    BY <2>1, BytesAre
  <2>3. FieldBytes(field) = <<1>> \o v
    BY <1>2 DEF FieldBytes
  <2> HIDE DEF v
  <2>4. FieldBytes(field) \in Seq(Nat) /\ Len(FieldBytes(field)) = 1 + n
    BY <2>2, <2>3
  <2>5. ASSUME NEW b \in Seq(Nat), NEW offset \in Nat, b # <<>>, offset + 1 + n <= Len(b),
               Placed(b, offset, FieldBytes(field))
        PROVE  take_maybe_bytes(b, offset, n) = field.value
    <3>1. b[offset + 1] = 1 /\ Placed(b, offset + 1, v)
      BY <2>2, <2>3, <2>5, Tagged
    <3>2. take_bytes(b, offset + 1, n) = v
      BY <2>2, <2>5, <3>1, BytesTaken
    <3> QED
      BY <2>1, <2>5, <3>1, <3>2 DEF take_maybe_bytes
  <2> QED
    BY <2>4, <2>5
<1> QED
  BY <1>1, <1>2

LEMMA MaybeUintRead ==
    ASSUME NEW field, field.kind = "maybeUint", Optional(field.value, Uint)
    PROVE  /\ FieldBytes(field) \in Seq(Nat) /\ Len(FieldBytes(field)) = 3
           /\ \A b \in Seq(Nat), offset \in Nat :
                 b # <<>> /\ offset + 3 <= Len(b) /\ Placed(b, offset, FieldBytes(field))
                   => take_maybe_uint_128_le(b, offset) = field.value
<1>1. CASE field.value = <<>>
  <2>1. FieldBytes(field) = Zeros(3)
    BY <1>1 DEF FieldBytes, UINT_128_SIZE
  <2>2. /\ FieldBytes(field) \in Seq(Nat) /\ Len(FieldBytes(field)) = 3
        /\ FieldBytes(field)[1] = 0
    <3>1. 3 \in Nat /\ 1 \in 1 .. 3
      OBVIOUS
    <3> QED
      BY <2>1, <3>1, ZerosAre
  <2>3. ASSUME NEW b \in Seq(Nat), NEW offset \in Nat, Placed(b, offset, FieldBytes(field))
        PROVE  take_maybe_uint_128_le(b, offset) = field.value
    <3>1. b[offset + 1] = 0
      BY <2>2, <2>3 DEF Placed
    <3> QED
      BY <1>1, <3>1 DEF take_maybe_uint_128_le
  <2> QED
    BY <2>2, <2>3
<1>2. CASE field.value # <<>>
  <2> DEFINE v == field.value[1]
             u == UintBytes(v)
  <2>1. field.value = <<v>> /\ v \in Uint
    BY <1>2 DEF Optional
  <2>2. u \in Seq(Nat) /\ Len(u) = 2 /\ u[1] + 256 * u[2] = v
    BY <2>1, UintIs
  <2>3. FieldBytes(field) = <<1>> \o u
    BY <1>2 DEF FieldBytes
  <2> HIDE DEF v, u
  <2>4. FieldBytes(field) \in Seq(Nat) /\ Len(FieldBytes(field)) = 3
    <3>1. 1 \in Nat /\ 1 + 2 = 3
      OBVIOUS
    <3> QED
      BY <2>2, <2>3, <3>1, TaggedIs
  <2>5. ASSUME NEW b \in Seq(Nat), NEW offset \in Nat, b # <<>>,
               Placed(b, offset, FieldBytes(field))
        PROVE  take_maybe_uint_128_le(b, offset) = field.value
    <3>1. b[offset + 1] = 1 /\ Placed(b, offset + 1, u)
      BY <2>2, <2>3, <2>5, Tagged
    <3>2. b[(offset + 1) + 1] = u[1] /\ b[(offset + 1) + 2] = u[2]
      BY <2>2, <3>1 DEF Placed
    <3>3. take_uint_128_le(b, offset + 1) = v
      BY <2>2, <2>5, <3>2 DEF take_uint_128_le
    <3> QED
      BY <2>1, <2>5, <3>1, <3>3 DEF take_maybe_uint_128_le
  <2> QED
    BY <2>4, <2>5
<1> QED
  BY <1>1, <1>2

\* What is placed as a whole is placed in parts.
LEMMA PlacedParts ==
    ASSUME NEW b, NEW offset \in Nat, NEW p \in Seq(Nat), NEW q \in Seq(Nat),
           Placed(b, offset, p \o q)
    PROVE  Placed(b, offset, p) /\ Placed(b, offset + Len(p), q)
<1> DEFINE c == p \o q
<1>1. \A i \in 1 .. Len(p) + Len(q) : b[offset + i] = c[i]
  <2>1. Len(c) = Len(p) + Len(q)
    OBVIOUS
  <2> QED
    BY <2>1 DEF Placed
<1>2. Len(p) \in Nat /\ Len(q) \in Nat
  OBVIOUS
<1>3. /\ \A i \in 1 .. Len(p) : c[i] = p[i]
      /\ \A i \in 1 .. Len(q) : c[Len(p) + i] = q[i]
  OBVIOUS
<1> HIDE DEF c
<1>4. ASSUME NEW i \in 1 .. Len(p) PROVE b[offset + i] = p[i]
  <2>1. i \in 1 .. Len(p) + Len(q)
    BY <1>2
  <2> QED
    BY <1>1, <1>3, <2>1
<1>5. ASSUME NEW i \in 1 .. Len(q) PROVE b[(offset + Len(p)) + i] = q[i]
  <2>1. Len(p) + i \in 1 .. Len(p) + Len(q) /\ offset + (Len(p) + i) = (offset + Len(p)) + i
    BY <1>2
  <2> QED
    BY <1>1, <1>3, <2>1
<1> QED
  BY <1>4, <1>5 DEF Placed

\* An address: a tag that is 1 for a key, one of two values, and zeros in place of the other.
LEMMA EitherRead ==
    ASSUME NEW field, field.kind = "either",
           field.value \in [left : BOOLEAN, key : Bytes(BYTES_32_SIZE)]
    PROVE  /\ FieldBytes(field) \in Seq(Nat) /\ Len(FieldBytes(field)) = 7
           /\ \A b \in Seq(Nat), offset \in Nat :
                 b # <<>> /\ offset + 7 <= Len(b) /\ Placed(b, offset, FieldBytes(field))
                   => take_either_address(b, offset) = field.value
<1> DEFINE k == field.value.key
           z == Zeros(3)
           o == field.value.left
<1>1. field.value = [left |-> o, key |-> k] /\ o \in BOOLEAN /\ k \in Bytes(3)
  BY DEF BYTES_32_SIZE
<1>2. k \in Seq(Nat) /\ Len(k) = 3
  <2>1. 3 \in Nat
    OBVIOUS
  <2> QED
    BY <1>1, <2>1, BytesAre
<1>3. z \in Seq(Nat) /\ Len(z) = 3
  <2>1. 3 \in Nat
    OBVIOUS
  <2> QED
    BY <2>1, ZerosAre
<1>4. FieldBytes(field) = IF o THEN <<1>> \o k \o z ELSE <<0>> \o z \o k
  BY DEF FieldBytes, BYTES_32_SIZE
<1> HIDE DEF z, k, o
<1>5. ASSUME NEW t \in Nat, NEW u \in Seq(Nat), NEW v \in Seq(Nat), Len(u) = 3, Len(v) = 3
      PROVE  /\ <<t>> \o u \o v \in Seq(Nat) /\ Len(<<t>> \o u \o v) = 7
             /\ \A b \in Seq(Nat), offset \in Nat :
                   b # <<>> /\ offset + 7 <= Len(b) /\ Placed(b, offset, <<t>> \o u \o v)
                     => /\ b[offset + 1] = t
                        /\ take_bytes(b, offset + 1, 3) = u
                        /\ take_bytes(b, offset + 4, 3) = v
  <2> DEFINE p == <<t>> \o u
  <2>1. p \in Seq(Nat) /\ Len(p) = 4
    <3>1. 1 + 3 = 4
      OBVIOUS
    <3> QED
      BY <1>5, <3>1, TaggedIs
  <2>2. p \o v \in Seq(Nat) /\ Len(p \o v) = Len(p) + Len(v)
    <3> HIDE DEF p
    <3> QED
      BY <2>1, PlacedIn
  <2>3. Len(p) + Len(v) = 7
    BY <1>5, <2>1
  <2>4. ASSUME NEW b \in Seq(Nat), NEW offset \in Nat, b # <<>>, offset + 7 <= Len(b),
               Placed(b, offset, p \o v)
        PROVE  /\ b[offset + 1] = t
               /\ take_bytes(b, offset + 1, 3) = u
               /\ take_bytes(b, offset + 4, 3) = v
    <3>1. Placed(b, offset, p) /\ Placed(b, offset + 4, v)
      <4> HIDE DEF p
      <4> QED
        BY <1>5, <2>1, <2>4, PlacedParts
    <3>2. b[offset + 1] = t /\ Placed(b, offset + 1, u)
      BY <1>5, <3>1, Tagged
    <3>3. /\ offset + 1 \in Nat /\ offset + 4 \in Nat
          /\ (offset + 1) + 3 <= Len(b) /\ (offset + 4) + 3 <= Len(b)
      BY <2>4
    <3>4. take_bytes(b, offset + 1, 3) = u
      BY <1>5, <2>4, <3>2, <3>3, BytesTaken
    <3>5. take_bytes(b, offset + 4, 3) = v
      BY <1>5, <2>4, <3>1, <3>3, BytesTaken
    <3> QED
      BY <3>2, <3>4, <3>5
  <2> QED
    BY <2>2, <2>3, <2>4
<1> DEFINE fb == FieldBytes(field)
<1>6. CASE o
  <2>1. fb = <<1>> \o k \o z
    BY <1>4, <1>6
  <2> HIDE DEF fb
  <2>2. /\ fb \in Seq(Nat) /\ Len(fb) = 7
        /\ \A b \in Seq(Nat), offset \in Nat :
              b # <<>> /\ offset + 7 <= Len(b) /\ Placed(b, offset, fb)
                => b[offset + 1] = 1 /\ take_bytes(b, offset + 1, 3) = k
    <3>1. 1 \in Nat
      OBVIOUS
    <3> QED
      BY <1>2, <1>3, <1>5, <2>1, <3>1
  <2>3. ASSUME NEW b \in Seq(Nat), NEW offset \in Nat, b # <<>>, offset + 7 <= Len(b),
               Placed(b, offset, fb)
        PROVE  take_either_address(b, offset) = field.value
    <3>1. b[offset + 1] = 1 /\ take_bytes(b, offset + 1, 3) = k
      BY <2>2, <2>3
    <3>2. take_either_address(b, offset) = [left |-> TRUE, key |-> take_bytes(b, offset + 1, 3)]
      <4>1. offset + 1 + 0 = offset + 1
        OBVIOUS
      <4>2. (b = <<>> \/ b[offset + 1] # 0) = TRUE
        BY <3>1
      <4> QED
        BY <4>1, <4>2 DEF take_either_address, BYTES_32_SIZE
    <3> QED
      BY <1>1, <1>6, <3>1, <3>2
  <2> QED
    BY <2>2, <2>3 DEF fb
<1>7. CASE ~o
  <2>1. fb = <<0>> \o z \o k
    BY <1>4, <1>7
  <2> HIDE DEF fb
  <2>2. /\ fb \in Seq(Nat) /\ Len(fb) = 7
        /\ \A b \in Seq(Nat), offset \in Nat :
              b # <<>> /\ offset + 7 <= Len(b) /\ Placed(b, offset, fb)
                => b[offset + 1] = 0 /\ take_bytes(b, offset + 4, 3) = k
    <3>1. 0 \in Nat
      OBVIOUS
    <3> QED
      BY <1>2, <1>3, <1>5, <2>1, <3>1
  <2>3. ASSUME NEW b \in Seq(Nat), NEW offset \in Nat, b # <<>>, offset + 7 <= Len(b),
               Placed(b, offset, fb)
        PROVE  take_either_address(b, offset) = field.value
    <3>1. b[offset + 1] = 0 /\ take_bytes(b, offset + 4, 3) = k
      BY <2>2, <2>3
    <3>2. take_either_address(b, offset) = [left |-> FALSE, key |-> take_bytes(b, offset + 4, 3)]
      <4>1. offset + 1 + 3 = offset + 4
        OBVIOUS
      <4>2. (b = <<>> \/ b[offset + 1] # 0) = FALSE
        BY <2>3, <3>1
      <4> QED
        BY <4>1, <4>2 DEF take_either_address, BYTES_32_SIZE
    <3>3. o = FALSE
      BY <1>1, <1>7
    <3> QED
      BY <1>1, <3>1, <3>2, <3>3
  <2> QED
    BY <2>2, <2>3 DEF fb
<1> QED
  BY <1>6, <1>7

----------------------------------------------------------------------------
(* Stripping and padding *)

\* The greatest of numbers with a bound is one of them and above all others.
LEMMA Greatest ==
    ASSUME NEW n \in Nat, NEW I \in SUBSET (1 .. n), I # {}
    PROVE  Max(I) \in I /\ \A i \in I : i <= Max(I)
<1> DEFINE J == {n - i : i \in I}
<1>1. J \in SUBSET Nat /\ J # {}
  <2>1. \A i \in I : i \in 1 .. n
    OBVIOUS
  <2>2. \A i \in I : n - i \in Nat
    BY <2>1
  <2> QED
    BY <2>2
<1>2. Min(J) \in J /\ \A j \in J : Min(J) <= j
  BY <1>1, Least
<1>3. PICK m \in I : Min(J) = n - m
  BY <1>2
<1>4. ASSUME NEW i \in I PROVE i <= m
  <2>1. n - m <= n - i
    BY <1>2, <1>3
  <2> QED
    BY <2>1
<1>5. \E x \in I : \A y \in I : x >= y
  BY <1>4
<1>6. Max(I) \in I /\ \A y \in I : Max(I) >= y
  <2> HIDE DEF J
  <2> QED
    BY <1>5 DEF Max
<1> QED
  BY <1>6

\* Stripping takes nothing but zeros off the end.
LEMMA StrippedIs ==
    ASSUME NEW b \in Seq(Nat)
    PROVE  /\ Stripped(b) \in Seq(Nat) /\ Len(Stripped(b)) <= Len(b)
           /\ Stripped(b) \o Zeros(Len(b) - Len(Stripped(b))) = b
           /\ \A m \in 1 .. Len(b) : b[m] # 0 => m <= Len(Stripped(b))
<1> DEFINE n == Len(b)
           I == {i \in 1 .. n : b[i] # 0}
           last == SelectLastInSeq(b, LAMBDA x : x # 0)
           s == Stripped(b)
<1>1. n \in Nat /\ b = [i \in 1 .. n |-> b[i]] /\ \A i \in 1 .. n : b[i] \in Nat
  OBVIOUS
<1>2. last = IF I # {} THEN Max(I) ELSE 0
  BY DEF SelectLastInSeq
<1>3. last \in 0 .. n /\ \A i \in 1 .. n : b[i] # 0 => i <= last
  <2>1. CASE I = {}
    <3>1. \A i \in 1 .. n : ~(b[i] # 0)
      BY <2>1
    <3>2. last = 0
      BY <1>2, <2>1
    <3> QED
      BY <1>1, <3>1, <3>2
  <2>2. CASE I # {}
    <3> HIDE DEF n
    <3>1. I \in SUBSET (1 .. n)
      OBVIOUS
    <3> HIDE DEF I
    <3>2. Max(I) \in I /\ \A i \in I : i <= Max(I)
      BY <1>1, <2>2, <3>1, Greatest
    <3>3. last \in I /\ \A i \in I : i <= last
      <4> HIDE DEF last
      <4> QED
        BY <1>2, <2>2, <3>2
    <3> USE DEF I
    <3> QED
      BY <1>1, <3>3
  <2> QED
    BY <2>1, <2>2
<1>4. s = SubSeq(b, 1, last)
  BY DEF Stripped
<1> HIDE DEF last, s, I
<1>5. /\ s \in Seq(Nat) /\ Len(s) = last
      /\ \A i \in 1 .. last : s[i] = b[i]
  BY <1>1, <1>3, <1>4
<1> DEFINE z == Zeros(n - last)
<1>6. z \in Seq(Nat) /\ Len(z) = n - last /\ \A i \in 1 .. n - last : z[i] = 0
  <2>1. n - last \in Nat
    BY <1>1, <1>3
  <2> QED
    BY <2>1, ZerosAre
<1> HIDE DEF z, n
<1>7. s \o z = b
  <2> DEFINE c == s \o z
  <2>1. Len(s) + Len(z) = n
    BY <1>1, <1>3, <1>5, <1>6
  <2>2. c \in Seq(Nat) /\ Len(c) = Len(s) + Len(z)
    BY <1>5, <1>6, PlacedIn
  <2>3. \A i \in 1 .. Len(s) + Len(z) : c[i] = IF i <= Len(s) THEN s[i] ELSE z[i - Len(s)]
    BY <1>5, <1>6
  <2> HIDE DEF c
  <2>4. ASSUME NEW i \in 1 .. n PROVE (IF i <= last THEN s[i] ELSE z[i - last]) = b[i]
    <3>1. CASE i <= last
      <4>1. i \in 1 .. last
        BY <1>1, <1>3, <3>1
      <4> QED
        BY <1>5, <3>1, <4>1
    <3>2. CASE ~(i <= last)
      <4>1. i - last \in 1 .. n - last
        BY <1>1, <1>3, <3>2
      <4>2. b[i] = 0
        BY <1>3, <3>2
      <4> QED
        BY <1>6, <3>2, <4>1, <4>2
    <3> QED
      BY <3>1, <3>2
  <2>5. \A i \in 1 .. n : c[i] = b[i]
    BY <1>5, <2>1, <2>3, <2>4
  <2>6. c = [i \in 1 .. Len(c) |-> c[i]]
    BY <2>2
  <2>7. c = [i \in 1 .. n |-> b[i]]
    BY <2>1, <2>2, <2>5, <2>6
  <2> QED
    BY <1>1, <2>7 DEF c
<1>8. Len(s) <= n /\ \A i \in 1 .. n : b[i] # 0 => i <= Len(s)
  BY <1>1, <1>3, <1>5
<1> QED
  BY <1>5, <1>7, <1>8 DEF s, n, z

\* Padding gives an item's bytes back, if it is not refused as too short.
LEMMA Extracted ==
    ASSUME NEW e, NEW min \in Nat, NEW max \in Nat, Flat(e.wire) \in Seq(Nat)
    PROVE  LET b == Flat(e.wire)
               x == extract_flat_bytes(LogItem(e), min, max)
           IN  /\ Len(b) < min => x = <<>>
               /\ Len(b) = max =>
                     /\ x = b \/ x = <<>>
                     /\ \A m \in 1 .. max : min <= m /\ b[m] # 0 => x = b
<1> DEFINE b == Flat(e.wire)
           s == Stripped(b)
           x == extract_flat_bytes(LogItem(e), min, max)
<1>1. x = IF Len(s) \in min .. max THEN s \o Zeros(max - Len(s)) ELSE <<>>
  <2>1. LogItem(e).cell /\ LogItem(e).atoms = <<s>>
    BY DEF LogItem
  <2>2. Len(LogItem(e).atoms) = 1 /\ LogItem(e).atoms[1] = s
    <3> HIDE DEF s
    <3> QED
      BY <2>1
  <2> HIDE DEF s
  <2> QED
    BY <2>1, <2>2 DEF extract_flat_bytes
<1>2. b \in Seq(Nat)
  OBVIOUS
<1> HIDE DEF b, x
<1>3. /\ s \in Seq(Nat) /\ Len(s) <= Len(b)
      /\ s \o Zeros(Len(b) - Len(s)) = b
      /\ \A m \in 1 .. Len(b) : b[m] # 0 => m <= Len(s)
  BY <1>2, StrippedIs
<1> HIDE DEF s
<1>4. Len(s) \in Nat /\ Len(b) \in Nat
  BY <1>2, <1>3
<1>5. Len(b) < min => x = <<>>
  BY <1>1, <1>3, <1>4
<1>6. Len(b) = max => x = b \/ x = <<>>
  BY <1>1, <1>3
<1>7. ASSUME Len(b) = max, NEW m \in 1 .. max, min <= m, b[m] # 0 PROVE x = b
  <2>1. m <= Len(s)
    BY <1>3, <1>7
  <2>2. Len(s) \in min .. max
    BY <1>3, <1>4, <1>7, <2>1
  <2> QED
    BY <1>1, <1>3, <1>7, <2>2
<1> QED
  BY <1>5, <1>6, <1>7 DEF b, x

\* What a struct without its last field is written as.
LEMMA FlatLast ==
    ASSUME NEW S, NEW fs \in Seq(S), Len(fs) \in 2 .. 4,
           \A i \in 1 .. Len(fs) : FieldBytes(fs[i]) \in Seq(Nat)
    PROVE  LET n == Len(fs)
               p == Flat(SubSeq(fs, 1, n - 1))
           IN  p \in Seq(Nat) /\ Flat(fs) = p \o FieldBytes(fs[n])
<1> DEFINE n == Len(fs)
           ps == SubSeq(fs, 1, n - 1)
           s == [i \in DOMAIN fs |-> FieldBytes(fs[i])]
           t == [i \in DOMAIN ps |-> FieldBytes(ps[i])]
           p == Flat(ps)
           b == Flat(fs)
<1>1. /\ n \in 2 .. 4 /\ DOMAIN s = 1 .. n /\ Len(s) = n
      /\ \A i \in 1 .. n : s[i] = FieldBytes(fs[i])
  OBVIOUS
<1>2. n \in Nat /\ n - 1 \in Nat /\ 1 <= n - 1 /\ n - 1 <= n /\ n - 1 <= 3
  <2> HIDE DEF n
  <2>1. n \in 2 .. 4
    BY <1>1
  <2> QED
    BY <2>1
<1> HIDE DEF n
<1>3. /\ DOMAIN ps = 1 .. n - 1 /\ Len(ps) = n - 1
      /\ \A i \in 1 .. n - 1 : ps[i] = fs[i]
  <2>1. ps = [i \in 1 .. n - 1 |-> fs[i]]
    BY <1>2 DEF n
  <2> HIDE DEF ps
  <2> QED
    BY <1>2, <2>1
<1> HIDE DEF ps
<1>4. p \in Seq(Nat)
  <2>1. /\ Len(ps) \in 1 .. 4 /\ DOMAIN ps = 1 .. Len(ps)
    BY <1>2, <1>3
  <2>2. ASSUME NEW i \in 1 .. Len(ps) PROVE FieldBytes(ps[i]) \in Seq(Nat)
    <3>1. i \in 1 .. n - 1 /\ i \in 1 .. n
      BY <1>2, <1>3
    <3> QED
      BY <1>3, <3>1 DEF n
  <2> QED
    BY <2>1, <2>2, FlatIs
<1>5. b = FlattenSeq(s) /\ p = FlattenSeq(t)
  BY DEF Flat
<1>6. /\ Len(t) = n - 1 /\ \A i \in 1 .. n - 1 : t[i] = s[i]
  <2>1. DOMAIN t = 1 .. n - 1 /\ Len(t) = n - 1
    BY <1>2, <1>3
  <2>2. ASSUME NEW i \in 1 .. n - 1 PROVE t[i] = s[i]
    <3>1. i \in 1 .. n
      BY <1>2
    <3>2. t[i] = FieldBytes(ps[i])
      BY <1>3
    <3> QED
      BY <1>1, <1>3, <3>1, <3>2
  <2> QED
    BY <2>1, <2>2
<1> HIDE DEF s, t, p, b
<1>7. PICK g : /\ g[1] = s[1] /\ \A i \in 2 .. n : g[i] = g[i - 1] \o s[i]
               /\ b = g[n]
  <2>1. Len(s) \in Nat /\ Len(s) > 0
    BY <1>1
  <2> QED
    BY <1>1, <1>5, <2>1, FlattenIs
<1>8. PICK h : /\ h[1] = t[1] /\ \A i \in 2 .. n - 1 : h[i] = h[i - 1] \o t[i]
               /\ p = h[n - 1]
  <2>1. Len(t) \in Nat /\ Len(t) > 0
    BY <1>1, <1>6
  <2> QED
    BY <1>5, <1>6, <2>1, FlattenIs
<1>9. g[1] = h[1]
  <2>1. 1 \in 1 .. n - 1
    BY <1>1
  <2> QED
    BY <1>6, <1>7, <1>8, <2>1
<1>10. n > 2 => g[2] = h[2]
  <2>1. n > 2 => 2 \in 2 .. n /\ 2 \in 2 .. n - 1 /\ 2 \in 1 .. n - 1 /\ 2 - 1 = 1
    BY <1>1
  <2>2. n > 2 => g[2] = g[1] \o s[2]
    BY <1>7, <2>1
  <2>3. n > 2 => h[2] = h[1] \o t[2] /\ t[2] = s[2]
    BY <1>6, <1>8, <2>1
  <2> QED
    BY <1>9, <2>2, <2>3
<1>11. n > 3 => g[3] = h[3]
  <2>1. n > 3 => n > 2 /\ 3 \in 2 .. n /\ 3 \in 2 .. n - 1 /\ 3 \in 1 .. n - 1 /\ 3 - 1 = 2
    BY <1>1
  <2>2. n > 3 => g[3] = g[2] \o s[3]
    BY <1>7, <2>1
  <2>3. n > 3 => h[3] = h[2] \o t[3] /\ t[3] = s[3]
    BY <1>6, <1>8, <2>1
  <2> QED
    BY <1>10, <2>1, <2>2, <2>3
<1>12. g[n - 1] = p
  <2>1. CASE n = 2
    BY <1>8, <1>9, <2>1
  <2>2. CASE n = 3
    BY <1>8, <1>10, <2>2
  <2>3. CASE n = 4
    BY <1>8, <1>11, <2>3
  <2> QED
    BY <1>1, <2>1, <2>2, <2>3
<1>13. b = p \o s[n]
  <2>1. n \in 2 .. n
    BY <1>1
  <2> QED
    BY <1>7, <1>12, <2>1
<1>14. s[n] = FieldBytes(fs[n])
  <2>1. n \in 1 .. n
    BY <1>1
  <2> QED
    BY <1>1, <2>1
<1> QED
  BY <1>4, <1>13, <1>14 DEF p, ps, b, n

\* An event in its current layout is read as a whole or not at all, and as a
\* whole if only zeros of its last field are stripped.
LEMMA Extraction ==
    ASSUME NEW S, NEW e, NEW min \in Nat, NEW max \in Nat, e.wire = e.fields,
           e.fields \in Seq(S), Len(e.fields) \in 1 .. 4,
           \A i \in 1 .. Len(e.fields) : FieldBytes(e.fields[i]) \in Seq(Nat),
           Len(Flat(e.fields)) = max, 0 < min, min <= max,
           Len(e.fields) > 1 => min + Len(FieldBytes(e.fields[Len(e.fields)])) <= max
    PROVE  LET b == Flat(e.fields)
               x == extract_flat_bytes(LogItem(e), min, max)
           IN  /\ x = b \/ x = <<>>
               /\ b \in Seq(Nat) /\ b # <<>>
               /\ Len(e.fields) > 1 /\ OnlyFinalStripped(e) => x = b
<1> DEFINE fs == e.fields
           n == Len(fs)
           b == Flat(fs)
           x == extract_flat_bytes(LogItem(e), min, max)
           p == Flat(SubSeq(fs, 1, n - 1))
           q == FieldBytes(fs[n])
<1>1. b \in Seq(Nat)
  <2>1. DOMAIN e.fields = 1 .. Len(e.fields)
    OBVIOUS
  <2> QED
    BY <2>1, FlatIs
<1>2. Len(b) = max /\ (n > 1 => min + Len(q) <= max) /\ e.wire = fs
  OBVIOUS
<1>3. OnlyFinalStripped(e) => p = <<>> \/ p[Len(p)] # 0
  BY DEF OnlyFinalStripped
<1>4. n > 1 => p \in Seq(Nat) /\ b = p \o q /\ q \in Seq(Nat)
  <2>1. n > 1 => n \in 2 .. 4 /\ n \in 1 .. n
    OBVIOUS
  <2>2. n > 1 => q \in Seq(Nat)
    BY <2>1
  <2> QED
    BY <2>1, <2>2, FlatLast
<1>5. /\ x = b \/ x = <<>>
      /\ \A m \in 1 .. max : min <= m /\ b[m] # 0 => x = b
  BY <1>1, <1>2, Extracted
<1> HIDE DEF fs, n, b, x, p, q
<1>6. ASSUME n > 1, OnlyFinalStripped(e) PROVE x = b
  <2>1. p \in Seq(Nat) /\ q \in Seq(Nat) /\ b = p \o q
    BY <1>4, <1>6
  <2>2. Len(b) = Len(p) + Len(q) /\ \A i \in 1 .. Len(p) : b[i] = p[i]
    BY <2>1
  <2>3. Len(p) \in Nat /\ Len(q) \in Nat
    BY <2>1
  <2>4. min <= Len(p) /\ Len(p) \in 1 .. max /\ Len(p) \in 1 .. Len(p)
    BY <1>2, <1>6, <2>2, <2>3
  <2>5. p # <<>>
    BY <2>4
  <2>6. b[Len(p)] # 0
    BY <1>3, <1>6, <2>2, <2>4, <2>5
  <2> QED
    BY <1>5, <2>4, <2>6
<1>7. b # <<>>
  BY <1>2
<1> QED
  BY <1>1, <1>5, <1>6, <1>7 DEF fs, n, b, x

----------------------------------------------------------------------------
(* Structs of fields *)

\* How many bytes a field has, and how the decoder reads them.
Width(as) ==
    CASE as = "key" -> 3
      [] as = "payload" -> 4
      [] as = "uint" -> 2
      [] as = "maybeUint" -> 3
      [] as = "maybeKey" -> 4
      [] as = "ciphertext" -> 5
      [] as = "either" -> 7

Read(b, offset, as) ==
    CASE as = "key" -> take_bytes(b, offset, 3)
      [] as = "payload" -> take_bytes(b, offset, 4)
      [] as = "uint" -> take_uint_128_le(b, offset)
      [] as = "maybeUint" -> take_maybe_uint_128_le(b, offset)
      [] as = "maybeKey" -> take_maybe_bytes(b, offset, 3)
      [] as = "ciphertext" -> take_maybe_bytes(b, offset, 4)
      [] as = "either" -> take_either_address(b, offset)

FieldTypes == {"key", "payload", "uint", "maybeUint", "maybeKey", "ciphertext", "either"}

\* A field is read back from where it was written, and has its default where nothing was.
LEMMA FieldRead ==
    ASSUME NEW as \in FieldTypes, NEW field, Fits(field, as)
    PROVE  /\ FieldBytes(field) \in Seq(Nat) /\ Len(FieldBytes(field)) = Width(as)
           /\ \A b \in Seq(Nat), offset \in Nat :
                 b # <<>> /\ offset + Width(as) <= Len(b) /\ Placed(b, offset, FieldBytes(field))
                   => Read(b, offset, as) = field.value
           /\ \A offset \in Nat : Read(<<>>, offset, as) = DefaultOf(field)
<1>0. 3 \in Nat /\ 4 \in Nat /\ 1 + 3 = 4 /\ 1 + 4 = 5
  OBVIOUS
<1>1. CASE as = "key"
  <2>1. field.kind = "bytes" /\ field.value \in Bytes(3)
    BY <1>1 DEF Fits, BYTES_32_SIZE
  <2>2. Width(as) = 3 /\ \A b, offset : Read(b, offset, as) = take_bytes(b, offset, 3)
    BY <1>1 DEF Width, Read
  <2>3. DefaultOf(field) = <<>> /\ \A offset : take_bytes(<<>>, offset, 3) = <<>>
    BY <2>1 DEF DefaultOf, take_bytes
  <2>4. /\ FieldBytes(field) \in Seq(Nat) /\ Len(FieldBytes(field)) = 3
        /\ \A b \in Seq(Nat), offset \in Nat :
              b # <<>> /\ offset + 3 <= Len(b) /\ Placed(b, offset, FieldBytes(field))
                => take_bytes(b, offset, 3) = field.value
    BY <1>0, <2>1, BytesRead
  <2> QED
    BY <2>2, <2>3, <2>4
<1>2. CASE as = "payload"
  <2>1. field.kind = "bytes" /\ field.value \in Bytes(4)
    BY <1>2 DEF Fits, PAYLOAD
  <2>2. Width(as) = 4 /\ \A b, offset : Read(b, offset, as) = take_bytes(b, offset, 4)
    BY <1>2 DEF Width, Read
  <2>3. DefaultOf(field) = <<>> /\ \A offset : take_bytes(<<>>, offset, 4) = <<>>
    BY <2>1 DEF DefaultOf, take_bytes
  <2>4. /\ FieldBytes(field) \in Seq(Nat) /\ Len(FieldBytes(field)) = 4
        /\ \A b \in Seq(Nat), offset \in Nat :
              b # <<>> /\ offset + 4 <= Len(b) /\ Placed(b, offset, FieldBytes(field))
                => take_bytes(b, offset, 4) = field.value
    BY <1>0, <2>1, BytesRead
  <2> QED
    BY <2>2, <2>3, <2>4
<1>3. CASE as = "uint"
  <2>1. field.kind = "uint" /\ field.value \in Uint
    BY <1>3 DEF Fits
  <2>2. Width(as) = 2 /\ \A b, offset : Read(b, offset, as) = take_uint_128_le(b, offset)
    BY <1>3 DEF Width, Read
  <2>3. DefaultOf(field) = 0 /\ \A offset : take_uint_128_le(<<>>, offset) = 0
    BY <2>1 DEF DefaultOf, take_uint_128_le
  <2>4. /\ FieldBytes(field) \in Seq(Nat) /\ Len(FieldBytes(field)) = 2
        /\ \A b \in Seq(Nat), offset \in Nat :
              b # <<>> /\ offset + 2 <= Len(b) /\ Placed(b, offset, FieldBytes(field))
                => take_uint_128_le(b, offset) = field.value
    BY <2>1, UintRead
  <2> QED
    BY <2>2, <2>3, <2>4
<1>4. CASE as = "maybeUint"
  <2>1. field.kind = "maybeUint" /\ Optional(field.value, Uint)
    BY <1>4 DEF Fits
  <2>2. Width(as) = 3 /\ \A b, offset : Read(b, offset, as) = take_maybe_uint_128_le(b, offset)
    BY <1>4 DEF Width, Read
  <2>3. DefaultOf(field) = <<>> /\ \A offset : take_maybe_uint_128_le(<<>>, offset) = <<>>
    BY <2>1 DEF DefaultOf, take_maybe_uint_128_le
  <2>4. /\ FieldBytes(field) \in Seq(Nat) /\ Len(FieldBytes(field)) = 3
        /\ \A b \in Seq(Nat), offset \in Nat :
              b # <<>> /\ offset + 3 <= Len(b) /\ Placed(b, offset, FieldBytes(field))
                => take_maybe_uint_128_le(b, offset) = field.value
    BY <2>1, MaybeUintRead
  <2> QED
    BY <2>2, <2>3, <2>4
<1>5. CASE as = "maybeKey"
  <2>1. field.kind = "maybe" /\ field.size = 3 /\ Optional(field.value, Bytes(3))
    BY <1>5 DEF Fits, BYTES_32_SIZE
  <2>2. Width(as) = 4 /\ \A b, offset : Read(b, offset, as) = take_maybe_bytes(b, offset, 3)
    BY <1>5 DEF Width, Read
  <2>3. DefaultOf(field) = <<>> /\ \A offset : take_maybe_bytes(<<>>, offset, 3) = <<>>
    BY <2>1 DEF DefaultOf, take_maybe_bytes
  <2>4. /\ FieldBytes(field) \in Seq(Nat) /\ Len(FieldBytes(field)) = 1 + 3
        /\ \A b \in Seq(Nat), offset \in Nat :
              b # <<>> /\ offset + 1 + 3 <= Len(b) /\ Placed(b, offset, FieldBytes(field))
                => take_maybe_bytes(b, offset, 3) = field.value
    BY <1>0, <2>1, MaybeRead
  <2>5. \A offset \in Nat : offset + 1 + 3 = offset + 4
    OBVIOUS
  <2> QED
    BY <1>0, <2>2, <2>3, <2>4, <2>5
<1>6. CASE as = "ciphertext"
  <2>1. field.kind = "maybe" /\ field.size = 4 /\ Optional(field.value, Bytes(4))
    BY <1>6 DEF Fits, CIPHERTEXT
  <2>2. Width(as) = 5 /\ \A b, offset : Read(b, offset, as) = take_maybe_bytes(b, offset, 4)
    BY <1>6 DEF Width, Read
  <2>3. DefaultOf(field) = <<>> /\ \A offset : take_maybe_bytes(<<>>, offset, 4) = <<>>
    BY <2>1 DEF DefaultOf, take_maybe_bytes
  <2>4. /\ FieldBytes(field) \in Seq(Nat) /\ Len(FieldBytes(field)) = 1 + 4
        /\ \A b \in Seq(Nat), offset \in Nat :
              b # <<>> /\ offset + 1 + 4 <= Len(b) /\ Placed(b, offset, FieldBytes(field))
                => take_maybe_bytes(b, offset, 4) = field.value
    BY <1>0, <2>1, MaybeRead
  <2>5. \A offset \in Nat : offset + 1 + 4 = offset + 5
    OBVIOUS
  <2> QED
    BY <1>0, <2>2, <2>3, <2>4, <2>5
<1>7. CASE as = "either"
  <2>1. field.kind = "either" /\ field.value \in [left : BOOLEAN, key : Bytes(BYTES_32_SIZE)]
    BY <1>7 DEF Fits
  <2>2. Width(as) = 7 /\ \A b, offset : Read(b, offset, as) = take_either_address(b, offset)
    BY <1>7 DEF Width, Read
  <2>3. /\ DefaultOf(field) = [left |-> TRUE, key |-> <<>>]
        /\ \A offset : take_either_address(<<>>, offset) = [left |-> TRUE, key |-> <<>>]
    BY <2>1 DEF DefaultOf, take_either_address, take_bytes
  <2>4. /\ FieldBytes(field) \in Seq(Nat) /\ Len(FieldBytes(field)) = 7
        /\ \A b \in Seq(Nat), offset \in Nat :
              b # <<>> /\ offset + 7 <= Len(b) /\ Placed(b, offset, FieldBytes(field))
                => take_either_address(b, offset) = field.value
    BY <2>1, EitherRead
  <2> QED
    BY <2>2, <2>3, <2>4
<1> QED
  BY <1>1, <1>2, <1>3, <1>4, <1>5, <1>6, <1>7 DEF FieldTypes

\* Where the fields of a layout are, and where it ends.
Offset(layout, i) ==
    CASE i = 1 -> 0
      [] i = 2 -> Width(layout[1])
      [] i = 3 -> Width(layout[1]) + Width(layout[2])
      [] i = 4 -> Width(layout[1]) + Width(layout[2]) + Width(layout[3])

Size(layout) == Offset(layout, Len(layout)) + Width(layout[Len(layout)])

LEMMA WidthIs ==
    ASSUME NEW as \in FieldTypes PROVE Width(as) \in Nat /\ Width(as) > 0
<1>1. \/ as = "key" \/ as = "payload" \/ as = "uint" \/ as = "maybeUint" \/ as = "maybeKey"
      \/ as = "ciphertext" \/ as = "either"
  BY DEF FieldTypes
<1>2. CASE as = "key"
  BY <1>2 DEF Width
<1>3. CASE as = "payload"
  BY <1>3 DEF Width
<1>4. CASE as = "uint"
  BY <1>4 DEF Width
<1>5. CASE as = "maybeUint"
  BY <1>5 DEF Width
<1>6. CASE as = "maybeKey"
  BY <1>6 DEF Width
<1>7. CASE as = "ciphertext"
  BY <1>7 DEF Width
<1>8. CASE as = "either"
  BY <1>8 DEF Width
<1> QED
  BY <1>1, <1>2, <1>3, <1>4, <1>5, <1>6, <1>7, <1>8

\* An event has the fields of its layout.
LEMMA EventFields ==
    ASSUME NEW e, IsEvent(e), NEW layout, layout = Layout(e.type),
           layout \in Seq(FieldTypes)
    PROVE  /\ \E S : e.fields \in Seq(S)
           /\ Len(e.fields) = Len(layout)
           /\ \A i \in 1 .. Len(layout) :
                 /\ layout[i] \in FieldTypes /\ Fits(e.fields[i], layout[i])
                 /\ FieldBytes(e.fields[i]) \in Seq(Nat)
                 /\ Len(FieldBytes(e.fields[i])) = Width(layout[i])
<1> DEFINE fs == e.fields
           n == Len(layout)
           S == {fs[i] : i \in 1 .. n}
<1>1. DOMAIN layout = 1 .. n /\ n \in Nat /\ \A i \in 1 .. n : layout[i] \in FieldTypes
  OBVIOUS
<1>2. Len(fs) = n /\ fs = [i \in 1 .. n |-> fs[i]] /\ \A i \in 1 .. n : Fits(fs[i], layout[i])
  <2>1. /\ Len(fs) = Len(layout) /\ fs = [i \in DOMAIN layout |-> fs[i]]
        /\ \A i \in DOMAIN layout : Fits(fs[i], layout[i])
    <3> HIDE DEF fs
    <3> QED
      BY DEF IsEvent, fs
  <2> HIDE DEF fs
  <2> QED
    BY <1>1, <2>1
<1> HIDE DEF fs, n
<1>3. fs \in Seq(S)
  <2>1. \A i \in 1 .. n : fs[i] \in S
    OBVIOUS
  <2> HIDE DEF S
  <2>2. fs \in [1 .. n -> S]
    BY <1>2, <2>1
  <2> QED
    BY <1>1, <2>2
<1>4. ASSUME NEW i \in 1 .. n
      PROVE  FieldBytes(fs[i]) \in Seq(Nat) /\ Len(FieldBytes(fs[i])) = Width(layout[i])
  BY <1>1, <1>2, FieldRead
<1> HIDE DEF S
<1>5. \E U : fs \in Seq(U)
  BY <1>3
<1> QED
  BY <1>1, <1>2, <1>4, <1>5 DEF fs, n

\* Fields lie one after the other.
LEMMA StructPlaced ==
    ASSUME NEW e, IsEvent(e), NEW layout, layout = Layout(e.type),
           layout \in Seq(FieldTypes), Len(layout) \in 1 .. 4
    PROVE  LET b == Flat(e.fields)
           IN  /\ b \in Seq(Nat) /\ Len(b) = Size(layout)
               /\ \A i \in 1 .. Len(layout) :
                     /\ Offset(layout, i) \in Nat
                     /\ Offset(layout, i) + Width(layout[i]) <= Size(layout)
                     /\ Placed(b, Offset(layout, i), FieldBytes(e.fields[i]))
<1> DEFINE fs == e.fields
           n == Len(layout)
           b == Flat(fs)
           W(i) == Width(layout[i])
           c(i) == FieldBytes(fs[i])
<1>1. /\ Len(fs) = n /\ DOMAIN fs = 1 .. Len(fs)
      /\ \A i \in 1 .. n : /\ layout[i] \in FieldTypes
                          /\ c(i) \in Seq(Nat) /\ Len(c(i)) = W(i)
  <2>1. /\ \E S : e.fields \in Seq(S)
        /\ Len(e.fields) = Len(layout)
        /\ \A i \in 1 .. Len(layout) :
              /\ layout[i] \in FieldTypes
              /\ FieldBytes(e.fields[i]) \in Seq(Nat)
              /\ Len(FieldBytes(e.fields[i])) = Width(layout[i])
    BY EventFields
  <2>2. PICK S : fs \in Seq(S)
    BY <2>1
  <2>3. DOMAIN fs = 1 .. Len(fs)
    <3> HIDE DEF fs
    <3> QED
      BY <2>2
  <2> QED
    BY <2>1, <2>3
<1>2. n \in 1 .. 4
  OBVIOUS
<1> HIDE DEF fs, n, b
<1>3. /\ b \in Seq(Nat)
      /\ Len(b) = Len(c(1)) + (IF n < 2 THEN 0 ELSE Len(c(2)))
                    + (IF n < 3 THEN 0 ELSE Len(c(3)))
                    + (IF n < 4 THEN 0 ELSE Len(c(4)))
      /\ Placed(b, 0, c(1))
      /\ n > 1 => Placed(b, Len(c(1)), c(2))
      /\ n > 2 => Placed(b, Len(c(1)) + Len(c(2)), c(3))
      /\ n > 3 => Placed(b, Len(c(1)) + Len(c(2)) + Len(c(3)), c(4))
  <2>1. Len(fs) \in 1 .. 4 /\ \A i \in 1 .. Len(fs) : c(i) \in Seq(Nat)
    BY <1>1, <1>2
  <2> QED
    BY <1>1, <2>1, FlatIs DEF b
<1>4. 1 \in 1 .. n /\ (n > 1 => 2 \in 1 .. n) /\ (n > 2 => 3 \in 1 .. n) /\ (n > 3 => 4 \in 1 .. n)
  BY <1>2
<1>5. \A i \in 1 .. n : Len(c(i)) = W(i) /\ W(i) \in Nat
  BY <1>1, WidthIs
<1> DEFINE o(i) == Offset(layout, i)
<1>6. o(1) = 0 /\ o(2) = W(1) /\ o(3) = W(1) + W(2) /\ o(4) = W(1) + W(2) + W(3)
  BY DEF Offset
<1>7. Size(layout) = o(n) + W(n)
  BY DEF Size, n
<1> HIDE DEF W, c, o
<1>8. CASE n = 1
  <2>1. W(1) \in Nat /\ Len(c(1)) = W(1)
    BY <1>4, <1>5
  <2>2. Len(b) = Size(layout) /\ Size(layout) = W(1)
    BY <1>3, <1>6, <1>7, <1>8, <2>1
  <2>3. ASSUME NEW i \in 1 .. n
        PROVE  o(i) \in Nat /\ o(i) + W(i) <= Size(layout) /\ Placed(b, o(i), c(i))
    <3>1. i = 1
      BY <1>8
    <3> QED
      BY <1>3, <1>6, <2>1, <2>2, <3>1
  <2> QED
    BY <1>3, <2>2, <2>3 DEF b, n, fs, W, c, o
<1>9. CASE n = 2
  <2>1. W(1) \in Nat /\ Len(c(1)) = W(1) /\ W(2) \in Nat /\ Len(c(2)) = W(2)
    BY <1>4, <1>5, <1>9
  <2>2. Len(b) = Size(layout) /\ Size(layout) = W(1) + W(2)
    <3>1. Len(b) = Len(c(1)) + Len(c(2)) + 0 + 0
      BY <1>3, <1>9
    <3>2. Size(layout) = W(1) + W(2)
      BY <1>6, <1>7, <1>9
    <3>3. Len(b) = W(1) + W(2) + 0 + 0
      BY <2>1, <3>1
    <3>4. W(1) + W(2) + 0 + 0 = W(1) + W(2)
      BY <2>1
    <3> QED
      BY <3>2, <3>3, <3>4
  <2>3. ASSUME NEW i \in 1 .. n
        PROVE  o(i) \in Nat /\ o(i) + W(i) <= Size(layout) /\ Placed(b, o(i), c(i))
    <3>1. i = 1 \/ i = 2
      BY <1>9
    <3> QED
      BY <1>3, <1>6, <1>9, <2>1, <2>2, <3>1
  <2> QED
    BY <1>3, <2>2, <2>3 DEF b, n, fs, W, c, o
<1>10. CASE n = 3
  <2>1. /\ W(1) \in Nat /\ Len(c(1)) = W(1) /\ W(2) \in Nat /\ Len(c(2)) = W(2)
        /\ W(3) \in Nat /\ Len(c(3)) = W(3)
    BY <1>4, <1>5, <1>10
  <2>2. Len(b) = Size(layout) /\ Size(layout) = W(1) + W(2) + W(3)
    <3>1. Len(b) = Len(c(1)) + Len(c(2)) + Len(c(3)) + 0
      BY <1>3, <1>10
    <3>2. Size(layout) = W(1) + W(2) + W(3)
      BY <1>6, <1>7, <1>10
    <3>3. Len(b) = W(1) + W(2) + W(3) + 0
      BY <2>1, <3>1
    <3>4. W(1) + W(2) + W(3) + 0 = W(1) + W(2) + W(3)
      BY <2>1
    <3> QED
      BY <3>2, <3>3, <3>4
  <2>3. ASSUME NEW i \in 1 .. n
        PROVE  o(i) \in Nat /\ o(i) + W(i) <= Size(layout) /\ Placed(b, o(i), c(i))
    <3>1. i = 1 \/ i = 2 \/ i = 3
      BY <1>10
    <3>2. /\ Placed(b, 0, c(1)) /\ Placed(b, W(1), c(2)) /\ Placed(b, W(1) + W(2), c(3))
      <4>1. /\ Placed(b, 0, c(1)) /\ Placed(b, Len(c(1)), c(2))
            /\ Placed(b, Len(c(1)) + Len(c(2)), c(3))
        BY <1>3, <1>10
      <4> QED
        BY <2>1, <4>1
    <3> QED
      BY <1>6, <2>1, <2>2, <3>1, <3>2
  <2> QED
    BY <1>3, <2>2, <2>3 DEF b, n, fs, W, c, o
<1>11. CASE n = 4
  <2>1. /\ W(1) \in Nat /\ Len(c(1)) = W(1) /\ W(2) \in Nat /\ Len(c(2)) = W(2)
        /\ W(3) \in Nat /\ Len(c(3)) = W(3) /\ W(4) \in Nat /\ Len(c(4)) = W(4)
    BY <1>4, <1>5, <1>11
  <2>2. Len(b) = Size(layout) /\ Size(layout) = W(1) + W(2) + W(3) + W(4)
    <3>1. Len(b) = Len(c(1)) + Len(c(2)) + Len(c(3)) + Len(c(4))
      BY <1>3, <1>11
    <3>2. Size(layout) = W(1) + W(2) + W(3) + W(4)
      BY <1>6, <1>7, <1>11
    <3> QED
      BY <2>1, <3>1, <3>2
  <2>3. ASSUME NEW i \in 1 .. n
        PROVE  o(i) \in Nat /\ o(i) + W(i) <= Size(layout) /\ Placed(b, o(i), c(i))
    <3>1. i = 1 \/ i = 2 \/ i = 3 \/ i = 4
      BY <1>11
    <3>2. /\ Placed(b, 0, c(1)) /\ Placed(b, W(1), c(2)) /\ Placed(b, W(1) + W(2), c(3))
          /\ Placed(b, W(1) + W(2) + W(3), c(4))
      <4>1. /\ Placed(b, 0, c(1)) /\ Placed(b, Len(c(1)), c(2))
            /\ Placed(b, Len(c(1)) + Len(c(2)), c(3))
            /\ Placed(b, Len(c(1)) + Len(c(2)) + Len(c(3)), c(4))
        BY <1>3, <1>11
      <4> QED
        BY <2>1, <4>1
    <3> QED
      BY <1>6, <2>1, <2>2, <3>1, <3>2
  <2> QED
    BY <1>3, <2>2, <2>3 DEF b, n, fs, W, c, o
<1> QED
  BY <1>2, <1>8, <1>9, <1>10, <1>11

\* All fields of an event are read back, or none.
LEMMA StructRead ==
    ASSUME NEW e, IsEvent(e), e.wire = e.fields, NEW layout, layout = Layout(e.type),
           layout \in Seq(FieldTypes), Len(layout) \in 1 .. 4,
           NEW min \in Nat, NEW max \in Nat, max = Size(layout), 0 < min, min <= max,
           Len(layout) > 1 => min + Width(layout[Len(layout)]) <= max
    PROVE  LET x == extract_flat_bytes(LogItem(e), min, max)
               all == \A i \in 1 .. Len(layout) :
                         Read(x, Offset(layout, i), layout[i]) = e.fields[i].value
               none == \A i \in 1 .. Len(layout) :
                          Read(x, Offset(layout, i), layout[i]) = DefaultOf(e.fields[i])
           IN  /\ all \/ none
               /\ Len(layout) > 1 /\ OnlyFinalStripped(e) => all
<1> DEFINE fs == e.fields
           n == Len(layout)
           b == Flat(fs)
           x == extract_flat_bytes(LogItem(e), min, max)
<1>1. /\ \E S : fs \in Seq(S)
      /\ Len(fs) = n
      /\ \A i \in 1 .. n :
            /\ layout[i] \in FieldTypes /\ Fits(fs[i], layout[i])
            /\ FieldBytes(fs[i]) \in Seq(Nat)
            /\ Len(FieldBytes(fs[i])) = Width(layout[i])
  BY EventFields
<1>2. /\ b \in Seq(Nat) /\ Len(b) = max
      /\ \A i \in 1 .. n :
            /\ Offset(layout, i) \in Nat
            /\ Offset(layout, i) + Width(layout[i]) <= max
            /\ Placed(b, Offset(layout, i), FieldBytes(fs[i]))
  BY StructPlaced
<1>3. /\ x = b \/ x = <<>>
      /\ b \in Seq(Nat) /\ b # <<>>
      /\ n > 1 /\ OnlyFinalStripped(e) => x = b
  <2>1. PICK S : fs \in Seq(S)
    BY <1>1
  <2>2. Len(fs) = n /\ Len(fs) \in 1 .. 4 /\ n \in 1 .. n
    <3>1. Len(fs) = n
      BY <1>1
    <3>2. n \in 1 .. 4
      OBVIOUS
    <3> HIDE DEF fs, n
    <3> QED
      BY <3>1, <3>2
  <2>3. \A i \in 1 .. Len(fs) : FieldBytes(fs[i]) \in Seq(Nat)
    BY <1>1
  <2>4. Len(fs) > 1 => min + Len(FieldBytes(fs[Len(fs)])) <= max
    BY <1>1, <2>2
  <2>5. Len(b) = max /\ 0 < min /\ min <= max /\ e.wire = e.fields
    BY <1>2
  <2>6. LET z == extract_flat_bytes(LogItem(e), min, max)
        IN  /\ z = Flat(e.fields) \/ z = <<>>
            /\ Flat(e.fields) \in Seq(Nat) /\ Flat(e.fields) # <<>>
            /\ Len(e.fields) > 1 /\ OnlyFinalStripped(e) => z = Flat(e.fields)
    BY <2>1, <2>2, <2>3, <2>4, <2>5, Extraction
  <2> QED
    BY <1>1, <2>6
<1> HIDE DEF fs, n, b, x
<1>4. ASSUME x = b, NEW i \in 1 .. n
      PROVE  Read(x, Offset(layout, i), layout[i]) = fs[i].value
  BY <1>1, <1>2, <1>3, <1>4, FieldRead
<1>5. ASSUME x = <<>>, NEW i \in 1 .. n
      PROVE  Read(x, Offset(layout, i), layout[i]) = DefaultOf(fs[i])
  BY <1>1, <1>2, <1>5, FieldRead
<1> QED
  BY <1>3, <1>4, <1>5 DEF fs, n, x

----------------------------------------------------------------------------
(* The types of events *)

\* Attributes that are read field by field, of bytes no shorter than all fields
\* but the last.
LEMMA ReadAs ==
    ASSUME NEW e, IsEvent(e), e.wire = e.fields, NEW layout, layout = Layout(e.type),
           layout \in Seq(FieldTypes), Len(layout) \in 1 .. 4,
           NEW min \in Nat, NEW max \in Nat, max = Size(layout), 0 < min, min <= max,
           Len(layout) > 1 => min + Width(layout[Len(layout)]) <= max,
           Len(layout) > 1 \/ e.type = "ShieldedSpend",
           NEW U, NEW a \in Seq(U), Len(a) = Len(layout),
           \A i \in 1 .. Len(layout) :
              a[i] = Read(extract_flat_bytes(LogItem(e), min, max), Offset(layout, i), layout[i])
    PROVE  SoundLog(e, a)
<1> DEFINE fs == e.fields
           n == Len(layout)
           x == extract_flat_bytes(LogItem(e), min, max)
           R(i) == Read(x, Offset(layout, i), layout[i])
           all == \A i \in 1 .. n : R(i) = fs[i].value
           none == \A i \in 1 .. n : R(i) = DefaultOf(fs[i])
<1>1. (all \/ none) /\ (n > 1 /\ OnlyFinalStripped(e) => all)
  BY StructRead
<1>2. DOMAIN fs = 1 .. n
  <2>1. (\E S : fs \in Seq(S)) /\ Len(fs) = n
    BY EventFields
  <2>2. PICK S : fs \in Seq(S)
    BY <2>1
  <2> HIDE DEF fs, n
  <2> QED
    BY <2>1, <2>2
<1>3. a = [i \in 1 .. n |-> R(i)]
  <2> HIDE DEF R, n
  <2>1. a = [i \in 1 .. n |-> a[i]]
    BY DEF n
  <2>2. \A i \in 1 .. n : a[i] = R(i)
    BY DEF R, n
  <2> QED
    BY <2>1, <2>2
<1>4. n > 1 \/ e.type = "ShieldedSpend"
  OBVIOUS
<1> HIDE DEF fs, n, R
<1>5. all => a = Values(e)
  BY <1>2, <1>3 DEF Values, fs
<1>6. none => a = Default(e)
  BY <1>2, <1>3 DEF Default, fs
<1> HIDE DEF all, none
<1> QED
  BY <1>1, <1>4, <1>5, <1>6 DEF SoundLog

\* Each type of event with its layout, and with the lengths the decoder asks for.
LEMMA ShieldedSpendRead ==
    ASSUME NEW e, IsEvent(e), e.type = "ShieldedSpend"
    PROVE  SoundLog(e, make_contract_event_attributes(LogItem(e)))
<1> DEFINE layout == <<"key">>
           min == 3
           max == 3
           x == extract_flat_bytes(LogItem(e), min, max)
           a == make_contract_event_attributes(LogItem(e))
           U == {a[1]}
<1>1. layout = Layout(e.type) /\ layout \in Seq(FieldTypes) /\ Len(layout) = 1
  BY DEF Layout, FieldTypes
<1>2. Offset(layout, 1) = 0
      /\ Size(layout) = 3 /\ Width(layout[1]) = 3
  BY DEF Offset, Size, Width
<1>3. a = <<Read(x, 0, "key")>>
  <2>1. LogItem(e).type = "ShieldedSpend"
    BY DEF LogItem
  <2> QED
    BY <2>1 DEF make_contract_event_attributes, ShieldedSpend, Read,
       BYTES_32_SIZE
<1>4. e.wire = e.fields
  BY DEF IsEvent
<1> HIDE DEF a, x
<1>5. a \in Seq(U) /\ Len(a) = 1 /\ \A i \in 1 .. 1 : a[i] = Read(x, Offset(layout, i), layout[i])
  BY <1>2, <1>3
<1> HIDE DEF layout
<1>6. /\ Len(layout) \in 1 .. 4
      /\ min \in Nat /\ max \in Nat /\ 0 < min /\ min <= max /\ max = Size(layout)
      /\ Len(layout) > 1 => min + Width(layout[Len(layout)]) <= max
      /\ Len(layout) > 1 \/ e.type = "ShieldedSpend"
  BY <1>1, <1>2
<1> HIDE DEF min, max, U
<1>7. /\ a \in Seq(U) /\ Len(a) = Len(layout)
      /\ \A i \in 1 .. Len(layout) : a[i] = Read(x, Offset(layout, i), layout[i])
  BY <1>1, <1>5
<1>8. SoundLog(e, a)
  BY <1>1, <1>4, <1>6, <1>7, ReadAs DEF x
<1> QED
  BY <1>8 DEF a

LEMMA ShieldedReceiveRead ==
    ASSUME NEW e, IsEvent(e), e.type = "ShieldedReceive"
    PROVE  SoundLog(e, make_contract_event_attributes(LogItem(e)))
<1> DEFINE layout == <<"key", "ciphertext", "maybeKey">>
           min == 3
           max == 12
           x == extract_flat_bytes(LogItem(e), min, max)
           a == make_contract_event_attributes(LogItem(e))
           U == {a[1], a[2], a[3]}
<1>1. layout = Layout(e.type) /\ layout \in Seq(FieldTypes) /\ Len(layout) = 3
  BY DEF Layout, FieldTypes
<1>2. Offset(layout, 1) = 0 /\ Offset(layout, 2) = 3 /\ Offset(layout, 3) = 8
      /\ Size(layout) = 12 /\ Width(layout[3]) = 4
  BY DEF Offset, Size, Width
<1>3. a = <<Read(x, 0, "key"),
            Read(x, 3, "ciphertext"),
            Read(x, 8, "maybeKey")>>
  <2>1. LogItem(e).type = "ShieldedReceive"
    BY DEF LogItem
  <2> QED
    BY <2>1 DEF make_contract_event_attributes, ShieldedReceive, Read,
       BYTES_32_SIZE, CIPHERTEXT, MAYBE_512_SIZE, SHIELDED_RECEIVE_SIZE
<1>4. e.wire = e.fields
  BY DEF IsEvent
<1> HIDE DEF a, x
<1>5. a \in Seq(U) /\ Len(a) = 3 /\ \A i \in 1 .. 3 : a[i] = Read(x, Offset(layout, i), layout[i])
  BY <1>2, <1>3
<1> HIDE DEF layout
<1>6. /\ Len(layout) \in 1 .. 4
      /\ min \in Nat /\ max \in Nat /\ 0 < min /\ min <= max /\ max = Size(layout)
      /\ Len(layout) > 1 => min + Width(layout[Len(layout)]) <= max
      /\ Len(layout) > 1 \/ e.type = "ShieldedSpend"
  BY <1>1, <1>2
<1> HIDE DEF min, max, U
<1>7. /\ a \in Seq(U) /\ Len(a) = Len(layout)
      /\ \A i \in 1 .. Len(layout) : a[i] = Read(x, Offset(layout, i), layout[i])
  BY <1>1, <1>5
<1>8. SoundLog(e, a)
  BY <1>1, <1>4, <1>6, <1>7, ReadAs DEF x
<1> QED
  BY <1>8 DEF a

LEMMA ShieldedMintRead ==
    ASSUME NEW e, IsEvent(e), e.type = "ShieldedMint"
    PROVE  SoundLog(e, make_contract_event_attributes(LogItem(e)))
<1> DEFINE layout == <<"key", "key", "maybeUint">>
           min == 6
           max == 9
           x == extract_flat_bytes(LogItem(e), min, max)
           a == make_contract_event_attributes(LogItem(e))
           U == {a[1], a[2], a[3]}
<1>1. layout = Layout(e.type) /\ layout \in Seq(FieldTypes) /\ Len(layout) = 3
  BY DEF Layout, FieldTypes
<1>2. Offset(layout, 1) = 0 /\ Offset(layout, 2) = 3 /\ Offset(layout, 3) = 6
      /\ Size(layout) = 9 /\ Width(layout[3]) = 3
  BY DEF Offset, Size, Width
<1>3. a = <<Read(x, 0, "key"),
            Read(x, 3, "key"),
            Read(x, 6, "maybeUint")>>
  <2>1. LogItem(e).type = "ShieldedMint"
    BY DEF LogItem
  <2> QED
    BY <2>1 DEF make_contract_event_attributes, ShieldedMint, Read,
       BYTES_32_SIZE, UINT_128_SIZE, SHIELDED_MINT_SIZE
<1>4. e.wire = e.fields
  BY DEF IsEvent
<1> HIDE DEF a, x
<1>5. a \in Seq(U) /\ Len(a) = 3 /\ \A i \in 1 .. 3 : a[i] = Read(x, Offset(layout, i), layout[i])
  BY <1>2, <1>3
<1> HIDE DEF layout
<1>6. /\ Len(layout) \in 1 .. 4
      /\ min \in Nat /\ max \in Nat /\ 0 < min /\ min <= max /\ max = Size(layout)
      /\ Len(layout) > 1 => min + Width(layout[Len(layout)]) <= max
      /\ Len(layout) > 1 \/ e.type = "ShieldedSpend"
  BY <1>1, <1>2
<1> HIDE DEF min, max, U
<1>7. /\ a \in Seq(U) /\ Len(a) = Len(layout)
      /\ \A i \in 1 .. Len(layout) : a[i] = Read(x, Offset(layout, i), layout[i])
  BY <1>1, <1>5
<1>8. SoundLog(e, a)
  BY <1>1, <1>4, <1>6, <1>7, ReadAs DEF x
<1> QED
  BY <1>8 DEF a

LEMMA ShieldedBurnRead ==
    ASSUME NEW e, IsEvent(e), e.type = "ShieldedBurn"
    PROVE  SoundLog(e, make_contract_event_attributes(LogItem(e)))
<1> DEFINE layout == <<"key", "maybeUint">>
           min == 3
           max == 6
           x == extract_flat_bytes(LogItem(e), min, max)
           a == make_contract_event_attributes(LogItem(e))
           U == {a[1], a[2]}
<1>1. layout = Layout(e.type) /\ layout \in Seq(FieldTypes) /\ Len(layout) = 2
  BY DEF Layout, FieldTypes
<1>2. Offset(layout, 1) = 0 /\ Offset(layout, 2) = 3
      /\ Size(layout) = 6 /\ Width(layout[2]) = 3
  BY DEF Offset, Size, Width
<1>3. a = <<Read(x, 0, "key"),
            Read(x, 3, "maybeUint")>>
  <2>1. LogItem(e).type = "ShieldedBurn"
    BY DEF LogItem
  <2> QED
    BY <2>1 DEF make_contract_event_attributes, ShieldedBurn, Read,
       BYTES_32_SIZE, UINT_128_SIZE, SHIELDED_BURN_SIZE
<1>4. e.wire = e.fields
  BY DEF IsEvent
<1> HIDE DEF a, x
<1>5. a \in Seq(U) /\ Len(a) = 2 /\ \A i \in 1 .. 2 : a[i] = Read(x, Offset(layout, i), layout[i])
  BY <1>2, <1>3
<1> HIDE DEF layout
<1>6. /\ Len(layout) \in 1 .. 4
      /\ min \in Nat /\ max \in Nat /\ 0 < min /\ min <= max /\ max = Size(layout)
      /\ Len(layout) > 1 => min + Width(layout[Len(layout)]) <= max
      /\ Len(layout) > 1 \/ e.type = "ShieldedSpend"
  BY <1>1, <1>2
<1> HIDE DEF min, max, U
<1>7. /\ a \in Seq(U) /\ Len(a) = Len(layout)
      /\ \A i \in 1 .. Len(layout) : a[i] = Read(x, Offset(layout, i), layout[i])
  BY <1>1, <1>5
<1>8. SoundLog(e, a)
  BY <1>1, <1>4, <1>6, <1>7, ReadAs DEF x
<1> QED
  BY <1>8 DEF a

LEMMA UnshieldedMintRead ==
    ASSUME NEW e, IsEvent(e), e.type = "UnshieldedMint"
    PROVE  SoundLog(e, make_contract_event_attributes(LogItem(e)))
<1> DEFINE layout == <<"key", "key", "uint">>
           min == 6
           max == 8
           x == extract_flat_bytes(LogItem(e), min, max)
           a == make_contract_event_attributes(LogItem(e))
           U == {a[1], a[2], a[3]}
<1>1. layout = Layout(e.type) /\ layout \in Seq(FieldTypes) /\ Len(layout) = 3
  BY DEF Layout, FieldTypes
<1>2. Offset(layout, 1) = 0 /\ Offset(layout, 2) = 3 /\ Offset(layout, 3) = 6
      /\ Size(layout) = 8 /\ Width(layout[3]) = 2
  BY DEF Offset, Size, Width
<1>3. a = <<Read(x, 0, "key"),
            Read(x, 3, "key"),
            Read(x, 6, "uint")>>
  <2>1. LogItem(e).type = "UnshieldedMint"
    BY DEF LogItem
  <2> QED
    BY <2>1 DEF make_contract_event_attributes, UnshieldedMint, Read,
       BYTES_32_SIZE, UINT_128_SIZE, UNSHIELDED_MINT_SIZE
<1>4. e.wire = e.fields
  BY DEF IsEvent
<1> HIDE DEF a, x
<1>5. a \in Seq(U) /\ Len(a) = 3 /\ \A i \in 1 .. 3 : a[i] = Read(x, Offset(layout, i), layout[i])
  BY <1>2, <1>3
<1> HIDE DEF layout
<1>6. /\ Len(layout) \in 1 .. 4
      /\ min \in Nat /\ max \in Nat /\ 0 < min /\ min <= max /\ max = Size(layout)
      /\ Len(layout) > 1 => min + Width(layout[Len(layout)]) <= max
      /\ Len(layout) > 1 \/ e.type = "ShieldedSpend"
  BY <1>1, <1>2
<1> HIDE DEF min, max, U
<1>7. /\ a \in Seq(U) /\ Len(a) = Len(layout)
      /\ \A i \in 1 .. Len(layout) : a[i] = Read(x, Offset(layout, i), layout[i])
  BY <1>1, <1>5
<1>8. SoundLog(e, a)
  BY <1>1, <1>4, <1>6, <1>7, ReadAs DEF x
<1> QED
  BY <1>8 DEF a

LEMMA UnshieldedBurnRead ==
    ASSUME NEW e, IsEvent(e), e.type = "UnshieldedBurn"
    PROVE  SoundLog(e, make_contract_event_attributes(LogItem(e)))
<1> DEFINE layout == <<"either", "key", "uint">>
           min == 10
           max == 12
           x == extract_flat_bytes(LogItem(e), min, max)
           a == make_contract_event_attributes(LogItem(e))
           U == {a[1], a[2], a[3]}
<1>1. layout = Layout(e.type) /\ layout \in Seq(FieldTypes) /\ Len(layout) = 3
  BY DEF Layout, FieldTypes
<1>2. Offset(layout, 1) = 0 /\ Offset(layout, 2) = 7 /\ Offset(layout, 3) = 10
      /\ Size(layout) = 12 /\ Width(layout[3]) = 2
  BY DEF Offset, Size, Width
<1>3. a = <<Read(x, 0, "either"),
            Read(x, 7, "key"),
            Read(x, 10, "uint")>>
  <2>1. LogItem(e).type = "UnshieldedBurn"
    BY DEF LogItem
  <2> QED
    BY <2>1 DEF make_contract_event_attributes, UnshieldedBurn, Read,
       BYTES_32_SIZE, UINT_128_SIZE, EITHER_SIZE, UNSHIELDED_BURN_SIZE
<1>4. e.wire = e.fields
  BY DEF IsEvent
<1> HIDE DEF a, x
<1>5. a \in Seq(U) /\ Len(a) = 3 /\ \A i \in 1 .. 3 : a[i] = Read(x, Offset(layout, i), layout[i])
  BY <1>2, <1>3
<1> HIDE DEF layout
<1>6. /\ Len(layout) \in 1 .. 4
      /\ min \in Nat /\ max \in Nat /\ 0 < min /\ min <= max /\ max = Size(layout)
      /\ Len(layout) > 1 => min + Width(layout[Len(layout)]) <= max
      /\ Len(layout) > 1 \/ e.type = "ShieldedSpend"
  BY <1>1, <1>2
<1> HIDE DEF min, max, U
<1>7. /\ a \in Seq(U) /\ Len(a) = Len(layout)
      /\ \A i \in 1 .. Len(layout) : a[i] = Read(x, Offset(layout, i), layout[i])
  BY <1>1, <1>5
<1>8. SoundLog(e, a)
  BY <1>1, <1>4, <1>6, <1>7, ReadAs DEF x
<1> QED
  BY <1>8 DEF a

LEMMA MiscRead ==
    ASSUME NEW e, IsEvent(e), e.type = "Misc"
    PROVE  SoundLog(e, make_contract_event_attributes(LogItem(e)))
<1> DEFINE layout == <<"key", "payload">>
           min == 3
           max == 7
           x == extract_flat_bytes(LogItem(e), min, max)
           a == make_contract_event_attributes(LogItem(e))
           U == {a[1], a[2]}
<1>1. layout = Layout(e.type) /\ layout \in Seq(FieldTypes) /\ Len(layout) = 2
  BY DEF Layout, FieldTypes
<1>2. Offset(layout, 1) = 0 /\ Offset(layout, 2) = 3
      /\ Size(layout) = 7 /\ Width(layout[2]) = 4
  BY DEF Offset, Size, Width
<1>3. a = <<Read(x, 0, "key"),
            Read(x, 3, "payload")>>
  <2>1. LogItem(e).type = "Misc"
    BY DEF LogItem
  <2> QED
    BY <2>1 DEF make_contract_event_attributes, Misc, Read,
       BYTES_32_SIZE, PAYLOAD, MISC_SIZE
<1>4. e.wire = e.fields
  BY DEF IsEvent
<1> HIDE DEF a, x
<1>5. a \in Seq(U) /\ Len(a) = 2 /\ \A i \in 1 .. 2 : a[i] = Read(x, Offset(layout, i), layout[i])
  BY <1>2, <1>3
<1> HIDE DEF layout
<1>6. /\ Len(layout) \in 1 .. 4
      /\ min \in Nat /\ max \in Nat /\ 0 < min /\ min <= max /\ max = Size(layout)
      /\ Len(layout) > 1 => min + Width(layout[Len(layout)]) <= max
      /\ Len(layout) > 1 \/ e.type = "ShieldedSpend"
  BY <1>1, <1>2
<1> HIDE DEF min, max, U
<1>7. /\ a \in Seq(U) /\ Len(a) = Len(layout)
      /\ \A i \in 1 .. Len(layout) : a[i] = Read(x, Offset(layout, i), layout[i])
  BY <1>1, <1>5
<1>8. SoundLog(e, a)
  BY <1>1, <1>4, <1>6, <1>7, ReadAs DEF x
<1> QED
  BY <1>8 DEF a

\* A spend or receive is read as a whole only in the layout with its domain: one
\* without it is too short.
LEMMA UnshieldedSpendRead ==
    ASSUME NEW e, IsEvent(e), e.type \in {"UnshieldedSpend", "UnshieldedReceive"}
    PROVE  SoundLog(e, make_contract_event_attributes(LogItem(e)))
<1> DEFINE layout == <<"either", "key", "key", "uint">>
           min == 13
           max == 15
           x == extract_flat_bytes(LogItem(e), min, max)
           a == make_contract_event_attributes(LogItem(e))
           U == {a[1], a[2], a[3], a[4]}
<1>1. layout = Layout(e.type) /\ layout \in Seq(FieldTypes) /\ Len(layout) = 4
  BY DEF Layout, FieldTypes
<1>2. /\ Offset(layout, 1) = 0 /\ Offset(layout, 2) = 7 /\ Offset(layout, 3) = 10
      /\ Offset(layout, 4) = 13 /\ Size(layout) = 15 /\ Width(layout[4]) = 2
  BY DEF Offset, Size, Width
<1>3. a = <<Read(x, 0, "either"), Read(x, 7, "key"), Read(x, 10, "key"), Read(x, 13, "uint")>>
  <2>1. LogItem(e).type \in {"UnshieldedSpend", "UnshieldedReceive"}
    BY DEF LogItem
  <2> QED
    BY <2>1 DEF make_contract_event_attributes, UnshieldedSpend, Read, BYTES_32_SIZE,
       UINT_128_SIZE, EITHER_SIZE, UNSHIELDED_SPEND_SIZE
<1> HIDE DEF a, x
<1>4. a \in Seq(U) /\ Len(a) = 4 /\ \A i \in 1 .. 4 : a[i] = Read(x, Offset(layout, i), layout[i])
  BY <1>2, <1>3
<1>5. layout[1] = "either" /\ layout[2] = "key" /\ layout[3] = "key" /\ layout[4] = "uint"
  OBVIOUS
<1>6. Width("either") = 7 /\ Width("key") = 3 /\ Width("uint") = 2
  BY DEF Width
<1> HIDE DEF layout
<1>7. /\ Len(layout) \in 1 .. 4
      /\ min \in Nat /\ max \in Nat /\ 0 < min /\ min <= max /\ max = Size(layout)
      /\ Len(layout) > 1 => min + Width(layout[Len(layout)]) <= max
      /\ Len(layout) > 1 \/ e.type = "ShieldedSpend"
  BY <1>1, <1>2
<1> DEFINE fs == e.fields
<1>8. /\ \E S : fs \in Seq(S)
      /\ Len(fs) = 4
      /\ \A i \in 1 .. 4 : /\ layout[i] \in FieldTypes /\ Fits(fs[i], layout[i])
                          /\ FieldBytes(fs[i]) \in Seq(Nat)
                          /\ Len(FieldBytes(fs[i])) = Width(layout[i])
  BY <1>1, EventFields
<1>9. e.wire = fs \/ e.wire = <<fs[1], fs[3], fs[4]>>
  BY DEF IsEvent
<1>10. CASE e.wire = fs
  <2> HIDE DEF min, max, U
  <2>1. /\ a \in Seq(U) /\ Len(a) = Len(layout)
        /\ \A i \in 1 .. Len(layout) : a[i] = Read(x, Offset(layout, i), layout[i])
    BY <1>1, <1>4
  <2>2. SoundLog(e, a)
    BY <1>1, <1>7, <1>10, <2>1, ReadAs DEF x
  <2> QED
    BY <2>2 DEF a
<1>11. CASE e.wire = <<fs[1], fs[3], fs[4]>>
  <2> DEFINE w == e.wire
  <2>1. Len(w) = 3 /\ DOMAIN w = 1 .. 3 /\ w[1] = fs[1] /\ w[2] = fs[3] /\ w[3] = fs[4]
    BY <1>11
  <2> HIDE DEF w, fs
  <2>2. /\ FieldBytes(w[1]) \in Seq(Nat) /\ Len(FieldBytes(w[1])) = 7
        /\ FieldBytes(w[2]) \in Seq(Nat) /\ Len(FieldBytes(w[2])) = 3
        /\ FieldBytes(w[3]) \in Seq(Nat) /\ Len(FieldBytes(w[3])) = 2
    <3>1. 1 \in 1 .. 4 /\ 3 \in 1 .. 4 /\ 4 \in 1 .. 4
      OBVIOUS
    <3> QED
      BY <1>5, <1>6, <1>8, <2>1, <3>1
  <2>3. Flat(w) \in Seq(Nat) /\ Len(Flat(w)) = 12
    <3>1. /\ Len(w) \in 1 .. 4 /\ DOMAIN w = 1 .. Len(w)
          /\ \A i \in 1 .. Len(w) : FieldBytes(w[i]) \in Seq(Nat)
      BY <2>1, <2>2
    <3>2. /\ Flat(w) \in Seq(Nat)
          /\ Len(Flat(w)) = Len(FieldBytes(w[1])) + (IF Len(w) < 2 THEN 0 ELSE Len(FieldBytes(w[2])))
                              + (IF Len(w) < 3 THEN 0 ELSE Len(FieldBytes(w[3])))
                              + (IF Len(w) < 4 THEN 0 ELSE Len(FieldBytes(w[4])))
      BY <3>1, FlatIs
    <3> QED
      BY <2>1, <2>2, <3>2
  <2>4. x = <<>>
    <3>1. min \in Nat /\ max \in Nat /\ Len(Flat(w)) < min
      BY <2>3
    <3> HIDE DEF min, max
    <3> QED
      BY <2>3, <3>1, Extracted DEF w, x
  <2>5. ASSUME NEW i \in 1 .. 4 PROVE a[i] = DefaultOf(fs[i])
    <3>1. Offset(layout, i) \in Nat
      BY <1>2
    <3>2. Read(<<>>, Offset(layout, i), layout[i]) = DefaultOf(fs[i])
      BY <1>8, <3>1, FieldRead
    <3> QED
      BY <1>4, <2>4, <3>2
  <2>6. DOMAIN fs = 1 .. 4
    BY <1>8
  <2>7. a = Default(e)
    <3>1. a = [i \in 1 .. 4 |-> a[i]]
      <4> HIDE DEF U
      <4> QED
        BY <1>4
    <3> QED
      BY <2>5, <2>6, <3>1 DEF Default, fs
  <2>8. e.wire # e.fields
    <3>1. Len(fs) = 4 /\ Len(w) = 3
      BY <1>8, <2>1
    <3>2. w # fs
      BY <3>1
    <3> QED
      BY <3>2 DEF w, fs
  <2> QED
    BY <2>7, <2>8 DEF SoundLog, OnlyFinalStripped, a
<1> QED
  BY <1>9, <1>10, <1>11

\* An event without fields.
LEMMA NothingRead ==
    ASSUME NEW e, IsEvent(e),
           e.type \notin {"ShieldedSpend", "ShieldedReceive", "ShieldedMint", "ShieldedBurn",
                          "UnshieldedSpend", "UnshieldedReceive", "UnshieldedMint",
                          "UnshieldedBurn", "Misc"}
    PROVE  SoundLog(e, make_contract_event_attributes(LogItem(e)))
<1>1. LogItem(e).type = e.type
  BY DEF LogItem
<1>2. make_contract_event_attributes(LogItem(e)) = <<>>
  BY <1>1 DEF make_contract_event_attributes
<1>3. Layout(e.type) = <<>>
  BY DEF Layout
<1>4. e.wire = e.fields /\ e.fields = [i \in DOMAIN Layout(e.type) |-> e.fields[i]]
  BY DEF IsEvent
<1>5. DOMAIN e.fields = {}
  BY <1>3, <1>4
<1>6. Values(e) = <<>>
  BY <1>5 DEF Values
<1> QED
  BY <1>2, <1>4, <1>6 DEF SoundLog

\* A log is decoded to the values it was written with, or to defaults.
LEMMA DecodedSound ==
    ASSUME NEW e, IsEvent(e)
    PROVE  SoundLog(e, make_contract_event_attributes(LogItem(e)))
<1>1. e.type = "ShieldedSpend" => SoundLog(e, make_contract_event_attributes(LogItem(e)))
  BY ShieldedSpendRead
<1>2. e.type = "ShieldedReceive" => SoundLog(e, make_contract_event_attributes(LogItem(e)))
  BY ShieldedReceiveRead
<1>3. e.type = "ShieldedMint" => SoundLog(e, make_contract_event_attributes(LogItem(e)))
  BY ShieldedMintRead
<1>4. e.type = "ShieldedBurn" => SoundLog(e, make_contract_event_attributes(LogItem(e)))
  BY ShieldedBurnRead
<1>5. e.type = "UnshieldedMint" => SoundLog(e, make_contract_event_attributes(LogItem(e)))
  BY UnshieldedMintRead
<1>6. e.type = "UnshieldedBurn" => SoundLog(e, make_contract_event_attributes(LogItem(e)))
  BY UnshieldedBurnRead
<1>7. e.type = "Misc" => SoundLog(e, make_contract_event_attributes(LogItem(e)))
  BY MiscRead
<1> QED
  BY <1>1, <1>2, <1>3, <1>4, <1>5, <1>6, <1>7, UnshieldedSpendRead, NothingRead

----------------------------------------------------------------------------
(* The logs of a transaction *)

\* One event more is kept, or not.
LEMMA KeptAppend ==
    ASSUME NEW S, NEW s \in Seq(S), NEW e \in S, NEW kinds
    PROVE  Kept(Append(s, e), kinds)[Len(s) + 1] =
              IF e.kind \in kinds THEN Append(Kept(s, kinds)[Len(s)], e)
              ELSE Kept(s, kinds)[Len(s)]
<1> DEFINE n == Len(s)
           t == Append(s, e)
           r == Kept(s, kinds)
           q == Kept(t, kinds)
           T == {i \in Nat : i <= n => q[i] = r[i]}
<1>1. /\ n \in Nat /\ Len(t) = n + 1 /\ t[n + 1] = e
      /\ \A i \in 1 .. n : t[i] = s[i]
  OBVIOUS
<1> HIDE DEF t
<1>2. /\ r[0] = <<>>
      /\ \A i \in 1 .. n :
            r[i] = IF s[i].kind \in kinds THEN Append(r[i - 1], s[i]) ELSE r[i - 1]
  BY <1>1, KeptIs
<1>3. /\ q[0] = <<>>
      /\ \A i \in 1 .. n + 1 :
            q[i] = IF t[i].kind \in kinds THEN Append(q[i - 1], t[i]) ELSE q[i - 1]
  <2>1. Len(t) \in Nat
    BY <1>1
  <2> QED
    BY <1>1, <2>1, KeptIs
<1> HIDE DEF n, r, q
<1>4. 0 \in T
  BY <1>2, <1>3
<1>5. ASSUME NEW i \in T PROVE i + 1 \in T
  <2> SUFFICES ASSUME i + 1 <= n PROVE q[i + 1] = r[i + 1]
    OBVIOUS
  <2>1. i + 1 \in 1 .. n /\ i + 1 \in 1 .. n + 1 /\ (i + 1) - 1 = i /\ q[i] = r[i]
    BY <1>1
  <2>2. t[i + 1] = s[i + 1]
    BY <1>1, <2>1
  <2>3. q[i + 1] = IF t[i + 1].kind \in kinds THEN Append(q[i], t[i + 1]) ELSE q[i]
    BY <1>3, <2>1
  <2>4. r[i + 1] = IF s[i + 1].kind \in kinds THEN Append(r[i], s[i + 1]) ELSE r[i]
    BY <1>2, <2>1
  <2> QED
    BY <2>1, <2>2, <2>3, <2>4
<1>6. T = Nat
  <2> HIDE DEF T
  <2>1. T \in SUBSET Nat
    BY DEF T
  <2> QED
    BY <1>4, <1>5, <2>1, AllNumbers
<1>7. q[n] = r[n]
  BY <1>1, <1>6
<1>8. q[n + 1] = IF t[n + 1].kind \in kinds THEN Append(q[n], t[n + 1]) ELSE q[n]
  <2>1. n + 1 \in 1 .. n + 1 /\ (n + 1) - 1 = n
    BY <1>1
  <2> QED
    BY <1>3, <2>1
<1> QED
  BY <1>1, <1>7, <1>8 DEF n, t, r, q

\* The logs among the events that are kept are those among all, if any logs are.
LEMMA LogsAre ==
    ASSUME NEW S, NEW emits \in Seq(S), NEW kinds,
           NEW o \in Seq({[kind |-> "output"]})
    PROVE  LET kept == Kept(emits, kinds)[Len(emits)]
               logs == IF "log" \in kinds THEN LogsOf(emits) ELSE <<>>
           IN  LogsOf(o \o [i \in DOMAIN kept |-> Event(kept[i])])
                 = [i \in DOMAIN logs |-> Event(logs[i])]
<1> DEFINE n == Len(emits)
           M(s) == [i \in DOMAIN s |-> Event(s[i])]
           K == Kept(emits, kinds)
           A == Kept(emits, {"log"})
           D(i) == IF "log" \in kinds THEN A[i] ELSE <<>>
           E == {Event(e) : e \in S} \cup {[kind |-> "output"]}
           Good(i) == K[i] \in Seq(S) /\ D(i) \in Seq(S) /\ LogsOf(o \o M(K[i])) = M(D(i))
           T == {i \in Nat : i <= n => Good(i)}
<1>1. n \in Nat /\ \A i \in 1 .. n : emits[i] \in S
  OBVIOUS
<1>2. /\ K[0] = <<>>
      /\ \A i \in 1 .. n :
            K[i] = IF emits[i].kind \in kinds THEN Append(K[i - 1], emits[i]) ELSE K[i - 1]
  BY <1>1, KeptIs
<1>3. /\ A[0] = <<>>
      /\ \A i \in 1 .. n :
            A[i] = IF emits[i].kind \in {"log"} THEN Append(A[i - 1], emits[i]) ELSE A[i - 1]
  BY <1>1, KeptIs
<1>4. ASSUME NEW s \in Seq(S)
      PROVE  /\ M(s) \in Seq(E) /\ Len(M(s)) = Len(s)
             /\ \A e \in S : M(Append(s, e)) = Append(M(s), Event(e))
  <2>1. Len(s) \in Nat /\ DOMAIN s = 1 .. Len(s) /\ \A i \in 1 .. Len(s) : s[i] \in S
    OBVIOUS
  <2>2. \A e \in S : Event(e) \in E
    OBVIOUS
  <2> HIDE DEF E
  <2>3. M(s) \in [1 .. Len(s) -> E]
    BY <2>1, <2>2
  <2>4. M(s) \in Seq(E) /\ Len(M(s)) = Len(s)
    <3> HIDE DEF M
    <3> QED
      BY <2>1, <2>3
  <2>5. ASSUME NEW e \in S PROVE M(Append(s, e)) = Append(M(s), Event(e))
    <3> DEFINE t == Append(s, e)
               m == M(s)
    <3>1. /\ DOMAIN t = 1 .. Len(s) + 1 /\ t[Len(s) + 1] = e
          /\ \A i \in 1 .. Len(s) : t[i] = s[i]
      OBVIOUS
    <3>2. \A i \in 1 .. Len(s) : m[i] = Event(s[i])
      BY <2>1
    <3> HIDE DEF t, m
    <3>3. m \in Seq(E) /\ Len(m) = Len(s) /\ Event(e) \in E
      BY <2>2, <2>4 DEF m
    <3> DEFINE v == Event(e)
               u == Append(m, v)
    <3>4. /\ u = [i \in 1 .. Len(s) + 1 |-> u[i]] /\ u[Len(s) + 1] = v
          /\ \A i \in 1 .. Len(s) : u[i] = m[i]
      <4>1. v \in E
        BY <3>3
      <4> HIDE DEF v
      <4>2. u \in Seq(E) /\ Len(u) = Len(s) + 1
        BY <3>3, <4>1
      <4>3. u[Len(s) + 1] = v /\ \A i \in 1 .. Len(s) : u[i] = m[i]
        BY <3>3, <4>1
      <4>4. u = [i \in 1 .. Len(u) |-> u[i]]
        <5> HIDE DEF u
        <5> QED
          BY <4>2
      <4> QED
        BY <4>2, <4>3, <4>4
    <3> HIDE DEF u
    <3>5. ASSUME NEW i \in 1 .. Len(s) + 1 PROVE u[i] = Event(t[i])
      <4>1. i \in 1 .. Len(s) \/ i = Len(s) + 1
        BY <2>1
      <4> QED
        BY <3>1, <3>2, <3>4, <4>1
    <3>6. M(t) = [i \in 1 .. Len(s) + 1 |-> Event(t[i])]
      BY <3>1
    <3>7. M(t) = u
      BY <3>4, <3>5, <3>6
    <3> QED
      BY <3>7 DEF t, u, m
  <2> QED
    BY <2>4, <2>5
<1>5. M(<<>>) = <<>>
  OBVIOUS
<1>6. LogsOf(o) = <<>>
  <2> DEFINE U == {e \in {[kind |-> "output"]} : e.kind \in {"log"}}
             k == Kept(o, {"log"})[Len(o)]
  <2>1. k \in Seq(U)
    BY KeptOf
  <2>2. U = {}
    OBVIOUS
  <2> HIDE DEF U, k
  <2>3. k = <<>>
    BY <2>1, <2>2
  <2> QED
    BY <2>3 DEF LogsOf, k
<1>7. o \in Seq(E)
  <2>1. [kind |-> "output"] \in E
    OBVIOUS
  <2> HIDE DEF E
  <2>2. {[kind |-> "output"]} \subseteq E
    BY <2>1
  <2> QED
    BY <2>2
<1>8. ASSUME NEW e \in S PROVE Event(e) \in E /\ Event(e).kind = e.kind
  BY DEF Event
<1> HIDE DEF n, K, A, E, M
<1>9. 0 \in T
  <2>1. o \o <<>> = o
    BY <1>7
  <2>2. K[0] = <<>> /\ D(0) = <<>> /\ <<>> \in Seq(S)
    BY <1>2, <1>3
  <2> QED
    BY <1>5, <1>6, <2>1, <2>2
<1>10. ASSUME NEW i \in T PROVE i + 1 \in T
  <2> SUFFICES ASSUME i + 1 <= n PROVE Good(i + 1)
    OBVIOUS
  <2> DEFINE e == emits[i + 1]
             R == o \o M(K[i])
  <2>1. i + 1 \in 1 .. n /\ (i + 1) - 1 = i /\ Good(i) /\ e \in S
    BY <1>1
  <2>2. K[i + 1] = IF e.kind \in kinds THEN Append(K[i], e) ELSE K[i]
    BY <1>2, <2>1
  <2>3. D(i + 1) = IF "log" \in kinds /\ e.kind = "log" THEN Append(D(i), e) ELSE D(i)
    BY <1>3, <2>1
  <2> HIDE DEF e, D
  <2>4. M(K[i]) \in Seq(E) /\ R \in Seq(E) /\ LogsOf(R) = M(D(i))
    <3>1. M(K[i]) \in Seq(E)
      BY <1>4, <2>1
    <3> QED
      BY <1>7, <2>1, <3>1
  <2>5. Event(e) \in E /\ Event(e).kind = e.kind
    BY <1>8, <2>1
  <2>6. CASE e.kind \notin kinds
    <3>1. K[i + 1] = K[i]
      BY <2>2, <2>6
    <3>2. D(i + 1) = D(i)
      BY <2>3, <2>6
    <3> QED
      BY <2>1, <3>1, <3>2
  <2>7. CASE e.kind \in kinds
    <3>1. K[i + 1] = Append(K[i], e) /\ K[i + 1] \in Seq(S)
      BY <2>1, <2>2, <2>7
    <3>2. o \o M(K[i + 1]) = Append(R, Event(e))
      <4> DEFINE m == M(K[i])
                 v == Event(e)
      <4>1. M(K[i + 1]) = Append(m, v)
        BY <1>4, <2>1, <3>1
      <4> HIDE DEF m, v
      <4>2. m \in Seq(E) /\ v \in E
        BY <2>4, <2>5 DEF m, v
      <4>3. o \o Append(m, v) = Append(o \o m, v)
        BY <1>7, <4>2, ConcatAppend
      <4> QED
        BY <4>1, <4>3 DEF m, v
    <3>3. LogsOf(Append(R, Event(e))) =
             IF e.kind = "log" THEN Append(LogsOf(R), Event(e)) ELSE LogsOf(R)
      <4> DEFINE v == Event(e)
                 G == Append(R, v)
      <4>1. v \in E /\ v.kind = e.kind
        BY <2>5
      <4> HIDE DEF R, v
      <4>2. Len(G) = Len(R) + 1
        BY <2>4, <4>1
      <4>3. Kept(G, {"log"})[Len(R) + 1] =
               IF v.kind \in {"log"} THEN Append(Kept(R, {"log"})[Len(R)], v)
               ELSE Kept(R, {"log"})[Len(R)]
        BY <2>4, <4>1, KeptAppend
      <4> HIDE DEF G
      <4>4. LogsOf(G) = IF v.kind \in {"log"} THEN Append(LogsOf(R), v) ELSE LogsOf(R)
        BY <4>2, <4>3 DEF LogsOf
      <4> QED
        BY <4>1, <4>4 DEF G, v
    <3>4. CASE e.kind = "log"
      <4>1. D(i + 1) = Append(D(i), e)
        BY <2>3, <2>7, <3>4
      <4>2. D(i) \in Seq(S)
        BY <2>1
      <4>3. Append(D(i), e) \in Seq(S)
        BY <2>1, <4>2
      <4>4. M(D(i + 1)) = Append(M(D(i)), Event(e))
        BY <1>4, <2>1, <4>1, <4>2
      <4> QED
        BY <2>4, <3>1, <3>2, <3>3, <3>4, <4>1, <4>3, <4>4
    <3>5. CASE e.kind # "log"
      <4>1. D(i + 1) = D(i)
        BY <2>3, <3>5
      <4> QED
        BY <2>1, <2>4, <3>1, <3>2, <3>3, <3>5, <4>1
    <3> QED
      BY <3>4, <3>5
  <2> QED
    BY <2>6, <2>7
<1>11. T = Nat
  <2> HIDE DEF T
  <2>1. T \in SUBSET Nat
    BY DEF T
  <2> QED
    BY <1>9, <1>10, <2>1, AllNumbers
<1>12. LogsOf(o \o M(K[n])) = M(D(n))
  BY <1>1, <1>11
<1>13. D(n) = IF "log" \in kinds THEN LogsOf(emits) ELSE <<>>
  BY DEF LogsOf, A, n
<1> HIDE DEF D
<1> QED
  BY <1>12, <1>13 DEF K, M, n

\* What is logged is an event in its contract's flat bytes.
LEMMA LoggedIs ==
    ASSUME chain \in Chains, NEW h \in Heights, NEW i \in DOMAIN Block(h).txs
    PROVE  /\ Len(Logged(h, i)) \in Nat /\ DOMAIN Logged(h, i) = 1 .. Len(Logged(h, i))
           /\ \A j \in DOMAIN Logged(h, i) :
                 LET e == Logged(h, i)[j]
                 IN  e.kind = "log" /\ IsEvent(e.event) /\ e.item = LogItem(e.event)
<1> DEFINE tx == Block(h).txs[i]
           S == Range(tx.emits)
           logs == LogsOf(tx.emits)
           U == {e \in S : e.kind \in {"log"}}
<1>1. Block(h) \in Range(chain.blocks)
  <2>1. Len(Blocks) \in Nat /\ DOMAIN Blocks = 1 .. Len(Blocks)
    BY ChainIs
  <2>2. h + 1 \in DOMAIN Blocks
    BY <2>1 DEF Heights
  <2> QED
    BY <2>2 DEF Block, Blocks, Range
<1>2. tx \in Range(Block(h).txs)
  BY DEF Range
<1>3. /\ tx.emits \in Seq(S)
      /\ \A e \in S : e.kind = "log" => IsEvent(e.event) /\ e.item = LogItem(e.event)
  BY <1>1, <1>2, ChainsAssumption
<1>4. logs \in Seq(U)
  <2> HIDE DEF S
  <2>1. Kept(tx.emits, {"log"})[Len(tx.emits)] \in Seq({e \in S : e.kind \in {"log"}})
    BY <1>3, KeptOf
  <2> QED
    BY <2>1 DEF LogsOf
<1>5. Logged(h, i) = IF Failed(tx) \/ Block(h).version # "v9" THEN <<>> ELSE logs
  BY DEF Logged
<1>6. \A e \in U : e.kind = "log" /\ IsEvent(e.event) /\ e.item = LogItem(e.event)
  BY <1>3
<1> HIDE DEF U, logs
<1> DEFINE l == Logged(h, i)
<1>7. l \in Seq(U)
  BY <1>4, <1>5
<1> HIDE DEF l
<1>8. Len(l) \in Nat /\ DOMAIN l = 1 .. Len(l) /\ \A j \in DOMAIN l : l[j] \in U
  BY <1>7
<1> QED
  BY <1>6, <1>8 DEF l

\* A transaction's row has the decoder's of its logs.
LEMMA DerivedDecoded ==
    ASSUME ReplayInv, pc = "apply", at < Len(B.txs), ledger.version = B.version, NEW after
    PROVE  LET r == Derived(B.txs[at + 1], after)
           IN  r.index = at + 1 /\ Decoded(r)
<1> DEFINE tx == B.txs[at + 1]
           r == Derived(tx, after)
           emitted == Logged(Height, at + 1)
           decoded == LogsOf(r.events)
<1>1. /\ chain \in Chains /\ Height \in Heights /\ B = Block(Height)
      /\ Len(B.txs) \in Nat /\ DOMAIN B.txs = 1 .. Len(B.txs) /\ at \in Nat
  BY Underway
<1>2. tx.fate \in {"success", "failure"} /\ tx.outputs \in Nat /\ tx.emits \in Seq(Range(tx.emits))
  BY TransactionIs
<1>3. r.block = Height /\ r.index = at + 1 /\ r.events = LedgerEvents(tx)
  BY DEF Derived
<1>4. at + 1 \in DOMAIN Block(Height).txs
  BY <1>1
<1>5. /\ DOMAIN emitted = 1 .. Len(emitted) /\ Len(emitted) \in Nat
      /\ \A j \in DOMAIN emitted : emitted[j].kind = "log"
  BY <1>1, <1>4, LoggedIs
<1>6. emitted = IF Failed(tx) \/ B.version # "v9" THEN <<>> ELSE LogsOf(tx.emits)
  BY <1>1 DEF Logged
<1> HIDE DEF tx, r, emitted
<1>7. decoded = [j \in DOMAIN emitted |-> Event(emitted[j])]
  <2>1. CASE Failed(tx)
    <3>1. r.events = <<>>
      BY <1>3, <2>1 DEF LedgerEvents, Result, Failed
    <3>2. LogsOf(<<>>) = <<>>
      <4> DEFINE s == <<>>
      <4>1. Len(s) = 0 /\ Len(s) \in Nat
        OBVIOUS
      <4> HIDE DEF s
      <4>2. Kept(s, {"log"})[0] = <<>>
        BY <4>1, KeptIs
      <4> QED
        BY <4>1, <4>2 DEF LogsOf, s
    <3>3. emitted = <<>>
      BY <1>6, <2>1
    <3> QED
      BY <3>1, <3>2, <3>3
  <2>2. CASE ~Failed(tx)
    <3> DEFINE o == [j \in 1 .. tx.outputs |-> [kind |-> "output"]]
               kept == Kept(tx.emits, EventKinds)[Len(tx.emits)]
               logs == IF "log" \in EventKinds THEN LogsOf(tx.emits) ELSE <<>>
               S == Range(tx.emits)
    <3>1. r.events = o \o [j \in DOMAIN kept |-> Event(kept[j])]
      BY <1>3, <2>2 DEF LedgerEvents, Result, Failed
    <3>2. o \in Seq({[kind |-> "output"]})
      BY <1>2
    <3>3. logs = emitted
      <4>1. "log" \in EventKinds <=> B.version = "v9"
        BY DEF EventKinds
      <4> QED
        BY <1>6, <2>2, <4>1
    <3>4. LogsOf(o \o [j \in DOMAIN kept |-> Event(kept[j])]) = [j \in DOMAIN logs |-> Event(logs[j])]
      <4>1. tx.emits \in Seq(S)
        BY <1>2
      <4> HIDE DEF o, S
      <4> QED
        BY <3>2, <4>1, LogsAre
    <3> HIDE DEF o, kept, logs
    <3> QED
      BY <3>1, <3>3, <3>4
  <2> QED
    BY <2>1, <2>2
<1> HIDE DEF decoded
<1>8. Len(decoded) = Len(emitted)
  BY <1>5, <1>7
<1>9. ASSUME NEW j \in DOMAIN emitted
      PROVE  decoded[j].attributes = make_contract_event_attributes(emitted[j].item)
  <2>1. decoded[j] = Event(emitted[j]) /\ emitted[j].kind = "log"
    BY <1>5, <1>7
  <2> QED
    BY <2>1 DEF Event
<1>10. Decoded(r)
  BY <1>3, <1>4, <1>8, <1>9 DEF Decoded, emitted, decoded
<1> QED
  BY <1>3, <1>10 DEF r, tx

----------------------------------------------------------------------------
(* The invariant of the index's logs *)

\* What a row is compared with is of the chain, which stays.
LEMMA SameDecoded ==
    ASSUME chain' = chain PROVE \A r : Decoded(r)' = Decoded(r)
<1>1. \A h : Block(h)' = Block(h)
  BY SameChain
<1>2. \A h, i : Logged(h, i)' = Logged(h, i)
  BY <1>1 DEF Logged
<1> QED
  BY <1>1, <1>2 DEF Decoded

\* While the store stays and no block is under way nothing is to be shown.
LEMMA IdleLog ==
    ASSUME LogInv, chain' = chain, disk' = disk, pc' # "apply" PROVE LogInv'
<1>1. /\ \A h \in 0 .. disk.tip : \A i \in DOMAIN Block(h).txs :
            \E r \in Range(disk.rows) : r.block = h /\ r.index = i
      /\ \A r \in Range(disk.rows) : Decoded(r)
  BY DEF LogInv
<1>2. \A h : Block(h)' = Block(h)
  BY SameChain
<1>3. \A r : Decoded(r)' = Decoded(r)
  BY SameDecoded
<1> QED
  BY <1>1, <1>2, <1>3 DEF LogInv

LEMMA InitLog == Init => LogInv
<1> SUFFICES ASSUME Init PROVE LogInv
  OBVIOUS
<1>1. pc = "down" /\ disk.tip = -1 /\ disk.rows = <<>>
  BY DEF Init, NoProcess
<1>2. Range(disk.rows) = {} /\ 0 .. disk.tip = {}
  BY <1>1 DEF Range
<1> QED
  BY <1>1, <1>2 DEF LogInv

LEMMA StartLog == LogInv /\ Start => LogInv'
  BY IdleLog DEF Start

LEMMA CrashLog == LogInv /\ Crash => LogInv'
  BY IdleLog DEF Crash

\* A block is begun in its version.
LEMMA BeginLog == ReplayInv /\ IndexInv /\ LogInv /\ Begin => LogInv'
<1> SUFFICES ASSUME ReplayInv, IndexInv, LogInv, Begin PROVE LogInv'
  OBVIOUS
<1>1. /\ pc = "fetch" /\ disk' = disk /\ derived' = derived /\ chain' = chain
      /\ at' = at /\ Height \in Heights
  BY DEF Begin
<1>2. derived = <<>> /\ at = 0 /\ chain \in Chains
  BY <1>1 DEF IndexInv, ReplayInv, IdleInv
<1>3. CASE ~Translates
  <2>1. pc' = "failed"
    BY <1>3 DEF Begin
  <2> QED
    BY <1>1, <2>1, IdleLog
<1>4. CASE Translates
  <2>1. ledger' = IF Height > 0 THEN ledger
                  ELSE IF GenesisPost THEN New(B.version) ELSE GenesisState
    BY <1>4 DEF Begin
  <2>2. ledger'.version = B.version
    <3>1. CASE Height > 0
      <4>1. Height # 0
        BY <3>1
      <4> QED
        BY <1>4, <2>1, <3>1, <4>1 DEF Translates
    <3>2. CASE ~(Height > 0)
      <4>1. Height = 0
        <5>1. Len(Blocks) \in Nat
          BY <1>2, ChainIs
        <5> QED
          BY <1>1, <3>2, <5>1 DEF Heights
      <4>2. B = Block(0) /\ 0 \in Heights
        BY <1>1, <4>1 DEF B
      <4>3. New(B.version).version = B.version
        BY DEF New
      <4>4. IsState(Before0) /\ Before0.version = B.version
        BY <4>2 DEF New, Before0, IsState, Fields
      <4>5. GenesisState.version = B.version
        BY <1>2, <4>2, <4>4, BlockVersion DEF GenesisState
      <4> QED
        BY <2>1, <3>2, <4>3, <4>5
    <3> QED
      BY <3>1, <3>2
  <2>3. /\ Range(derived') = {} /\ Len(derived') = at' /\ 1 .. at' = {}
    BY <1>1, <1>2 DEF Range
  <2>4. /\ \A h \in 0 .. disk.tip : \A i \in DOMAIN Block(h).txs :
              \E r \in Range(disk.rows) : r.block = h /\ r.index = i
        /\ \A r \in Range(disk.rows) : Decoded(r)
    BY DEF LogInv
  <2>5. B' = B /\ \A h : Block(h)' = Block(h)
    BY <1>1, SameChain DEF B, Height
  <2>6. \A r : Decoded(r)' = Decoded(r)
    BY <1>1, SameDecoded
  <2> QED
    BY <1>1, <2>2, <2>3, <2>4, <2>5, <2>6 DEF LogInv
<1> QED
  BY <1>3, <1>4

\* A transaction adds its row.
LEMMA ApplyLog ==
    ASSUME ReplayInv, IndexInv, LogInv, pc = "apply", at < Len(B.txs), Apply(B.txs[at + 1])
    PROVE  LogInv'
<1> DEFINE tx == B.txs[at + 1]
           after == LedgerApply(ledger, tx, B.time, parent)
           row == Derived(tx, after)
<1>1. /\ chain' = chain /\ disk' = disk /\ pc' = pc /\ at' = at + 1
      /\ ledger' = after /\ derived' = Append(derived, row)
  BY DEF Apply
<1>2. /\ ledger.version = B.version
      /\ Len(derived) = at /\ \A i \in 1 .. at : derived[i].index = i
      /\ \A r \in Range(derived) : Decoded(r)
      /\ \A h \in 0 .. disk.tip : \A i \in DOMAIN Block(h).txs :
            \E r \in Range(disk.rows) : r.block = h /\ r.index = i
      /\ \A r \in Range(disk.rows) : Decoded(r)
  BY DEF LogInv
<1>3. row.index = at + 1 /\ Decoded(row)
  BY <1>2, DerivedDecoded
<1>4. after.version = B.version
  <2>1. IsState(ledger)
    BY DEF IndexInv
  <2> QED
    BY <1>2, <2>1, VersionKept
<1>5. at \in Nat /\ derived \in Seq(Range(derived))
  BY Underway DEF IndexInv
<1> HIDE DEF row, after, tx
<1>6. Range(derived') = Range(derived) \cup {row} /\ Len(derived') = at + 1
      /\ \A i \in 1 .. at + 1 : derived'[i] = IF i <= at THEN derived[i] ELSE row
  <2> DEFINE S == Range(derived) \cup {row}
             d == derived
             e == Append(d, row)
  <2>1. d \in Seq(S) /\ row \in S /\ Len(d) = at
    BY <1>2, <1>5
  <2>2. DOMAIN d = 1 .. at
    BY <1>5, <2>1
  <2> HIDE DEF S, d
  <2>3. Len(e) = at + 1 /\ DOMAIN e = 1 .. at + 1
        /\ \A i \in 1 .. at + 1 : e[i] = IF i <= at THEN d[i] ELSE row
    BY <1>5, <2>1
  <2> HIDE DEF e
  <2>4. Range(e) = Range(d) \cup {row}
    <3>1. ASSUME NEW i \in 1 .. at + 1 PROVE e[i] \in Range(d) \cup {row}
      <4>1. i <= at => i \in DOMAIN d
        BY <1>5, <2>2
      <4> QED
        BY <2>3, <4>1 DEF Range
    <3>2. ASSUME NEW i \in 1 .. at PROVE d[i] \in Range(e)
      <4>1. i \in 1 .. at + 1 /\ i <= at
        BY <1>5
      <4> QED
        BY <2>3, <4>1 DEF Range
    <3>3. row \in Range(e)
      <4>1. at + 1 \in 1 .. at + 1 /\ ~(at + 1 <= at)
        BY <1>5
      <4> QED
        BY <2>3, <4>1 DEF Range
    <3> QED
      BY <2>2, <2>3, <3>1, <3>2, <3>3 DEF Range
  <2> QED
    BY <1>1, <2>3, <2>4 DEF d, e
<1>7. \A i \in 1 .. at + 1 : derived'[i].index = i
  <2>1. \A i \in 1 .. at + 1 : i \in 1 .. at \/ (i = at + 1 /\ ~(i <= at))
    BY <1>5
  <2> QED
    BY <1>2, <1>3, <1>5, <1>6, <2>1
<1>8. \A r \in Range(derived') : Decoded(r)
  BY <1>2, <1>3, <1>6
<1>9. B' = B /\ \A h : Block(h)' = Block(h)
  BY <1>1, SameChain DEF B, Height
<1>10. \A r : Decoded(r)' = Decoded(r)
  BY <1>1, SameDecoded
<1> QED
  BY <1>1, <1>2, <1>4, <1>6, <1>7, <1>8, <1>9, <1>10 DEF LogInv

LEMMA ApplyRegularLog == ReplayInv /\ IndexInv /\ LogInv /\ ApplyRegular => LogInv'
<1> SUFFICES ASSUME ReplayInv, IndexInv, LogInv, ApplyRegular PROVE LogInv'
  OBVIOUS
<1>1. pc = "apply" /\ at < Len(B.txs) /\ IsRegular(B.txs[at + 1])
  BY DEF ApplyRegular
<1>2. Accepts(B.txs[at + 1])
  BY <1>1, NodeAccepted
<1>3. Apply(B.txs[at + 1])
  BY <1>2 DEF ApplyRegular
<1> QED
  BY <1>1, <1>3, ApplyLog

LEMMA ApplySystemLog == ReplayInv /\ IndexInv /\ LogInv /\ ApplySystem => LogInv'
  BY ApplyLog DEF ApplySystem

\* At the end of a block all its transactions have their rows.
LEMMA FinishLog == ReplayInv /\ IndexInv /\ LogInv /\ Finish => LogInv'
<1> SUFFICES ASSUME ReplayInv, IndexInv, LogInv, Finish PROVE LogInv'
  OBVIOUS
<1>1. pc = "apply" /\ at = Len(B.txs) /\ chain' = chain
  BY DEF Finish
<1>2. /\ chain \in Chains /\ Height \in Heights /\ Height \in Nat /\ B = Block(Height)
      /\ DOMAIN B.txs = 1 .. Len(B.txs) /\ disk.tip = Height - 1 /\ at \in Nat
  BY <1>1, Underway
<1> DEFINE final == IF genesis # <<>> THEN genesis[1]
                    ELSE PostBlock(ledger, Clamped(fullness), B.time)
           rows == disk.rows \o derived
<1>3. pc' = "fetch" /\ disk'.tip = Height /\ disk'.rows = rows
  <2>1. final = Node[Height]
    BY <1>1, NodeFinishes
  <2>2. (B.rooted => final = Node[Height]) /\ final.free = Node[Height].free
    BY <2>1
  <2>3. pc' = "fetch" /\ disk' = [tip |-> Height, time |-> B.time, state |-> final, rows |-> rows]
    BY <2>2 DEF Finish
  <2> QED
    BY <2>3
<1>4. /\ disk.rows \in Seq(Range(disk.rows)) /\ derived \in Seq(Range(derived))
      /\ \A r \in Range(derived) : r.block = Height
  BY <1>1 DEF IndexInv
<1>5. /\ Len(derived) = at /\ \A i \in 1 .. at : derived[i].index = i
      /\ \A r \in Range(derived) : Decoded(r)
      /\ \A h \in 0 .. disk.tip : \A i \in DOMAIN Block(h).txs :
            \E r \in Range(disk.rows) : r.block = h /\ r.index = i
      /\ \A r \in Range(disk.rows) : Decoded(r)
  BY <1>1 DEF LogInv
<1>6. Range(rows) = Range(disk.rows) \cup Range(derived)
  <2> DEFINE S == Range(disk.rows) \cup Range(derived)
             old == disk.rows
             new == derived
  <2>1. old \in Seq(S) /\ new \in Seq(S)
    BY <1>4
  <2> HIDE DEF S, old, new
  <2>2. Range(old \o new) = Range(old) \cup Range(new)
    BY <2>1, RangeConcatenation
  <2> QED
    BY <2>2 DEF old, new
<1>7. ASSUME NEW i \in DOMAIN B.txs
      PROVE  \E r \in Range(derived) : r.block = Height /\ r.index = i
  <2>1. i \in 1 .. at
    BY <1>1, <1>2
  <2>2. i \in DOMAIN derived
    BY <1>4, <1>5, <2>1
  <2>3. derived[i] \in Range(derived)
    BY <2>2 DEF Range
  <2> QED
    BY <1>4, <1>5, <2>1, <2>3
<1> HIDE DEF rows
<1>8. \A h \in 0 .. Height : \A i \in DOMAIN Block(h).txs :
         \E r \in Range(rows) : r.block = h /\ r.index = i
  <2> SUFFICES ASSUME NEW h \in 0 .. Height, NEW i \in DOMAIN Block(h).txs
               PROVE  \E r \in Range(rows) : r.block = h /\ r.index = i
    OBVIOUS
  <2>1. CASE h = Height
    <3>1. i \in DOMAIN B.txs
      BY <1>2, <2>1
    <3>2. PICK r \in Range(derived) : r.block = Height /\ r.index = i
      BY <1>7, <3>1
    <3> QED
      BY <1>6, <2>1, <3>2
  <2>2. CASE h # Height
    <3>1. h \in 0 .. disk.tip
      BY <1>2, <2>2
    <3>2. PICK r \in Range(disk.rows) : r.block = h /\ r.index = i
      BY <1>5, <3>1
    <3> QED
      BY <1>6, <3>2
  <2> QED
    BY <2>1, <2>2
<1>9. \A r \in Range(rows) : Decoded(r)
  BY <1>5, <1>6
<1>10. \A h : Block(h)' = Block(h)
  BY <1>1, SameChain
<1>11. \A r : Decoded(r)' = Decoded(r)
  BY <1>1, SameDecoded
<1> QED
  BY <1>3, <1>8, <1>9, <1>10, <1>11 DEF LogInv

LEMMA StutterLog == LogInv /\ UNCHANGED vars => LogInv'
<1> SUFFICES ASSUME LogInv, UNCHANGED vars PROVE LogInv'
  OBVIOUS
<1> USE DEF vars, memory
<1>1. B' = B /\ \A h : Block(h)' = Block(h)
  BY SameChain DEF B, Height
<1>2. \A r : Decoded(r)' = Decoded(r)
  BY SameDecoded
<1> QED
  BY <1>1, <1>2 DEF LogInv

\* Every step preserves what the index has of logs.
LEMMA LogStep == ReplayInv /\ IndexInv /\ LogInv /\ [Next]_vars => LogInv'
  BY StartLog, BeginLog, ApplyRegularLog, ApplySystemLog, FinishLog, CrashLog,
     StutterLog DEF Next, Work

\* What the index has of logs is sound if each is the decoder's.
LEMMA InvLogsSound == ReplayInv /\ IndexInv /\ LogInv => LogsSound
<1> SUFFICES ASSUME ReplayInv, IndexInv, LogInv PROVE LogsSound
  OBVIOUS
<1>1. chain \in Chains /\ disk.tip \in -1 .. Len(Blocks) - 1
  BY DEF ReplayInv, StoreInv
<1>2. ASSUME NEW r \in Range(disk.rows)
      PROVE  LET emitted == Logged(r.block, r.index)
                 decoded == LogsOf(r.events)
             IN  /\ Len(decoded) = Len(emitted)
                 /\ \A j \in DOMAIN emitted : SoundLog(emitted[j].event, decoded[j].attributes)
  <2> DEFINE emitted == Logged(r.block, r.index)
             decoded == LogsOf(r.events)
  <2>1. r.block \in Heights
    <3>1. Len(Blocks) \in Nat
      BY <1>1, ChainIs
    <3>2. r.block \in 0 .. disk.tip
      BY DEF IndexInv
    <3> QED
      BY <1>1, <3>1, <3>2 DEF Heights
  <2>2. /\ r.index \in DOMAIN Block(r.block).txs
        /\ Len(decoded) = Len(emitted)
        /\ \A j \in DOMAIN emitted :
              decoded[j].attributes = make_contract_event_attributes(emitted[j].item)
    BY DEF LogInv, Decoded
  <2>3. \A j \in DOMAIN emitted :
           IsEvent(emitted[j].event) /\ emitted[j].item = LogItem(emitted[j].event)
    BY <1>1, <2>1, <2>2, LoggedIs
  <2> HIDE DEF emitted, decoded
  <2>4. \A j \in DOMAIN emitted : SoundLog(emitted[j].event, decoded[j].attributes)
    BY <2>2, <2>3, DecodedSound
  <2> QED
    BY <2>2, <2>4 DEF emitted, decoded
<1> QED
  BY <1>2 DEF LogsSound, Logs, LogInv

\* Every log of a transaction that took place is in the index, as it was
\* emitted or with default fields, and with its own if only its final field was
\* stripped, whatever the chain and wherever the process died: the decoder of
\* extract_flat_bytes and take_bytes, for every event of every layout.
THEOREM ReplayLogsSound == Spec => []LogsSound
<1>1. Spec => []ReplayInv /\ []IndexInv
  BY InitIndex, IndexStep, ReplayInductive, PTL DEF Spec
<1>2. Spec => []LogInv
  BY <1>1, InitLog, LogStep, PTL DEF Spec
<1> QED
  BY <1>1, <1>2, InvLogsSound, PTL
=============================================================================
