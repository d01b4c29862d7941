--------------------------- MODULE BackfillsProofs ---------------------------
(***************************************************************************)
(* For every chain, batch size and number of process deaths: however often *)
(* the four rewrites of a data directory are begun, killed and begun       *)
(* again, and whatever blocks are indexed between them, the store ends as  *)
(* the current pipeline would have written it, where they get through: the *)
(* event backfill does if its cache has room, and only then.               *)
(***************************************************************************)
EXTENDS Backfills, FiniteSetTheorems, FunctionTheorems, WellFoundedInduction, TLAPS

(* Rows up to a transaction *)

\* Of numbers with an upper bound one is the greatest.
LEMMA Greatest ==
    ASSUME NEW N \in Nat, NEW S \in SUBSET (0 .. N), S # {}
    PROVE  \E m \in S : \A n \in S : m >= n
<1> DEFINE T == {N - n : n \in S}
           R == OpToRel(<, Nat)
<1>1. T \subseteq Nat /\ T # {}
  <2>1. \A n \in S : n \in 0 .. N /\ N - n \in Nat
    OBVIOUS
  <2> QED
    BY <2>1
<1>2. PICK x \in T : \A y \in T : ~(<<y, x>> \in R)
  <2> HIDE DEF T
  <2> QED
    BY <1>1, NatLessThanWellFounded, WFMin
<1>3. \A y \in T : y >= x
  <2>1. SUFFICES ASSUME NEW y \in T PROVE y >= x
    OBVIOUS
  <2>2. x \in Nat /\ y \in Nat
    BY <1>1
  <2>3. y < x => <<y, x>> \in R
    BY <2>2 DEF OpToRel
  <2>4. ~(y < x)
    BY <1>2, <2>1, <2>3
  <2> QED
    BY <2>2, <2>4
<1>4. PICK m \in S : x = N - m
  OBVIOUS
<1>5. ASSUME NEW n \in S PROVE m >= n
  <2>1. N - n >= N - m
    BY <1>3, <1>4
  <2>2. n \in 0 .. N /\ m \in 0 .. N
    OBVIOUS
  <2> QED
    BY <2>1, <2>2
<1> QED
  BY <1>5

\* A set of ids without gaps counts up to its last.
LEMMA GaplessCardinality ==
    ASSUME NEW L \in Nat, NEW S \in SUBSET (1 .. L),
           \A i, j \in 1 .. L : i <= j /\ j \in S => i \in S
    PROVE  Cardinality(S) \in 0 .. L /\ S = 1 .. Cardinality(S)
<1>1. CASE S = {}
  <2>1. Cardinality(S) = 0
    BY <1>1, FS_EmptySet
  <2> QED
    BY <1>1, <2>1
<1>2. CASE S # {}
  <2>1. PICK m \in S : \A n \in S : m >= n
    <3>1. S \in SUBSET (0 .. L)
      OBVIOUS
    <3> QED
      BY <1>2, <3>1, Greatest
  <2>2. m \in 1 .. L
    OBVIOUS
  <2>3. S = 1 .. m
    <3>1. \A i \in 1 .. m : i \in 1 .. L /\ i <= m
      BY <2>2
    <3>2. 1 .. m \subseteq S
      BY <2>2, <3>1
    <3>3. S \subseteq 1 .. m
      BY <2>1, <2>2
    <3> QED
      BY <3>2, <3>3
  <2>4. Cardinality(1 .. m) = m
    BY <2>2, FS_Interval
  <2> QED
    BY <2>2, <2>3, <2>4
<1> QED
  BY <1>1, <1>2

\* The rows up to a transaction are a prefix.
LEMMA UpToIs ==
    ASSUME NEW rows, rows \in Seq(ToSet(rows)), InOrderOfBlocks(rows),
           \A i \in DOMAIN rows : rows[i].tx \in Nat, NEW n \in Nat
    PROVE  /\ Len(UpTo(rows, n)) \in 0 .. Len(rows)
           /\ DOMAIN UpTo(rows, n) = 1 .. Len(UpTo(rows, n))
           /\ DOMAIN UpTo(rows, n) = {i \in DOMAIN rows : rows[i].tx <= n}
           /\ \A i \in DOMAIN UpTo(rows, n) : UpTo(rows, n)[i] = rows[i]
<1> DEFINE S == {i \in DOMAIN rows : rows[i].tx <= n}
           R == ToSet(rows)
<1>1. DOMAIN rows = 1 .. Len(rows) /\ Len(rows) \in Nat
  <2> HIDE DEF R
  <2>1. rows \in Seq(R)
    BY DEF R
  <2> QED
    BY <2>1
<1>2. Cardinality(S) \in 0 .. Len(rows) /\ S = 1 .. Cardinality(S)
  <2>1. S \in SUBSET (1 .. Len(rows))
    BY <1>1
  <2>2. \A i, j \in 1 .. Len(rows) : i <= j /\ j \in S => i \in S
    BY <1>1 DEF InOrderOfBlocks
  <2> HIDE DEF S
  <2> QED
    BY <1>1, <2>1, <2>2, GaplessCardinality
<1>3. UpTo(rows, n) = SubSeq(rows, 1, Cardinality(S))
  BY DEF UpTo
<1> HIDE DEF S, R
<1>4. UpTo(rows, n) = [i \in 1 .. Cardinality(S) |-> rows[i]]
  BY <1>1, <1>2, <1>3
<1>5. Len(UpTo(rows, n)) = Cardinality(S)
  BY <1>2, <1>4
<1> QED
  BY <1>1, <1>2, <1>4, <1>5 DEF S

\* The events up to transaction n are the first of the chain's, those of
\* transactions 1 .. n.
LEMMA EventsIs ==
    ASSUME chain \in Chains, NEW n \in Nat
    PROVE  /\ Len(Events(n)) \in Nat /\ DOMAIN Events(n) = 1 .. Len(Events(n))
           /\ \A e \in DOMAIN chain.events : e \in DOMAIN Events(n) <=> chain.events[e].tx <= n
           /\ DOMAIN Events(n) \subseteq DOMAIN chain.events
           /\ \A e \in DOMAIN Events(n) : /\ Events(n)[e] = chain.events[e]
                                          /\ chain.events[e].tx \in Nat \ {0}
<1>1. /\ chain.events \in Seq(ToSet(chain.events)) /\ InOrderOfBlocks(chain.events)
      /\ \A e \in DOMAIN chain.events : chain.events[e].tx \in 1 .. MaxHeight
    BY ChainsAssumption
<1>2. \A e \in DOMAIN chain.events : chain.events[e].tx \in Nat
    BY <1>1, MaxHeightAssumption
<1>3. Len(chain.events) \in Nat
  <2> DEFINE R == ToSet(chain.events)
  <2>1. chain.events \in Seq(R)
    BY <1>1
  <2> HIDE DEF R
  <2> QED
    BY <2>1
<1>4. /\ Len(UpTo(chain.events, n)) \in 0 .. Len(chain.events)
      /\ DOMAIN UpTo(chain.events, n) = 1 .. Len(UpTo(chain.events, n))
      /\ DOMAIN UpTo(chain.events, n) = {i \in DOMAIN chain.events : chain.events[i].tx <= n}
      /\ \A i \in DOMAIN UpTo(chain.events, n) : UpTo(chain.events, n)[i] = chain.events[i]
    BY <1>1, <1>2, UpToIs
<1>5. Len(Events(n)) \in Nat
    BY <1>3, <1>4 DEF Events
<1>6. \A e \in DOMAIN chain.events : chain.events[e].tx \in Nat \ {0}
    BY <1>1, MaxHeightAssumption
<1> QED
    BY <1>1, <1>4, <1>5, <1>6 DEF Events

\* The same of the contract actions, which have a known state.
LEMMA ActionsIs ==
    ASSUME chain \in Chains, NEW n \in Nat
    PROVE  /\ Len(Actions(n)) \in Nat /\ DOMAIN Actions(n) = 1 .. Len(Actions(n))
           /\ \A a \in DOMAIN chain.actions : a \in DOMAIN Actions(n) <=> chain.actions[a].tx <= n
           /\ DOMAIN Actions(n) \subseteq DOMAIN chain.actions
           /\ \A a \in DOMAIN Actions(n) : /\ Actions(n)[a] = chain.actions[a]
                                           /\ chain.actions[a].tx \in Nat \ {0}
                                           /\ chain.actions[a].state \in Blob \cup {Empty}
<1>1. /\ chain.actions \in Seq(ToSet(chain.actions)) /\ InOrderOfBlocks(chain.actions)
      /\ \A a \in DOMAIN chain.actions : /\ chain.actions[a].tx \in 1 .. MaxHeight
                                         /\ chain.actions[a].state \in Blob \cup {Empty}
    BY ChainsAssumption
<1>2. \A a \in DOMAIN chain.actions : chain.actions[a].tx \in Nat
    BY <1>1, MaxHeightAssumption
<1>3. Len(chain.actions) \in Nat
  <2> DEFINE R == ToSet(chain.actions)
  <2>1. chain.actions \in Seq(R)
    BY <1>1
  <2> HIDE DEF R
  <2> QED
    BY <2>1
<1>4. /\ Len(UpTo(chain.actions, n)) \in 0 .. Len(chain.actions)
      /\ DOMAIN UpTo(chain.actions, n) = 1 .. Len(UpTo(chain.actions, n))
      /\ DOMAIN UpTo(chain.actions, n) = {i \in DOMAIN chain.actions : chain.actions[i].tx <= n}
      /\ \A i \in DOMAIN UpTo(chain.actions, n) : UpTo(chain.actions, n)[i] = chain.actions[i]
    BY <1>1, <1>2, UpToIs
<1>5. Len(Actions(n)) \in Nat
    BY <1>3, <1>4 DEF Actions
<1>6. \A a \in DOMAIN chain.actions : chain.actions[a].tx \in Nat \ {0}
    BY <1>1, MaxHeightAssumption
<1> QED
    BY <1>1, <1>4, <1>5, <1>6 DEF Actions

\* More blocks only add rows at the end.
LEMMA EventsGrow ==
    ASSUME chain \in Chains, NEW m \in Nat, NEW n \in Nat, m <= n
    PROVE  /\ Len(Events(m)) <= Len(Events(n))
           /\ DOMAIN Events(m) \subseteq DOMAIN Events(n)
           /\ \A e \in DOMAIN Events(m) : Events(m)[e] = Events(n)[e]
           /\ \A e \in DOMAIN Events(n) : e \in DOMAIN Events(m) <=> Events(n)[e].tx <= m
<1>1. \A k \in Nat :
         /\ Len(Events(k)) \in Nat /\ DOMAIN Events(k) = 1 .. Len(Events(k))
         /\ \A i \in DOMAIN chain.events : i \in DOMAIN Events(k) <=> chain.events[i].tx <= k
         /\ DOMAIN Events(k) \subseteq DOMAIN chain.events
         /\ \A i \in DOMAIN Events(k) : Events(k)[i] = chain.events[i]
    BY EventsIs
<1>2. \A i \in DOMAIN Events(m) \cup DOMAIN Events(n) : chain.events[i].tx \in Nat
    BY EventsIs
<1>3. ASSUME NEW i \in DOMAIN Events(m) PROVE i \in DOMAIN Events(n)
  <2>1. i \in DOMAIN chain.events
    BY <1>1
  <2>2. chain.events[i].tx <= m
    BY <1>1, <2>1
  <2>3. chain.events[i].tx <= n
    BY <1>2, <2>2
  <2> QED
    BY <1>1, <2>1, <2>3
<1>4. Len(Events(m)) <= Len(Events(n))
  <2>1. /\ Len(Events(m)) \in Nat /\ DOMAIN Events(m) = 1 .. Len(Events(m))
        /\ Len(Events(n)) \in Nat /\ DOMAIN Events(n) = 1 .. Len(Events(n))
    BY <1>1
  <2>2. Len(Events(m)) \in 1 .. Len(Events(m)) => Len(Events(m)) \in 1 .. Len(Events(n))
    BY <1>3, <2>1
  <2> QED
    BY <2>1, <2>2
<1> QED
    BY <1>1, <1>3, <1>4

\* Later transactions only append contract actions.
LEMMA ActionsGrow ==
    ASSUME chain \in Chains, NEW m \in Nat, NEW n \in Nat, m <= n
    PROVE  /\ Len(Actions(m)) <= Len(Actions(n))
           /\ DOMAIN Actions(m) \subseteq DOMAIN Actions(n)
           /\ \A a \in DOMAIN Actions(m) : Actions(m)[a] = Actions(n)[a]
           /\ \A a \in DOMAIN Actions(n) : a \in DOMAIN Actions(m) <=> Actions(n)[a].tx <= m
<1>1. \A k \in Nat :
         /\ Len(Actions(k)) \in Nat /\ DOMAIN Actions(k) = 1 .. Len(Actions(k))
         /\ \A i \in DOMAIN chain.actions : i \in DOMAIN Actions(k) <=> chain.actions[i].tx <= k
         /\ DOMAIN Actions(k) \subseteq DOMAIN chain.actions
         /\ \A i \in DOMAIN Actions(k) : Actions(k)[i] = chain.actions[i]
    BY ActionsIs
<1>2. \A i \in DOMAIN Actions(m) \cup DOMAIN Actions(n) : chain.actions[i].tx \in Nat
    BY ActionsIs
<1>3. ASSUME NEW i \in DOMAIN Actions(m) PROVE i \in DOMAIN Actions(n)
  <2>1. i \in DOMAIN chain.actions
    BY <1>1
  <2>2. chain.actions[i].tx <= m
    BY <1>1, <2>1
  <2>3. chain.actions[i].tx <= n
    BY <1>2, <2>2
  <2> QED
    BY <1>1, <2>1, <2>3
<1>4. Len(Actions(m)) <= Len(Actions(n))
  <2>1. /\ Len(Actions(m)) \in Nat /\ DOMAIN Actions(m) = 1 .. Len(Actions(m))
        /\ Len(Actions(n)) \in Nat /\ DOMAIN Actions(n) = 1 .. Len(Actions(n))
    BY <1>1
  <2>2. Len(Actions(m)) \in 1 .. Len(Actions(m)) => Len(Actions(m)) \in 1 .. Len(Actions(n))
    BY <1>3, <2>1
  <2> QED
    BY <2>1, <2>2
<1> QED
    BY <1>1, <1>3, <1>4

\* An empty store has neither events nor actions.
LEMMA NothingYet ==
    ASSUME chain \in Chains
    PROVE  Len(Events(0)) = 0 /\ Len(Actions(0)) = 0
<1>1. ASSUME NEW e \in DOMAIN Events(0) PROVE FALSE
  <2>1. e \in DOMAIN chain.events /\ chain.events[e].tx \in Nat \ {0}
    BY EventsIs
  <2>2. chain.events[e].tx <= 0
    BY <2>1, EventsIs
  <2> QED
    BY <2>1, <2>2
<1>2. ASSUME NEW a \in DOMAIN Actions(0) PROVE FALSE
  <2>1. a \in DOMAIN chain.actions /\ chain.actions[a].tx \in Nat \ {0}
    BY ActionsIs
  <2>2. chain.actions[a].tx <= 0
    BY <2>1, ActionsIs
  <2> QED
    BY <2>1, <2>2
<1>3. /\ DOMAIN Events(0) = 1 .. Len(Events(0)) /\ Len(Events(0)) \in Nat
      /\ DOMAIN Actions(0) = 1 .. Len(Actions(0)) /\ Len(Actions(0)) \in Nat
    BY EventsIs, ActionsIs
<1> QED
    BY <1>1, <1>2, <1>3

\* An event's call is in its own transaction: later blocks do not change it.
LEMMA CorrelateStable ==
    ASSUME chain \in Chains, NEW m \in Nat, NEW n \in Nat, m <= n,
           NEW e \in DOMAIN Events(m)
    PROVE  Correlate(Events(m)[e], Actions(m)) = Correlate(Events(n)[e], Actions(n))
<1> DEFINE Matching(k) == {a \in DOMAIN Actions(k) : /\ Actions(k)[a].tx = Events(k)[e].tx
                                                     /\ Actions(k)[a].call = Events(k)[e].of}
<1>1. Events(m)[e] = Events(n)[e] /\ Events(n)[e].tx <= m /\ e \in DOMAIN Events(n)
    BY EventsGrow
<1>2. Matching(m) = Matching(n)
    BY <1>1, ActionsGrow
<1>3. /\ Correlate(Events(m)[e], Actions(m)) =
           IF Events(m)[e].kind = "contract" /\ Cardinality(Matching(m)) = 1
           THEN CHOOSE a \in Matching(m) : TRUE ELSE None
      /\ Correlate(Events(n)[e], Actions(n)) =
           IF Events(n)[e].kind = "contract" /\ Cardinality(Matching(n)) = 1
           THEN CHOOSE a \in Matching(n) : TRUE ELSE None
    BY Zenon DEF Correlate
<1> HIDE DEF Matching
<1> QED
    BY <1>1, <1>2, <1>3

\* The Zswap index after a transaction counts its outputs.
LEMMA FirstFreeStep ==
    ASSUME chain \in Chains, NEW n \in Nat, NEW t \in 1 .. n
    PROVE  /\ FirstFree(t - 1) \in Nat
           /\ FirstFree(t) = FirstFree(t - 1) +
                Cardinality({e \in DOMAIN Events(n) : /\ Events(n)[e].kind = "output"
                                                      /\ Events(n)[e].tx = t})
<1> DEFINE Out(k) == {e \in DOMAIN Events(k) : Events(k)[e].kind = "output"}
           New == {e \in DOMAIN Events(n) : Events(n)[e].kind = "output" /\ Events(n)[e].tx = t}
<1>1. t \in Nat /\ t - 1 \in Nat /\ t - 1 <= t /\ t <= n
    OBVIOUS
<1>2. \A k \in Nat : IsFiniteSet(Out(k)) /\ Cardinality(Out(k)) \in Nat
  <2>1. \A k \in Nat : IsFiniteSet(1 .. Len(Events(k)))
    <3>1. \A k \in Nat : Len(Events(k)) \in Nat
      BY EventsIs
    <3> QED
      BY <3>1, FS_Interval
  <2>2. \A k \in Nat : Out(k) \subseteq 1 .. Len(Events(k))
    BY EventsIs
  <2> HIDE DEF Out
  <2> QED
    BY <2>1, <2>2, FS_Subset, FS_CardinalityType
<1>3. Out(t) = Out(t - 1) \cup New
  <2>1. \A e \in DOMAIN Events(n) : Events(n)[e].tx \in Nat
    BY EventsIs
  <2>2. /\ \A e \in DOMAIN Events(n) : e \in DOMAIN Events(t) <=> Events(n)[e].tx <= t
        /\ \A e \in DOMAIN Events(n) :
              e \in DOMAIN Events(t - 1) <=> Events(n)[e].tx <= t - 1
    <3>1. t - 1 <= n
      BY <1>1
    <3> QED
      BY <1>1, <3>1, EventsGrow
  <2>3. /\ \A e \in DOMAIN Events(t) : e \in DOMAIN Events(n) /\ Events(t)[e] = Events(n)[e]
        /\ \A e \in DOMAIN Events(t - 1) :
              e \in DOMAIN Events(n) /\ Events(t - 1)[e] = Events(n)[e]
    BY <1>1, EventsGrow
  <2> QED
    BY <1>1, <2>1, <2>2, <2>3
<1>4. Out(t - 1) \cap New = {}
  <2>1. \A e \in DOMAIN Events(t - 1) :
           Events(t - 1)[e] = Events(n)[e] /\ Events(n)[e].tx <= t - 1
    BY <1>1, EventsGrow
  <2> QED
    BY <1>1, <2>1
<1>5. IsFiniteSet(New) /\ Cardinality(New) \in Nat
  <2>1. New \subseteq Out(t)
    BY <1>3
  <2> HIDE DEF New, Out
  <2> QED
    BY <1>1, <1>2, <2>1, FS_Subset, FS_CardinalityType
<1>6. Cardinality(Out(t)) = Cardinality(Out(t - 1)) + Cardinality(New)
  <2>1. Cardinality({}) = 0
    BY FS_EmptySet
  <2>2. Cardinality(Out(t - 1) \cup New)
           = Cardinality(Out(t - 1)) + Cardinality(New) - Cardinality(Out(t - 1) \cap New)
    <3> HIDE DEF Out, New
    <3> QED
      BY <1>1, <1>2, <1>5, FS_Union
  <2> HIDE DEF Out, New
  <2> QED
    BY <1>1, <1>2, <1>3, <1>4, <1>5, <2>1, <2>2
<1>7. \A k \in Nat : FirstFree(k) = BaseIndex + Cardinality(Out(k))
    BY DEF FirstFree, Outputs
<1> HIDE DEF Out, New
<1>8. /\ FirstFree(t - 1) = BaseIndex + Cardinality(Out(t - 1))
      /\ FirstFree(t) = BaseIndex + Cardinality(Out(t))
      /\ Cardinality(Out(t - 1)) \in Nat
    BY <1>1, <1>2, <1>7
<1>9. /\ FirstFree(t - 1) \in Nat
      /\ FirstFree(t) = FirstFree(t - 1) + Cardinality(New)
    BY <1>5, <1>6, <1>8, BaseIndexAssumption
<1> QED
    BY <1>9 DEF New

\* Counting back the outputs of all events gives the first index, which is
\* how a run without a row starts.
LEMMA FirstFreeStart ==
    ASSUME chain \in Chains
    PROVE  /\ FirstFree(0) = BaseIndex
           /\ \A n \in Nat : FirstFree(n) - Outputs(Events(n)) = BaseIndex
           /\ Outputs(Events(0)) = 0
<1> DEFINE Out(k) == {e \in DOMAIN Events(k) : Events(k)[e].kind = "output"}
<1>1. \A k \in Nat : Cardinality(Out(k)) \in Nat
  <2>1. \A k \in Nat : IsFiniteSet(1 .. Len(Events(k)))
    <3>1. \A k \in Nat : Len(Events(k)) \in Nat
      BY EventsIs
    <3> QED
      BY <3>1, FS_Interval
  <2>2. \A k \in Nat : Out(k) \subseteq 1 .. Len(Events(k))
    BY EventsIs
  <2> HIDE DEF Out
  <2> QED
    BY <2>1, <2>2, FS_Subset, FS_CardinalityType
<1>2. Cardinality(Out(0)) = 0
  <2>1. Out(0) = {}
    BY NothingYet, EventsIs
  <2> HIDE DEF Out
  <2> QED
    BY <2>1, FS_EmptySet
<1>3. \A k \in Nat : Outputs(Events(k)) = Cardinality(Out(k))
    BY DEF Outputs
<1> HIDE DEF Out
<1> QED
    BY <1>1, <1>2, <1>3, BaseIndexAssumption DEF FirstFree

(* What a step does not touch *)

\* The chain is rigid, so what a store must hold of it is the same after a step.
LEMMA RigidChain ==
    ASSUME chain' = chain, NEW s, NEW n
    PROVE  /\ Actions(n)' = Actions(n) /\ Events(n)' = Events(n)
           /\ FirstFree(n)' = FirstFree(n)
           /\ DustEvents(n)' = DustEvents(n) /\ DustKeys(n)' = DustKeys(n)
           /\ WalletEvents(n)' = WalletEvents(n)
<1>1. Actions(n)' = Actions(n) /\ Events(n)' = Events(n)
    BY DEF Actions, Events, UpTo
<1> QED
    BY <1>1 DEF FirstFree, DustEvents, DustKeys, WalletEvents

\* What a store is to the chain does not change with the step.
LEMMA Rigid ==
    ASSUME chain' = chain, NEW s, NEW n
    PROVE  /\ Migrated(s, n)' = Migrated(s, n)
           /\ AttributionsRight(s)' = AttributionsRight(s)
           /\ Correlated(s, n)' = Correlated(s, n)
           /\ Sidecars(s)' = Sidecars(s)
<1>1. Actions(s.height)' = Actions(s.height) /\ Events(s.height)' = Events(s.height)
      /\ WalletEvents(s.height)' = WalletEvents(s.height)
      /\ \A t : FirstFree(t)' = FirstFree(t)
    BY RigidChain
<1>2. Migrated(s, n)' = Migrated(s, n)
    BY <1>1, Zenon DEF Migrated
<1>3. AttributionsRight(s)' = AttributionsRight(s)
    BY <1>1, Zenon DEF AttributionsRight
<1>4. Correlated(s, n)' = Correlated(s, n)
    BY <1>1, Zenon DEF Correlated
<1>5. Sidecars(s)' = Sidecars(s)
    BY <1>1, Zenon DEF Sidecars
<1> QED
    BY <1>2, <1>3, <1>4, <1>5

\* What is held of the chain depends on a task's own rows only.
LEMMA OwnRows ==
    ASSUME NEW s, NEW u, u.height = s.height, NEW n
    PROVE  /\ u.v2 = s.v2 /\ u.blobs = s.blobs => Migrated(u, n) = Migrated(s, n)
           /\ u.correlated = s.correlated /\ u.byContract = s.byContract =>
                 /\ AttributionsRight(u) = AttributionsRight(s)
                 /\ Correlated(u, n) = Correlated(s, n)
           /\ (u.walletTx = s.walletTx /\ u.txThrough = s.txThrough /\
               u.walletDust = s.walletDust /\ u.dustThrough = s.dustThrough) =>
                 Sidecars(u) = Sidecars(s)
<1>1. u.v2 = s.v2 /\ u.blobs = s.blobs => Migrated(u, n) = Migrated(s, n)
    BY ZenonT(30) DEF Migrated
<1>2. u.correlated = s.correlated /\ u.byContract = s.byContract =>
         /\ AttributionsRight(u) = AttributionsRight(s)
         /\ Correlated(u, n) = Correlated(s, n)
    BY Zenon DEF AttributionsRight, Correlated
<1>3. (u.walletTx = s.walletTx /\ u.txThrough = s.txThrough /\
       u.walletDust = s.walletDust /\ u.dustThrough = s.dustThrough) =>
         Sidecars(u) = Sidecars(s)
    BY Zenon DEF Sidecars
<1> QED
    BY <1>1, <1>2, <1>3

\* The store keeps the rows F, and the batch in hand has no others.
Keeps(F) == \A f \in F \cup {"height"} : store'[f] = store[f] /\ draft'[f] = store[f]

\* A step that leaves the rows of contract states alone keeps what is known
\* of them.
LEMMA KeepsMigration ==
    ASSUME IInv, chain' = chain, task' # "states",
           Keeps({"schema", "v2", "blobs", "cursor"}),
           ~Current(store) => store'.legacy = store.legacy
    PROVE  MigrationInv'
<1>1. /\ store'.height = store.height /\ store'.schema = store.schema
      /\ store'.v2 = store.v2 /\ store'.blobs = store.blobs
      /\ store'.cursor = store.cursor
    BY DEF Keeps
<1>2. \A s, n : Migrated(s, n)' = Migrated(s, n)
    BY Rigid
<1>3. /\ \A n : Migrated(store', n) = Migrated(store, n)
      /\ \A n : Actions(n)' = Actions(n)
    BY <1>1, OwnRows, RigidChain
<1>4. MigrationInv
    BY DEF IInv
<1> QED
    BY <1>1, <1>2, <1>3, <1>4 DEF MigrationInv, Current

\* The same of event rows, unless a task is done with them or begins.
LEMMA KeepsEvents ==
    ASSUME IInv, chain' = chain, task' # "events", "events" \in done' => "events" \in done,
           Keeps({"byContract", "correlated"})
    PROVE  EventsInv'
<1>1. /\ store'.height = store.height /\ draft'.height = store.height
      /\ store'.byContract = store.byContract /\ store'.correlated = store.correlated
      /\ draft'.byContract = store.byContract /\ draft'.correlated = store.correlated
    BY DEF Keeps
<1>2. /\ \A s : AttributionsRight(s)' = AttributionsRight(s)
      /\ \A s, n : Correlated(s, n)' = Correlated(s, n)
    BY Rigid
<1>3. /\ AttributionsRight(store') = AttributionsRight(store)
      /\ AttributionsRight(draft') = AttributionsRight(store)
      /\ \A n : Correlated(store', n) = Correlated(store, n)
      /\ \A n : Events(n)' = Events(n)
    BY <1>1, OwnRows, RigidChain
<1>4. EventsInv
    BY DEF IInv
<1>5. \A e \in DOMAIN store'.correlated : store'.correlated[e] \in {None, draft'.correlated[e]}
    BY <1>1
<1> QED
    BY <1>1, <1>2, <1>3, <1>4, <1>5 DEF EventsInv

\* No committed row that a rebuild gives the same key goes away.
DustStays ==
    \A k \in DustKeys(store.height) :
       /\ k \in DOMAIN store.dustGen => k \in DOMAIN store'.dustGen
       /\ k \in store.dustByOwner => k \in store'.dustByOwner

\* The same of dust generation rows.
LEMMA KeepsDust ==
    ASSUME IInv, chain' = chain, task' # "dust", "dust" \in done' => "dust" \in done,
           Keeps({"dustGen", "dustByOwner"})
    PROVE  DustInv' /\ DustStays
<1>1. /\ store'.height = store.height
      /\ store'.dustGen = store.dustGen /\ store'.dustByOwner = store.dustByOwner
      /\ draft'.dustGen = store.dustGen /\ draft'.dustByOwner = store.dustByOwner
    BY DEF Keeps
<1>2. \A n : /\ Events(n)' = Events(n) /\ DustKeys(n)' = DustKeys(n)
    BY RigidChain
<1>3. DustInv
    BY DEF IInv
<1>4. DustExact'
    BY <1>1, <1>2, <1>3 DEF DustInv, DustExact
<1>5. DustTyped(store)' /\ DustTyped(draft)'
    BY <1>1, <1>3 DEF DustInv, DustTyped
<1> QED
    BY <1>1, <1>4, <1>5 DEF DustInv, DustStays

\* The same of the wallet indexes.
LEMMA KeepsSidecars ==
    ASSUME IInv, chain' = chain, task' \notin {"sidecars", "dustEvents"},
           task' = "indexing" => task = "indexing",
           Keeps({"walletTx", "txThrough", "walletDust", "dustThrough"})
    PROVE  SidecarsInv'
<1>1. /\ store'.height = store.height /\ draft'.height = store.height
      /\ store'.walletTx = store.walletTx /\ store'.txThrough = store.txThrough
      /\ store'.walletDust = store.walletDust /\ store'.dustThrough = store.dustThrough
      /\ draft'.walletTx = store.walletTx /\ draft'.txThrough = store.txThrough
      /\ draft'.walletDust = store.walletDust /\ draft'.dustThrough = store.dustThrough
    BY DEF Keeps
<1>2. \A s : Sidecars(s)' = Sidecars(s)
    BY Rigid
<1>3. /\ Sidecars(store') = Sidecars(store)
      /\ Sidecars(draft') = Sidecars(store)
      /\ \A n : Events(n)' = Events(n)
    BY <1>1, OwnRows, RigidChain
<1>4. SidecarsInv
    BY DEF IInv
<1> QED
    BY <1>1, <1>2, <1>3, <1>4 DEF SidecarsInv

\* No task owns another's rows, nor the height and the schema before cut-over.
LEMMA HeadOwned ==
    ASSUME NEW t
    PROVE  /\ {"height", "schema", "legacy"} \subseteq Fields \ Own(t)
           /\ t \notin {"sidecars", "dustEvents"} =>
                 {"walletTx", "txThrough", "walletDust", "dustThrough"} \subseteq Fields \ Own(t)
           /\ t # "states" => {"v2", "blobs", "cursor"} \subseteq Fields \ Own(t)
           /\ t # "events" => {"byContract", "correlated"} \subseteq Fields \ Own(t)
           /\ t # "dust" => {"dustGen", "dustByOwner"} \subseteq Fields \ Own(t)
BY DEF Own, Fields

\* A write of a task's own rows, whether or not it fills the batch.
LEMMA WriteFrame ==
    ASSUME IInv, NEW s, NEW n, Write(s, n), UNCHANGED <<chain, task, done>>,
           at' = at + 1, hashes' \subseteq Blob,
           DOMAIN s = Fields, \A f \in Fields \ Own(task) : s[f] = draft[f]
    PROVE  /\ Typed' /\ FrameInv'
           /\ draft' = s /\ (store' = store \/ store' = s)
           /\ \A F \in SUBSET (Fields \ Own(task)) : Keeps(F)
<1>1. Typed /\ FrameInv
    BY DEF IInv
<1>2. draft' = s /\ (store' = store \/ store' = s)
    BY DEF Write
<1>3. \A f \in Fields \ Own(task) : store'[f] = store[f] /\ draft'[f] = store[f]
    BY <1>1, <1>2 DEF FrameInv
<1>4. {"height", "schema", "legacy"} \subseteq Fields \ Own(task)
    BY HeadOwned
<1>5. /\ store'.height = store.height /\ store'.schema = store.schema
      /\ draft'.height = store.height
    BY <1>3, <1>4
<1>6. Typed'
  <2>1. DOMAIN store' = Fields /\ DOMAIN draft' = Fields
    BY <1>1, <1>2 DEF Typed
  <2>2. Fields' = Fields
    BY DEF Fields
  <2> QED
    BY <1>1, <1>5, <2>1, <2>2 DEF Typed
<1>7. FrameInv'
  <2>1. \A t : Fields' = Fields /\ Own(t)' = Own(t)
    BY DEF Fields, Own
  <2> QED
    BY <1>1, <1>3, <1>5, <2>1 DEF FrameInv, Current
<1>8. ASSUME NEW F \in SUBSET (Fields \ Own(task)) PROVE Keeps(F)
    BY <1>3, <1>5 DEF Keeps
<1> QED
    BY <1>2, <1>6, <1>7, <1>8

\* The last batch of a task.
LEMMA CompleteFrame ==
    ASSUME IInv, NEW s, NEW next \in {"down", "reclaim", "indexing"}, Complete(s, next),
           chain' = chain, DOMAIN s = Fields, s.height = store.height,
           s.schema \in {None, 2}, next # "down" => Current(s)
    PROVE  /\ Typed' /\ FrameInv' /\ draft' = s /\ store' = s /\ task' = next
           /\ \A F \in SUBSET Fields : (\A f \in F : s[f] = store[f]) => Keeps(F)
<1>1. Typed /\ FrameInv
    BY DEF IInv
<1>2. /\ draft' = s /\ store' = s /\ task' = next /\ at' = 1 /\ hashes' = {}
    BY DEF Complete
<1>3. Fields' = Fields
    BY DEF Fields
<1>4. Typed'
    BY <1>1, <1>2, <1>3 DEF Typed
<1>5. FrameInv'
    BY <1>2, <1>3 DEF FrameInv, Tasks, Current
<1>6. ASSUME NEW F \in SUBSET Fields, \A f \in F : s[f] = store[f] PROVE Keeps(F)
    BY <1>2, <1>6 DEF Keeps
<1> QED
    BY <1>2, <1>4, <1>5, <1>6

\* The partition with one more row.
LEMMA AddedRow ==
    ASSUME NEW key, NEW v, NEW rows, NEW w, w = With([k \in {key} |-> v], rows)
    PROVE  /\ DOMAIN w = DOMAIN rows \cup {key}
           /\ w[key] = v
           /\ \A k \in DOMAIN rows \ {key} : w[k] = rows[k]
BY DEF With

(* Contract states *)

\* A record is migrated: its blob is new only if neither the store nor the
\* batch has it.
LEMMA MigrateActionInv ==
    ASSUME IInv, MigrateAction
    PROVE  IInv' /\ DustStays
<1> DEFINE action == Actions(store.height)[at]
           fresh == {b \in {action.state} : NewBlob(b)}
           row == [a \in {at} |-> V2Record(action)]
           migrated == [draft EXCEPT !.v2 = With(row, @),
                                     !.blobs = [b \in Blob |-> IF b \in fresh
                                                   THEN @[b] + 1 ELSE @[b]]]
           full == pending + 1 >= CommitEvery
           s == IF full THEN [migrated EXCEPT !.cursor = at] ELSE migrated
<1>1. /\ task = "states" /\ at \in DOMAIN Actions(store.height)
      /\ Write(s, 1) /\ hashes' = IF full THEN {} ELSE hashes \cup fresh
      /\ at' = at + 1 /\ UNCHANGED <<chain, task, plan, cached, done, crashes>>
    BY Zenon DEF MigrateAction
<1>2. draft' = s /\ IF full THEN store' = s ELSE store' = store
    BY <1>1 DEF Write
<1>3. /\ Typed /\ FrameInv /\ MigrationInv
      /\ ~Current(store) /\ Migrated(draft, at - 1) /\ Migrated(store, store.cursor)
      /\ draft.height = store.height /\ draft.cursor = store.cursor /\ store.cursor < at
      /\ hashes = {b \in Blob : draft.blobs[b] # store.blobs[b]}
      /\ draft.schema = store.schema /\ draft.legacy = store.legacy
  <2>1. \A f \in {"height", "schema", "legacy"} : draft[f] = store[f]
    BY HeadOwned DEF IInv, FrameInv
  <2> QED
    BY <1>1, <2>1 DEF IInv, MigrationInv
<1>4. /\ DOMAIN s = Fields
      /\ s.v2 = With(row, draft.v2)
      /\ s.blobs = [b \in Blob |-> IF b \in fresh THEN draft.blobs[b] + 1 ELSE draft.blobs[b]]
      /\ s.cursor = IF full THEN at ELSE store.cursor
      /\ \A f \in Fields \ {"v2", "blobs", "cursor"} : s[f] = draft[f]
    BY <1>3 DEF Typed, Fields
<1>5. /\ at \in 1 .. Len(Actions(store.height)) /\ Len(Actions(store.height)) \in Nat
      /\ action.state \in Blob \cup {Empty} /\ store.height \in Nat
  <2>1. store.height \in Nat
    BY <1>3, MaxHeightAssumption DEF Typed
  <2> QED
    BY <1>1, <1>3, <2>1, ActionsIs DEF Typed
<1> HIDE DEF s, migrated, full, fresh
<1>6. store.cursor \in 0 .. Len(Actions(store.height)) /\ store.cursor < at
    BY <1>3 DEF Migrated
<1>7. /\ DOMAIN s.v2 = DOMAIN draft.v2 \cup {at}
      /\ s.v2[at] = V2Record(action)
      /\ \A a \in DOMAIN draft.v2 \ {at} : s.v2[a] = draft.v2[a]
    BY <1>4 DEF With
<1>8. Migrated(s, at)
  <2> DEFINE acts == Actions(store.height)
  <2>1. s.height = store.height
    BY <1>3, <1>4 DEF Fields
  <2>2. DOMAIN draft.v2 = 1 .. at - 1 /\ \A a \in 1 .. at - 1 : draft.v2[a] = V2Record(acts[a])
    BY <1>3 DEF Migrated
  <2>3. DOMAIN s.v2 = 1 .. at
    <3>1. DOMAIN s.v2 = {at} \cup 1 .. at - 1
      BY <1>4, <2>2, <1>7
    <3> QED
      BY <1>5, <3>1
  <2>4. \A a \in 1 .. at : s.v2[a] = V2Record(acts[a])
    <3>1. s.v2[at] = V2Record(acts[at])
      BY <1>4, <1>7
    <3>2. ASSUME NEW a \in 1 .. at - 1 PROVE s.v2[a] = V2Record(acts[a])
      <4>1. a # at /\ a \in DOMAIN draft.v2 \ {at}
        BY <1>5, <2>2
      <4> QED
        BY <1>4, <2>2, <4>1, <1>7
    <3>3. \A a \in 1 .. at : a = at \/ a \in 1 .. at - 1
      BY <1>5
    <3> QED
      BY <3>1, <3>2, <3>3
  <2>5. \A b \in Blob : /\ draft.blobs[b] \in {0, 1} /\ store.blobs[b] \in {0, 1}
                        /\ b \in fresh <=> (b = action.state /\ draft.blobs[b] = 0)
                        /\ draft.blobs[b] = 1 <=> \E a \in 1 .. at - 1 : acts[a].state = b
    <3>1. \A b \in Blob : /\ draft.blobs[b] \in {0, 1} /\ store.blobs[b] \in {0, 1}
                          /\ draft.blobs[b] = 1 <=> \E a \in 1 .. at - 1 : acts[a].state = b
                          /\ store.blobs[b] = 1 => \E a \in 1 .. store.cursor : acts[a].state = b
      BY <1>3 DEF Migrated
    <3>2. \A b \in Blob : store.blobs[b] = 1 => draft.blobs[b] = 1
      <4>1. 1 .. store.cursor \subseteq 1 .. at - 1
        BY <1>5, <1>6
      <4> QED
        BY <3>1, <4>1
    <3>3. \A b \in Blob : b # Empty
      BY BlobAssumption
    <3>4. \A b \in Blob : NewBlob(b) <=> draft.blobs[b] = 0
      BY <1>3, <3>1, <3>2, <3>3 DEF NewBlob
    <3> QED
      BY <3>1, <3>4 DEF fresh
  <2>6. s.blobs \in [Blob -> {0, 1}]
    BY <1>4, <2>5
  <2>7. ASSUME NEW b \in Blob
        PROVE  s.blobs[b] = 1 <=> \E a \in 1 .. at : acts[a].state = b
    <3>1. s.blobs[b] = 1 <=> (draft.blobs[b] = 1 \/ b = action.state)
      BY <1>4, <2>5
    <3>2. (\E a \in 1 .. at : acts[a].state = b)
             <=> (b = action.state \/ \E a \in 1 .. at - 1 : acts[a].state = b)
      BY <1>5
    <3> QED
      BY <2>5, <3>1, <3>2
  <2> QED
    BY <1>5, <2>1, <2>3, <2>4, <2>6, <2>7 DEF Migrated
<1>9. hashes' = {b \in Blob : draft'.blobs[b] # store'.blobs[b]}
  <2>1. CASE full
    BY <1>1, <1>2, <2>1
  <2>2. CASE ~full
    <3>1. store' = store /\ draft' = s /\ hashes' = hashes \cup fresh
      BY <1>1, <1>2, <2>2
    <3>2. \A b \in Blob : draft.blobs[b] \in {0, 1}
      BY <1>3 DEF Migrated
    <3>3. \A b \in fresh : b \in Blob /\ store.blobs[b] = 0 /\ b \notin hashes
      BY <1>5 DEF fresh, NewBlob
    <3>4. \A b \in Blob : IF b \in fresh THEN s.blobs[b] = 1 ELSE s.blobs[b] = draft.blobs[b]
      <4>1. \A b \in fresh : draft.blobs[b] = 0
        BY <1>3, <3>3
      <4> QED
        BY <1>4, <4>1
    <3>5. \A b \in Blob : s.blobs[b] # store.blobs[b] <=> (b \in hashes \/ b \in fresh)
      BY <1>3, <3>3, <3>4
    <3>6. hashes \subseteq Blob
      BY <1>3
    <3> QED
      BY <3>1, <3>3, <3>5, <3>6
  <2> QED
    BY <2>1, <2>2
<1>10. /\ store'.height = store.height /\ store'.schema = store.schema
       /\ store'.legacy = store.legacy
       /\ draft'.height = store.height
       /\ store'.cursor = IF full THEN at ELSE store.cursor
       /\ draft'.cursor = store'.cursor
  <2>1. s.height = draft.height /\ s.schema = draft.schema /\ s.legacy = draft.legacy
    BY <1>4 DEF Fields
  <2>2. s.cursor = IF full THEN at ELSE store.cursor
    BY <1>4
  <2>3. CASE full
    BY <1>2, <1>3, <2>1, <2>2, <2>3
  <2>4. CASE ~full
    BY <1>2, <1>3, <2>1, <2>2, <2>4
  <2> QED
    BY <2>3, <2>4
<1>11. MigrationInv'
  <2>1. ~Current(store')
    BY <1>3, <1>10 DEF Current
  <2>2. Migrated(store', store'.cursor)
    BY <1>2, <1>3, <1>4, <1>8, <1>10
  <2>3. Migrated(draft', at' - 1)
    BY <1>1, <1>2, <1>5, <1>8
  <2>4. \A u, n : Migrated(u, n)' = Migrated(u, n)
    BY <1>1, Rigid
  <2>5. store'.cursor < at'
    <3>1. at' = at + 1 /\ at \in Nat /\ store'.cursor \in {at, store.cursor}
      BY <1>1, <1>5, <1>10
    <3> QED
      BY <1>6, <3>1
  <2>6. store'.height > 0 => store'.legacy
    BY <1>3, <1>10 DEF MigrationInv
  <2> QED
    BY <1>9, <1>10, <2>1, <2>2, <2>3, <2>4, <2>5, <2>6 DEF MigrationInv, Current
<1>12. Own(task) = {"v2", "blobs", "cursor"} /\ task # "events" /\ task # "dust"
    BY <1>1 DEF Own
<1>13. /\ Typed' /\ FrameInv'
       /\ \A F \in SUBSET (Fields \ Own(task)) : Keeps(F)
  <2>1. hashes' \subseteq Blob
    BY <1>9
  <2> QED
    BY <1>1, <1>4, <1>12, <2>1, WriteFrame
<1>14. EventsInv' /\ DustInv' /\ DustStays /\ SidecarsInv'
  <2>1. /\ Keeps({"byContract", "correlated"}) /\ Keeps({"dustGen", "dustByOwner"})
        /\ Keeps({"walletTx", "txThrough", "walletDust", "dustThrough"})
    BY <1>1, <1>13, HeadOwned
  <2> QED
    BY <1>1, <2>1, KeepsEvents, KeepsDust, KeepsSidecars
<1> QED
    BY <1>11, <1>13, <1>14 DEF IInv

\* The schema is raised once every action is in the new partition.
LEMMA CutOverInv ==
    ASSUME IInv, CutOver
    PROVE  IInv' /\ DustStays
<1> DEFINE s == [draft EXCEPT !.cursor = None, !.schema = 2]
           n == Len(Actions(store.height))
<1>1. /\ task = "states" /\ at \notin DOMAIN Actions(store.height)
      /\ Complete(s, "reclaim") /\ UNCHANGED <<chain, done, crashes>>
    BY DEF CutOver
<1>2. Typed /\ FrameInv /\ MigrationInv
    BY DEF IInv
<1>3. /\ DOMAIN s = Fields /\ s.cursor = None /\ s.schema = 2
      /\ \A f \in Fields \ {"cursor", "schema"} : s[f] = draft[f]
    BY <1>2 DEF Typed, Fields
<1>4. s.height = store.height /\ s.v2 = draft.v2 /\ s.blobs = draft.blobs
  <2>1. s.height = draft.height /\ draft.height = store.height
    BY <1>2, <1>3, HeadOwned DEF FrameInv, Fields
  <2> QED
    BY <1>3, <2>1 DEF Fields
<1> HIDE DEF s
<1>5. /\ Typed' /\ FrameInv' /\ draft' = s /\ store' = s /\ task' = "reclaim"
      /\ \A F \in SUBSET Fields : (\A f \in F : s[f] = store[f]) => Keeps(F)
    BY <1>1, <1>3, <1>4, CompleteFrame DEF Current, None
<1>6. n \in Nat /\ DOMAIN Actions(store.height) = 1 .. n
  <2>1. store.height \in Nat
    BY <1>2, MaxHeightAssumption DEF Typed
  <2> QED
    BY <1>2, <2>1, ActionsIs DEF Typed
<1>7. Migrated(s, n)
  <2>1. Migrated(draft, at - 1) /\ draft.height = store.height
    BY <1>1, <1>2, <1>3, <1>4 DEF MigrationInv, Fields
  <2>2. at - 1 \in 0 .. n
    BY <2>1 DEF Migrated
  <2>3. at - 1 = n
    BY <1>1, <1>2, <1>6, <2>2 DEF Typed
  <2> QED
    BY <1>4, <2>1, <2>3, OwnRows
<1>8. MigrationInv'
  <2>1. \A u, m : Migrated(u, m)' = Migrated(u, m)
    BY <1>1, Rigid
  <2>2. \A m : Actions(m)' = Actions(m)
    BY <1>1, RigidChain
  <2> QED
    BY <1>3, <1>4, <1>5, <1>7, <2>1, <2>2 DEF MigrationInv, Current, None
<1>9. EventsInv' /\ DustInv' /\ DustStays /\ SidecarsInv'
  <2>1. \A f \in Fields \ {"v2", "blobs", "cursor", "schema"} : s[f] = store[f]
    BY <1>1, <1>2, <1>3 DEF FrameInv, Own, Fields
  <2>2. /\ Keeps({"byContract", "correlated"}) /\ Keeps({"dustGen", "dustByOwner"})
        /\ Keeps({"walletTx", "txThrough", "walletDust", "dustThrough"})
    BY <1>5, <2>1 DEF Fields
  <2> QED
    BY <1>1, <1>5, <2>2, KeepsEvents, KeepsDust, KeepsSidecars
<1> QED
    BY <1>5, <1>8, <1>9 DEF IInv

\* Deleting the old partition, or a death, leaves everything else.
LEMMA BackToStoreInv ==
    ASSUME IInv, NEW s, Complete(s, "down"), chain' = chain, DOMAIN s = Fields,
           \A f \in Fields \ {"legacy"} : s[f] = store[f],
           ~Current(store) => s.legacy = store.legacy,
           done' \in {done, done \cup {"states"}}
    PROVE  IInv' /\ DustStays
<1>1. Typed
    BY DEF IInv
<1>2. s.height = store.height /\ s.schema \in {None, 2}
    BY <1>1 DEF Typed, Fields
<1>3. /\ Typed' /\ FrameInv' /\ store' = s /\ task' = "down"
      /\ \A F \in SUBSET Fields : (\A f \in F : s[f] = store[f]) => Keeps(F)
    BY <1>2, CompleteFrame
<1>4. /\ Keeps({"schema", "v2", "blobs", "cursor"})
      /\ Keeps({"byContract", "correlated"}) /\ Keeps({"dustGen", "dustByOwner"})
      /\ Keeps({"walletTx", "txThrough", "walletDust", "dustThrough"})
    BY <1>3 DEF Fields
<1>5. MigrationInv' /\ EventsInv' /\ DustInv' /\ DustStays /\ SidecarsInv'
    BY <1>3, <1>4, KeepsMigration, KeepsEvents, KeepsDust, KeepsSidecars
<1> QED
    BY <1>3, <1>5 DEF IInv

\* The legacy partition is deleted when nothing reads it.
LEMMA ReclaimInv ==
    ASSUME IInv, Reclaim
    PROVE  IInv' /\ DustStays
<1> DEFINE s == [store EXCEPT !.legacy = FALSE]
<1>1. /\ task = "reclaim" /\ Complete(s, "down") /\ chain' = chain
      /\ done' = done \cup {"states"}
    BY DEF Reclaim
<1>2. Current(store)
    BY <1>1 DEF IInv, FrameInv
<1>3. DOMAIN s = Fields /\ \A f \in Fields \ {"legacy"} : s[f] = store[f]
    BY DEF IInv, Typed
<1> QED
    BY <1>1, <1>2, <1>3, BackToStoreInv

\* A death, a panic or a stop leaves what was committed.
LEMMA CrashInv ==
    ASSUME IInv, Crash \/ Stop \/ CorrelatePanics
    PROVE  IInv' /\ DustStays
<1>1. Complete(store, "down") /\ UNCHANGED <<chain, done>>
    BY DEF Crash, Stop, CorrelatePanics
<1> QED
    BY <1>1, BackToStoreInv DEF IInv, Typed

(* Contract events *)

\* An event is indexed and attributed, in the batch or with its commit.
LEMMA CorrelateEventInv ==
    ASSUME IInv, CorrelateEvent
    PROVE  IInv' /\ DustStays
<1> DEFINE event == Events(store.height)[at]
           found == Correlate(event, Actions(store.height))
           has == store.correlated[at]
           rewrite == found \notin {None, has}
           s == [draft EXCEPT !.byContract = @ \cup {at},
                              !.correlated[at] = IF rewrite THEN found ELSE @]
<1>1. /\ task = "events" /\ at \in DOMAIN Events(store.height)
      /\ IF event.kind = "contract" THEN Write(s, IF rewrite THEN 2 ELSE 1)
                                    ELSE UNCHANGED <<store, draft, pending>>
      /\ at' = at + 1 /\ UNCHANGED <<chain, task, hashes, plan, done, crashes>>
    BY Zenon DEF CorrelateEvent
<1>2. /\ Typed /\ FrameInv /\ EventsInv
      /\ AttributionsRight(store) /\ AttributionsRight(draft) /\ Correlated(draft, at - 1)
    BY <1>1 DEF IInv, EventsInv
<1>3. /\ \A f \in Fields \ {"byContract", "correlated"} : draft[f] = store[f]
      /\ draft.height = store.height
    BY <1>1, <1>2 DEF FrameInv, Own, Fields
<1>4. /\ DOMAIN s = Fields
      /\ \A f \in Fields \ {"byContract", "correlated"} : s[f] = draft[f]
      /\ s.byContract = draft.byContract \cup {at}
      /\ s.correlated = [draft.correlated EXCEPT ![at] = IF rewrite THEN found ELSE @]
    BY <1>2 DEF Typed, Fields
<1>5. at \in Nat /\ DOMAIN Events(store.height) = 1 .. Len(Events(store.height))
  <2>1. store.height \in Nat
    BY <1>2, MaxHeightAssumption DEF Typed
  <2> QED
    BY <1>2, <2>1, EventsIs DEF Typed
<1> DEFINE u == IF event.kind = "contract" THEN s ELSE draft
           events == Events(store.height)
           Of(e) == Correlate(events[e], Actions(store.height))
<1>6. /\ draft' = u /\ (store' = store \/ store' = u)
      /\ \A f \in Fields \ {"byContract", "correlated"} : u[f] = draft[f]
      /\ DOMAIN u = Fields
    BY <1>1, <1>2, <1>3, <1>4 DEF Write, Typed
<1>7. u.byContract = IF event.kind = "contract" THEN draft.byContract \cup {at}
                                                ELSE draft.byContract
    BY <1>4
<1>8. /\ DOMAIN draft.correlated = DOMAIN events /\ DOMAIN store.correlated = DOMAIN events
      /\ \A e \in DOMAIN events : draft.correlated[e] \in {None, Of(e)}
      /\ \A e \in DOMAIN events : store.correlated[e] \in {None, draft.correlated[e]}
      /\ draft.byContract \subseteq DOMAIN events
      /\ \A e \in draft.byContract : events[e].kind = "contract"
    BY <1>2, <1>3 DEF EventsInv, AttributionsRight
<1>9. /\ DOMAIN u.correlated = DOMAIN events
      /\ u.correlated[at] = Of(at)
      /\ \A e \in DOMAIN events \ {at} : u.correlated[e] = draft.correlated[e]
  <2>1. CASE event.kind = "contract"
    <3>1. u.correlated = [draft.correlated EXCEPT ![at] = IF rewrite THEN found ELSE @]
      BY <1>4, <2>1
    <3>2. ~rewrite => draft.correlated[at] = found
      BY <1>1, <1>8
    <3> HIDE DEF rewrite, found, u
    <3> QED
      BY <1>1, <1>8, <3>1, <3>2 DEF found
  <2>2. CASE event.kind # "contract"
    <3>1. Of(at) = None
      BY <2>2 DEF Correlate
    <3> QED
      BY <1>1, <1>8, <2>2, <3>1
  <2> QED
    BY <2>1, <2>2
<1>10. u.height = store.height
    BY <1>3, <1>6 DEF Fields
<1> HIDE DEF s, u
<1>11. AttributionsRight(u)
    BY <1>1, <1>7, <1>8, <1>9, <1>10 DEF AttributionsRight
<1>12. Correlated(u, at)
  <2>1. ASSUME NEW e \in DOMAIN events, e <= at
        PROVE  u.correlated[e] = Of(e) /\ (events[e].kind = "contract" => e \in u.byContract)
    <3>1. CASE e = at
      BY <1>7, <1>9, <3>1
    <3>2. CASE e # at
      <4>1. e <= at - 1
        BY <1>5, <2>1, <3>2
      <4> QED
        BY <1>2, <1>3, <1>7, <1>9, <3>2, <4>1 DEF Correlated
    <3> QED
      BY <3>1, <3>2
  <2> QED
    BY <1>10, <2>1 DEF Correlated
<1>13. \A e \in DOMAIN events : store.correlated[e] \in {None, u.correlated[e]}
    BY <1>8, <1>9
<1>14. /\ Typed' /\ FrameInv'
       /\ \A F \in SUBSET (Fields \ {"byContract", "correlated"}) : Keeps(F)
  <2>1. Own(task) = {"byContract", "correlated"}
    BY <1>1 DEF Own
  <2>2. CASE event.kind = "contract"
    <3>1. Write(u, IF rewrite THEN 2 ELSE 1)
      BY <1>1, <2>2 DEF u
    <3>2. hashes' \subseteq Blob
      BY <1>1, <1>2 DEF Typed
    <3> QED
      BY <1>1, <1>6, <2>1, <3>1, <3>2, WriteFrame
  <2>3. CASE event.kind # "contract"
    <3>1. store' = store /\ draft' = draft
      BY <1>1, <2>3
    <3>2. Typed'
      BY <1>1, <1>2, <1>5, <3>1 DEF Typed, Fields, Tasks
    <3>3. FrameInv'
      BY <1>1, <1>2, <3>1 DEF FrameInv, Current, Own, Fields, Tasks
    <3>4. \A F \in SUBSET (Fields \ {"byContract", "correlated"}) : Keeps(F)
      BY <1>3, <3>1 DEF Keeps
    <3> QED
      BY <3>2, <3>3, <3>4
  <2> QED
    BY <2>2, <2>3
<1>15. EventsInv'
  <2>1. /\ \A v : AttributionsRight(v)' = AttributionsRight(v)
        /\ \A v, n : Correlated(v, n)' = Correlated(v, n)
    BY <1>1, Rigid
  <2>2. AttributionsRight(store') /\ AttributionsRight(draft')
    BY <1>2, <1>6, <1>11
  <2>3. \A e \in DOMAIN store'.correlated :
           store'.correlated[e] \in {None, draft'.correlated[e]}
    BY <1>6, <1>8, <1>13
  <2>4. Correlated(draft', at' - 1)
    <3>1. at' - 1 = at
      BY <1>1, <1>5
    <3> QED
      BY <1>6, <1>12, <3>1
  <2>5. "events" \notin done'
    BY <1>1, <1>2 DEF FrameInv, Tasks
  <2> QED
    BY <2>1, <2>2, <2>3, <2>4, <2>5 DEF EventsInv
<1>16. MigrationInv' /\ DustInv' /\ DustStays /\ SidecarsInv'
  <2>1. /\ Keeps({"schema", "v2", "blobs", "cursor"}) /\ Keeps({"legacy"})
        /\ Keeps({"dustGen", "dustByOwner"})
        /\ Keeps({"walletTx", "txThrough", "walletDust", "dustThrough"})
    BY <1>14 DEF Fields
  <2>2. store'.legacy = store.legacy
    BY <2>1 DEF Keeps
  <2> QED
    BY <1>1, <2>1, <2>2, KeepsMigration, KeepsDust, KeepsSidecars
<1> QED
    BY <1>14, <1>15, <1>16 DEF IInv

\* A task's batches do not add blocks.
LEMMA CorrelateEventHeight ==
    ASSUME IInv, CorrelateEvent
    PROVE  store'.height = store.height
<1>1. task = "events" /\ task' = "events" /\ chain' = chain
    BY Zenon DEF CorrelateEvent
<1>2. /\ DOMAIN draft = Fields /\ draft.height = store.height
    BY <1>1 DEF IInv, Typed, FrameInv, Own, Fields
<1> DEFINE s(c) == [draft EXCEPT !.byContract = @ \cup {at}, !.correlated[at] = c]
<1>3. store' = store \/ \E c : store' = s(c)
    BY Zenon DEF CorrelateEvent, Write
<1>4. \A c : s(c).height = draft.height
    BY <1>2 DEF Fields
<1> QED
    BY <1>2, <1>3, <1>4

\* The last batch makes the event backfill complete.
LEMMA FinishEventsInv ==
    ASSUME IInv, FinishEvents
    PROVE  IInv' /\ DustStays
<1>1. /\ task = "events" /\ at \notin DOMAIN Events(store.height)
      /\ Complete(draft, "down") /\ UNCHANGED <<chain, crashes>>
      /\ done' = done \cup {"events"}
    BY DEF FinishEvents
<1>2. Typed /\ FrameInv /\ EventsInv
    BY DEF IInv
<1>3. \A f \in Fields \ {"byContract", "correlated"} : draft[f] = store[f]
    BY <1>1, <1>2 DEF FrameInv, Own
<1>4. /\ Typed' /\ FrameInv' /\ draft' = draft /\ store' = draft /\ task' = "down"
      /\ \A F \in SUBSET Fields : (\A f \in F : draft[f] = store[f]) => Keeps(F)
  <2>1. draft.height = store.height /\ draft.schema \in {None, 2} /\ DOMAIN draft = Fields
    BY <1>2, <1>3 DEF Typed, Fields
  <2> QED
    BY <1>1, <2>1, CompleteFrame
<1>5. EventsInv'
  <2>1. /\ \A v : AttributionsRight(v)' = AttributionsRight(v)
        /\ \A v, n : Correlated(v, n)' = Correlated(v, n)
        /\ \A n : Events(n)' = Events(n)
    BY <1>1, Rigid, RigidChain
  <2>2. AttributionsRight(draft) /\ Correlated(draft, at - 1) /\ draft.height = store.height
    BY <1>1, <1>2, <1>3 DEF EventsInv, Fields
  <2>3. Correlated(draft, Len(Events(draft.height)))
    <3> DEFINE events == Events(store.height)
    <3>1. store.height \in Nat
      BY <1>2, MaxHeightAssumption DEF Typed
    <3>2. DOMAIN events = 1 .. Len(events) /\ Len(events) \in Nat /\ at \in Nat \ {0}
      BY <1>2, <3>1, EventsIs DEF Typed
    <3>3. \A e \in DOMAIN events : e <= at - 1
      BY <1>1, <3>2
    <3> QED
      BY <2>2, <3>3 DEF Correlated
  <2>4. \A e \in DOMAIN draft.correlated : draft.correlated[e] \in {None, draft.correlated[e]}
    OBVIOUS
  <2> QED
    BY <1>4, <2>1, <2>2, <2>3, <2>4 DEF EventsInv
<1>6. MigrationInv' /\ DustInv' /\ DustStays /\ SidecarsInv'
  <2>1. /\ Keeps({"schema", "v2", "blobs", "cursor"}) /\ Keeps({"legacy"})
        /\ Keeps({"dustGen", "dustByOwner"})
        /\ Keeps({"walletTx", "txThrough", "walletDust", "dustThrough"})
    BY <1>3, <1>4 DEF Fields
  <2>2. store'.legacy = store.legacy
    BY <2>1 DEF Keeps
  <2> QED
    BY <1>1, <1>4, <2>1, <2>2, KeepsMigration, KeepsDust, KeepsSidecars
<1> QED
    BY <1>4, <1>5, <1>6 DEF IInv

(* Dust generation *)

\* An enumeration of a finite set misses nothing and adds nothing.
LEMMA Enumerated ==
    ASSUME NEW S, IsFiniteSet(S)
    PROVE  /\ \E n \in Nat : DOMAIN SetToSeq(S) = 1 .. n
           /\ \A i \in DOMAIN SetToSeq(S) : SetToSeq(S)[i] \in S
           /\ \A x \in S : \E i \in DOMAIN SetToSeq(S) : SetToSeq(S)[i] = x
<1> DEFINE n == Cardinality(S)
           f == SetToSeq(S)
<1>1. n \in Nat /\ ExistsBijection(1 .. n, S)
  BY FS_CardinalityType
<1>2. \E g \in [1 .. n -> S] : IsInjective(g)
  BY <1>1 DEF ExistsBijection, Bijection, Injection
<1>3. f \in [1 .. n -> S] /\ IsInjective(f)
  <2> DEFINE G == [1 .. n -> S]
  <2>1. f = CHOOSE g \in G : IsInjective(g)
    BY Zenon DEF SetToSeq
  <2> HIDE DEF G, f
  <2>2. \E g \in G : IsInjective(g)
    BY <1>2 DEF G
  <2>3. f \in G /\ IsInjective(f)
    BY <2>1, <2>2, Zenon
  <2> QED
    BY <2>3 DEF G
<1>4. f \in Injection(1 .. n, S)
  BY <1>3, Zenon DEF Injection
<1>5. Cardinality(1 .. n) = n /\ IsFiniteSet(1 .. n)
  BY <1>1, FS_Interval
<1> HIDE DEF f
<1>6. f \in Surjection(1 .. n, S)
  <2> HIDE DEF n
  <2>1. Cardinality(1 .. n) = Cardinality(S)
    BY <1>5 DEF n
  <2> QED
    BY <1>4, <2>1, FS_Injection
<1>7. /\ DOMAIN f = 1 .. n
      /\ \A i \in DOMAIN f : f[i] \in S
      /\ \A x \in S : \E i \in DOMAIN f : f[i] = x
  BY <1>3, <1>6 DEF Surjection
<1> QED
  BY <1>1, <1>7 DEF f

\* The ids in order.
LEMMA AscendingIs ==
    ASSUME NEW N \in Nat, NEW S \in SUBSET (1 .. N)
    PROVE  /\ \E n \in Nat : DOMAIN Ascending(S) = 1 .. n
           /\ \A i \in DOMAIN Ascending(S) : Ascending(S)[i] \in S
           /\ \A i, j \in DOMAIN Ascending(S) : i < j => Ascending(S)[i] < Ascending(S)[j]
           /\ \A e \in S : \E i \in DOMAIN Ascending(S) : Ascending(S)[i] = e
<1> DEFINE Upto(e) == {f \in S : f <= e}
           Rank(e) == Cardinality(Upto(e))
           n == Cardinality(S)
           A == Ascending(S)
<1>0. /\ \A d, e \in S : d < e \/ d = e \/ e < d
      /\ \A d, e, f \in S : d < e /\ f <= d => f <= e
      /\ \A d, e \in S : d < e => e <= e /\ ~(e <= d)
  <2>1. \A d, e, f \in 1 .. N : /\ d < e \/ d = e \/ e < d
                                /\ d < e /\ f <= d => f <= e
                                /\ d < e => e <= e /\ ~(e <= d)
    OBVIOUS
  <2> QED
    BY <2>1, Zenon
<1>1. IsFiniteSet(S) /\ n \in Nat
  <2>1. IsFiniteSet(1 .. N)
    BY FS_Interval
  <2> QED
    BY <2>1, FS_Subset, FS_CardinalityType
<1>2. \A e \in S : IsFiniteSet(Upto(e)) /\ Rank(e) \in 1 .. n
  <2>1. SUFFICES ASSUME NEW e \in S PROVE IsFiniteSet(Upto(e)) /\ Rank(e) \in 1 .. n
    OBVIOUS
  <2>2. e \in Upto(e) /\ Upto(e) \subseteq S
    OBVIOUS
  <2> HIDE DEF Upto
  <2>3. IsFiniteSet(Upto(e)) /\ Rank(e) <= n /\ Rank(e) \in Nat
    BY <1>1, <2>2, FS_Subset, FS_CardinalityType
  <2>4. Rank(e) # 0
    BY <2>2, <2>3, FS_EmptySet
  <2> QED
    BY <1>1, <2>3, <2>4
<1>3. \A d, e \in S : d < e => Rank(d) < Rank(e)
  <2>1. SUFFICES ASSUME NEW d \in S, NEW e \in S, d < e PROVE Rank(d) < Rank(e)
    OBVIOUS
  <2>2. Upto(d) \subseteq Upto(e) /\ e \in Upto(e) /\ e \notin Upto(d)
    BY <1>0, <2>1
  <2> HIDE DEF Upto
  <2>3. Rank(d) <= Rank(e) /\ (Rank(d) = Rank(e) => Upto(d) = Upto(e))
    BY <1>2, <2>2, FS_Subset
  <2>4. Rank(d) # Rank(e) /\ Rank(d) \in Nat /\ Rank(e) \in Nat
    BY <1>1, <1>2, <2>2, <2>3
  <2> QED
    BY <2>3, <2>4
<1> HIDE DEF Rank, Upto
<1>4. \A d, e \in S : Rank(d) = Rank(e) => d = e
  <2>1. \A d, e \in S : Rank(d) \in Nat /\ (d < e \/ d = e \/ e < d)
    BY <1>1, <1>2
  <2> QED
    BY <1>3, <2>1
<1>5. \A i \in 1 .. n : \E e \in S : Rank(e) = i
  <2> DEFINE r == [e \in S |-> Rank(e)]
  <2>1. r \in Injection(S, 1 .. n)
    <3>1. r \in [S -> 1 .. n] /\ \A d, e \in S : r[d] = r[e] => d = e
      BY <1>2, <1>4
    <3> HIDE DEF r
    <3> QED
      BY <3>1, Fun_IsInj
  <2>2. IsFiniteSet(1 .. n) /\ Cardinality(1 .. n) = Cardinality(S)
    BY <1>1, FS_Interval
  <2>3. r \in Surjection(S, 1 .. n)
    <3> HIDE DEF r, n
    <3> QED
      BY <2>1, <2>2, FS_Injection
  <2>4. \A i \in 1 .. n : \E e \in S : r[e] = i
    <3> HIDE DEF r, n
    <3> QED
      BY <2>3 DEF Surjection
  <2> QED
    BY <2>4
<1>6. A = [i \in 1 .. n |-> CHOOSE e \in S : Rank(e) = i]
  BY Zenon DEF Ascending, Rank, Upto
<1>7. DOMAIN A = 1 .. n /\ \A i \in 1 .. n : A[i] \in S /\ Rank(A[i]) = i
  <2>1. DOMAIN A = 1 .. n /\ \A i \in 1 .. n : A[i] = CHOOSE e \in S : Rank(e) = i
    BY <1>6
  <2> HIDE DEF A, n
  <2>2. ASSUME NEW i \in 1 .. n PROVE A[i] \in S /\ Rank(A[i]) = i
    <3>1. \E e \in S : Rank(e) = i
      BY <1>5
    <3>2. A[i] = CHOOSE e \in S : Rank(e) = i
      BY <2>1
    <3> QED
      BY <3>1, <3>2, Zenon
  <2> QED
    BY <2>1, <2>2
<1> HIDE DEF A, n
<1>8. \A i, j \in DOMAIN A : i < j => A[i] < A[j]
  <2>1. SUFFICES ASSUME NEW i \in DOMAIN A, NEW j \in DOMAIN A, i < j PROVE A[i] < A[j]
    OBVIOUS
  <2>2. i \in Nat /\ j \in Nat /\ Rank(A[i]) = i /\ Rank(A[j]) = j /\ A[i] \in S /\ A[j] \in S
    BY <1>7
  <2>3. A[i] < A[j] \/ A[i] = A[j] \/ A[j] < A[i]
    BY <1>0, <2>2
  <2>4. A[j] < A[i] => j < i
    BY <1>3, <2>2
  <2>5. A[i] = A[j] => i = j
    BY <2>2
  <2> QED
    BY <2>1, <2>2, <2>3, <2>4, <2>5
<1>9. ASSUME NEW e \in S PROVE \E i \in DOMAIN A : A[i] = e
  <2>1. Rank(e) \in DOMAIN A
    BY <1>2, <1>7
  <2>2. A[Rank(e)] \in S /\ Rank(A[Rank(e)]) = Rank(e)
    BY <1>7, <2>1
  <2> QED
    BY <1>4, <2>1, <2>2
<1> QED
  BY <1>1, <1>7, <1>8, <1>9 DEF A

\* Dust events are numbered.
LEMMA DustEventsNat ==
    ASSUME chain \in Chains, NEW n \in Nat
    PROVE  \A e \in DustEvents(n) : e \in Nat /\ e \in DOMAIN Events(n)
<1>1. DOMAIN Events(n) = 1 .. Len(Events(n)) /\ Len(Events(n)) \in Nat
  BY EventsIs
<1>2. DustEvents(n) \subseteq DOMAIN Events(n)
  BY DEF DustEvents
<1> QED
  BY <1>1, <1>2

\* A dust row is that of the last event of its UTXO.
LEMMA DustRowsAre ==
    ASSUME chain \in Chains, NEW n \in Nat
    PROVE  /\ DOMAIN DustRows(Events(n)) = DustKeys(n)
           /\ \A k \in DustKeys(n) :
                 /\ DustRows(Events(n))[k] \in DustEvents(n)
                 /\ Events(n)[DustRows(Events(n))[k]].of = k
                 /\ \A e \in DustEvents(n) :
                       Events(n)[e].of = k => DustRows(Events(n))[k] >= e
<1> DEFINE events == Events(n)
           rows == DustRows(events)
           Of(k) == {e \in DOMAIN events : IsGeneration(events[e]) /\ events[e].of = k}
<1>1. /\ DOMAIN rows = DustKeys(n)
      /\ \A k \in DustKeys(n) : rows[k] = Max(Of(k))
  BY DEF DustRows, DustKeys, DustEvents
<1>2. ASSUME NEW k \in DustKeys(n)
      PROVE  Max(Of(k)) \in Of(k) /\ \A e \in Of(k) : Max(Of(k)) >= e
  <2>1. Of(k) # {} /\ Of(k) \in SUBSET (0 .. Len(events)) /\ Len(events) \in Nat
    <3>1. Len(events) \in Nat /\ DOMAIN events = 1 .. Len(events)
      BY EventsIs
    <3>2. PICK e \in DustEvents(n) : events[e].of = k
      BY DEF DustKeys
    <3>3. e \in Of(k)
      BY <3>2 DEF DustEvents
    <3> QED
      BY <3>1, <3>3
  <2> DEFINE O == Of(k)
  <2> HIDE DEF O
  <2>2. O # {} /\ O \in SUBSET (0 .. Len(events)) /\ Len(events) \in Nat
    BY <2>1 DEF O
  <2>3. \E m \in O : \A e \in O : m >= e
    <3> HIDE DEF events
    <3> QED
      BY <2>2, Greatest
  <2>4. Max(O) = CHOOSE m \in O : \A e \in O : m >= e
    BY Zenon DEF Max
  <2>5. Max(O) \in O /\ \A e \in O : Max(O) >= e
    BY <2>3, <2>4, Zenon
  <2> QED
    BY <2>5 DEF O
<1> HIDE DEF rows
<1>3. \A k \in DustKeys(n) : rows[k] \in Of(k) /\ \A e \in Of(k) : rows[k] >= e
  BY <1>1, <1>2
<1> QED
  BY <1>1, <1>3 DEF rows, DustEvents

\* A part of a finite set with one more element is finite.
LEMMA OneMore ==
    ASSUME NEW S, IsFiniteSet(S), NEW x, NEW T, T \subseteq S \cup {x}
    PROVE  IsFiniteSet(T)
<1>1. IsFiniteSet(S \cup {x})
  BY FS_AddElement
<1> QED
  BY <1>1, FS_Subset

\* A round of the rebuild removes garbage only, and inserts the next row
\* over the same UTXO's earlier one.
LEMMA DustRoundInv ==
    ASSUME IInv, DustRound
    PROVE  IInv' /\ DustStays
<1> DEFINE events == Events(store.height)
           Nxt(stream) == {stream[i] : i \in {at} \cap DOMAIN stream}
           Key(e) == Events(store.height)[e].of
           new == Nxt(plan.new)
           keys == {Key(e) : e \in new}
           row == [k \in keys |-> CHOOSE e \in new : TRUE]
           kept == [k \in DOMAIN draft.dustGen \ Nxt(plan.old) |-> draft.dustGen[k]]
           s == [draft EXCEPT !.dustGen = With(row, kept),
                              !.dustByOwner = (@ \ Nxt(plan.oldOwner)) \cup keys]
           n == Cardinality(Nxt(plan.old)) + Cardinality(Nxt(plan.oldOwner))
                   + 2 * Cardinality(new)
<1>1. /\ task = "dust" /\ Write(s, n) /\ at' = at + 1
      /\ UNCHANGED <<chain, task, hashes, plan, cached, done, crashes>>
    BY Zenon DEF DustRound
<1>2. Typed /\ FrameInv /\ DustInv /\ PlanInv /\ RebuildInv
    BY <1>1 DEF IInv, DustInv
<1>3. /\ \A f \in Fields \ {"dustGen", "dustByOwner"} : draft[f] = store[f]
      /\ Own(task) = {"dustGen", "dustByOwner"}
    BY <1>1, <1>2 DEF FrameInv, Own
<1>4. /\ DOMAIN s = Fields
      /\ \A f \in Fields \ {"dustGen", "dustByOwner"} : s[f] = draft[f]
      /\ s.dustGen = With(row, kept)
      /\ s.dustByOwner = (draft.dustByOwner \ Nxt(plan.oldOwner)) \cup keys
    BY <1>2 DEF Typed, Fields
<1> HIDE DEF s, n
<1>5. /\ Typed' /\ FrameInv' /\ draft' = s /\ (store' = store \/ store' = s)
      /\ \A F \in SUBSET (Fields \ {"dustGen", "dustByOwner"}) : Keeps(F)
  <2>1. hashes' \subseteq Blob
    BY <1>1, <1>2 DEF Typed
  <2> QED
    BY <1>1, <1>3, <1>4, <2>1, WriteFrame
<1>6. at \in Nat \ {0}
    BY <1>2 DEF Typed
\* What the round does to the rows.
<1>7. /\ \A e \in new : at \in DOMAIN plan.new /\ e = plan.new[at]
      /\ at \in DOMAIN plan.new => plan.new[at] \in new
      /\ keys \subseteq DustKeys(store.height)
      /\ \A k \in DustKeys(store.height) :
            k \notin Nxt(plan.old) /\ k \notin Nxt(plan.oldOwner)
    BY <1>2, ZenonT(30) DEF PlanInv, DustKeys
<1>8. \A k \in keys : row[k] \in new /\ Key(row[k]) = k
  <2>1. \A d, e \in new : d = e
    BY <1>7
  <2>2. \A k \in keys : row[k] = CHOOSE e \in new : TRUE
    OBVIOUS
  <2> HIDE DEF new, row, Key
  <2>3. \A k \in keys : \E e \in new : Key(e) = k
    OBVIOUS
  <2>4. (\E e \in new : TRUE) => (CHOOSE e \in new : TRUE) \in new
    BY Zenon
  <2>5. ASSUME NEW k \in keys PROVE row[k] \in new /\ Key(row[k]) = k
    <3>1. PICK e \in new : Key(e) = k
      BY <2>3
    <3>2. row[k] \in new
      BY <2>2, <2>4, <3>1
    <3>3. row[k] = e
      BY <2>1, <3>2
    <3> QED
      BY <3>1, <3>2, <3>3
  <2> QED
    BY <2>5
<1>9. /\ DOMAIN s.dustGen = (DOMAIN draft.dustGen \ Nxt(plan.old)) \cup keys
      /\ \A k \in keys : s.dustGen[k] \in new /\ Key(s.dustGen[k]) = k
      /\ \A k \in DOMAIN s.dustGen \ keys : s.dustGen[k] = draft.dustGen[k]
  <2>1. DOMAIN row = keys /\ DOMAIN kept = DOMAIN draft.dustGen \ Nxt(plan.old)
    OBVIOUS
  <2>2. \A k \in DOMAIN kept : kept[k] = draft.dustGen[k]
    OBVIOUS
  <2> HIDE DEF row, kept, new, keys, Nxt, Key
  <2>3. /\ DOMAIN s.dustGen = DOMAIN row \cup DOMAIN kept
        /\ \A k \in DOMAIN row : s.dustGen[k] = row[k]
        /\ \A k \in DOMAIN kept \ DOMAIN row : s.dustGen[k] = kept[k]
    BY <1>4 DEF With
  <2> QED
    BY <1>8, <2>1, <2>2, <2>3
<1> HIDE DEF row, kept
<1>10. DustTyped(s)
  <2>1. keys \subseteq {Key(plan.new[at])}
    BY <1>7
  <2> HIDE DEF keys, new, Nxt, Key
  <2>2. IsFiniteSet(DOMAIN draft.dustGen) /\ IsFiniteSet(draft.dustByOwner)
    BY <1>2 DEF DustInv, DustTyped
  <2>3. /\ DOMAIN s.dustGen \subseteq DOMAIN draft.dustGen \cup {Key(plan.new[at])}
        /\ s.dustByOwner \subseteq draft.dustByOwner \cup {Key(plan.new[at])}
    BY <1>4, <1>9, <2>1
  <2>4. \A k \in DOMAIN s.dustGen : s.dustGen[k] \in Nat
    <3>1. \A e \in new : e \in Nat
      <4>1. store.height \in Nat
        BY <1>2, MaxHeightAssumption DEF Typed
      <4> QED
        BY <1>2, <1>7, <4>1, DustEventsNat DEF PlanInv, Typed
    <3>2. \A k \in DOMAIN draft.dustGen : draft.dustGen[k] \in Nat
      BY <1>2 DEF DustInv, DustTyped
    <3> QED
      BY <1>9, <3>1, <3>2
  <2>5. s.dustGen \in [DOMAIN s.dustGen -> Nat]
    BY <1>4, <2>4 DEF With
  <2> QED
    BY <2>2, <2>3, <2>5, OneMore DEF DustTyped
<1>11. \A k \in DustKeys(store.height) :
          /\ k \in DOMAIN draft.dustGen => k \in DOMAIN s.dustGen
          /\ k \in draft.dustByOwner => k \in s.dustByOwner
  <2> HIDE DEF keys, new, Nxt, Key
  <2> QED
    BY <1>4, <1>7, <1>9
<1>12. \A k \in DOMAIN s.dustGen \ DustKeys(store.height) :
          \E i \in DOMAIN plan.old : i >= at + 1 /\ plan.old[i] = k
  <2>1. SUFFICES ASSUME NEW k \in DOMAIN s.dustGen \ DustKeys(store.height)
                 PROVE  \E i \in DOMAIN plan.old : i >= at + 1 /\ plan.old[i] = k
    OBVIOUS
  <2>2. k \in DOMAIN draft.dustGen /\ k \notin Nxt(plan.old)
    <3> HIDE DEF keys, new, Nxt, Key
    <3> QED
      BY <1>7, <1>9
  <2>3. PICK i \in DOMAIN plan.old : i >= at /\ plan.old[i] = k
    BY <1>2, <2>1, <2>2 DEF RebuildInv
  <2>4. i # at
    BY <2>2, <2>3
  <2>5. i \in Nat
    BY <1>2 DEF PlanInv
  <2> QED
    BY <1>6, <2>3, <2>4, <2>5
<1>13. \A k \in s.dustByOwner \ DustKeys(store.height) :
          \E i \in DOMAIN plan.oldOwner : i >= at + 1 /\ plan.oldOwner[i] = k
  <2>1. SUFFICES ASSUME NEW k \in s.dustByOwner \ DustKeys(store.height)
                 PROVE  \E i \in DOMAIN plan.oldOwner : i >= at + 1 /\ plan.oldOwner[i] = k
    OBVIOUS
  <2>2. k \in draft.dustByOwner /\ k \notin Nxt(plan.oldOwner)
    <3> HIDE DEF keys, new, Nxt, Key
    <3> QED
      BY <1>4, <1>7
  <2>3. PICK i \in DOMAIN plan.oldOwner : i >= at /\ plan.oldOwner[i] = k
    BY <1>2, <2>1, <2>2 DEF RebuildInv
  <2>4. i # at
    BY <2>2, <2>3
  <2>5. i \in Nat
    BY <1>2 DEF PlanInv
  <2> QED
    BY <1>6, <2>3, <2>4, <2>5
<1>14. \A i \in DOMAIN plan.new : i < at + 1 =>
          /\ Key(plan.new[i]) \in s.dustByOwner /\ Key(plan.new[i]) \in DOMAIN s.dustGen
          /\ s.dustGen[Key(plan.new[i])] \in DustEvents(store.height)
          /\ Key(s.dustGen[Key(plan.new[i])]) = Key(plan.new[i])
          /\ s.dustGen[Key(plan.new[i])] >= plan.new[i]
  <2>1. SUFFICES ASSUME NEW i \in DOMAIN plan.new, i < at + 1, NEW k, k = Key(plan.new[i])
                 PROVE  /\ k \in s.dustByOwner /\ k \in DOMAIN s.dustGen
                        /\ s.dustGen[k] \in DustEvents(store.height)
                        /\ Key(s.dustGen[k]) = k /\ s.dustGen[k] >= plan.new[i]
    OBVIOUS
  <2>2. i \in Nat /\ \A j \in DOMAIN plan.new : plan.new[j] \in Nat
    <3>1. store.height \in Nat
      BY <1>2, MaxHeightAssumption DEF Typed
    <3>2. DOMAIN events = 1 .. Len(events)
      BY <1>2, <3>1, EventsIs DEF Typed
    <3> QED
      BY <1>2, <3>2 DEF PlanInv, DustEvents
  <2>3. CASE i = at
    <3>1. plan.new[i] \in new /\ k \in keys /\ \A e \in new : e = plan.new[i]
      BY <1>7, <2>1, <2>3
    <3>2. k \in s.dustByOwner /\ k \in DOMAIN s.dustGen /\ s.dustGen[k] = plan.new[i]
      <4> HIDE DEF keys, new, Nxt, Key
      <4> QED
        BY <1>4, <1>9, <3>1
    <3>3. plan.new[i] \in DustEvents(store.height)
      BY <1>2 DEF PlanInv
    <3> QED
      BY <2>1, <2>2, <3>2, <3>3
  <2>4. CASE i # at
    <3>1. i < at
      BY <1>6, <2>1, <2>2, <2>4
    <3>2. /\ k \in draft.dustByOwner /\ k \in DOMAIN draft.dustGen
          /\ draft.dustGen[k] \in DustEvents(store.height)
          /\ Key(draft.dustGen[k]) = k /\ draft.dustGen[k] >= plan.new[i]
      BY <1>2, <2>1, <3>1 DEF RebuildInv
    <3>3. k \in DustKeys(store.height)
      BY <3>2 DEF DustKeys
    <3>4. k \in s.dustByOwner /\ k \in DOMAIN s.dustGen
      BY <1>11, <3>2, <3>3
    <3>5. CASE k \in keys
      <4>1. s.dustGen[k] \in new /\ Key(s.dustGen[k]) = k
        <5> HIDE DEF keys, new, Nxt, Key
        <5> QED
          BY <1>9, <3>5
      <4>2. at \in DOMAIN plan.new /\ s.dustGen[k] = plan.new[at]
        BY <1>7, <4>1
      <4>3. s.dustGen[k] \in DustEvents(store.height) /\ plan.new[i] < s.dustGen[k]
        BY <1>2, <3>1, <4>2 DEF PlanInv
      <4>4. s.dustGen[k] >= plan.new[i]
        BY <2>2, <4>2, <4>3
      <4> QED
        BY <3>4, <4>1, <4>3, <4>4
    <3>6. CASE k \notin keys
      <4>1. s.dustGen[k] = draft.dustGen[k]
        <5> HIDE DEF keys, new, Nxt, Key
        <5> QED
          BY <1>9, <3>4, <3>6
      <4> QED
        BY <3>2, <3>4, <4>1
    <3> QED
      BY <3>5, <3>6
  <2> QED
    BY <2>3, <2>4
<1>15. DustInv' /\ DustStays
  <2>1. /\ store'.height = store.height /\ plan' = plan /\ at' = at + 1 /\ draft' = s
        /\ task' = "dust" /\ "dust" \notin done'
    <3>1. Keeps({"schema"})
      BY <1>5 DEF Fields
    <3> QED
      BY <1>1, <1>2, <1>5, <3>1 DEF Keeps, FrameInv, Tasks
  <2>2. /\ \A m : Events(m)' = Events(m) /\ DustKeys(m)' = DustKeys(m)
        /\ \A m : DustEvents(m)' = DustEvents(m)
    BY <1>1, RigidChain
  <2>3. PlanInv'
    BY <1>2, <2>1, <2>2 DEF PlanInv
  <2>4. RebuildInv'
    <3>1. /\ Events(store'.height) = events
          /\ DustKeys(store'.height) = DustKeys(store.height)
          /\ DustEvents(store'.height) = DustEvents(store.height)
      BY <2>1
    <3> HIDE DEF keys, new, Nxt
    <3> QED
      BY <1>12, <1>13, <1>14, <2>1, <2>2, <3>1 DEF RebuildInv
  <2>5. \A k \in DustKeys(store.height) :
           /\ k \in DOMAIN store'.dustGen => k \in DOMAIN s.dustGen
           /\ k \in store'.dustByOwner => k \in s.dustByOwner
    BY <1>2, <1>5, <1>11 DEF DustInv
  <2>6. DustTyped(store)' /\ DustTyped(draft)'
    BY <1>2, <1>5, <1>10 DEF DustInv, DustTyped
  <2>7. DustExact'
    BY <2>1 DEF DustExact
  <2>8. DustStays
    BY <1>2, <1>5, <1>11 DEF DustInv, DustStays
  <2> QED
    BY <1>10, <2>1, <2>2, <2>3, <2>4, <2>5, <2>6, <2>7, <2>8 DEF DustInv
<1>16. MigrationInv' /\ EventsInv' /\ SidecarsInv'
  <2>1. /\ Keeps({"schema", "v2", "blobs", "cursor"}) /\ Keeps({"legacy"})
        /\ Keeps({"byContract", "correlated"})
        /\ Keeps({"walletTx", "txThrough", "walletDust", "dustThrough"})
    BY <1>5 DEF Fields
  <2>2. store'.legacy = store.legacy
    BY <2>1 DEF Keeps
  <2> QED
    BY <1>1, <2>1, <2>2, KeepsMigration, KeepsEvents, KeepsSidecars
<1> QED
    BY <1>5, <1>15, <1>16 DEF IInv

\* After the last round every row is that of its UTXO's last event, and no
\* other key is left.
LEMMA FinishDustInv ==
    ASSUME IInv, FinishDust
    PROVE  IInv' /\ DustStays
<1> DEFINE keys == DustKeys(store.height)
           rows == DustRows(Events(store.height))
<1>1. /\ task = "dust" /\ at \notin Rounds /\ Complete(draft, "down")
      /\ done' = done \cup {"dust"} /\ UNCHANGED <<chain, crashes>>
    BY DEF FinishDust
<1>2. Typed /\ FrameInv /\ DustInv /\ PlanInv /\ RebuildInv
    BY <1>1 DEF IInv, DustInv
<1>3. \A f \in Fields \ {"dustGen", "dustByOwner"} : draft[f] = store[f]
    BY <1>1, <1>2 DEF FrameInv, Own
<1>4. draft.height = store.height /\ draft.schema \in {None, 2} /\ DOMAIN draft = Fields
    BY <1>2, <1>3 DEF Typed, Fields
<1>5. /\ Typed' /\ FrameInv' /\ draft' = draft /\ store' = draft /\ task' = "down"
      /\ \A F \in SUBSET Fields : (\A f \in F : draft[f] = store[f]) => Keeps(F)
    BY <1>1, <1>4, CompleteFrame
<1>6. \A f \in {"old", "oldOwner", "new"} : \A i \in DOMAIN plan[f] : i < at
  <2>1. SUFFICES ASSUME NEW f \in {"old", "oldOwner", "new"}, NEW i \in DOMAIN plan[f]
                 PROVE  i < at
    OBVIOUS
  <2>2. PICK n \in Nat : DOMAIN plan[f] = 1 .. n
    BY <1>2 DEF PlanInv
  <2>3. at \notin 1 .. n
    BY <1>1, <2>2 DEF Rounds
  <2> QED
    BY <1>2, <2>2, <2>3 DEF Typed
<1>7. store.height \in Nat /\ chain \in Chains
    BY <1>2, MaxHeightAssumption DEF Typed
\* No garbage is left.
<1>8. DOMAIN draft.dustGen \subseteq keys /\ draft.dustByOwner \subseteq keys
  <2>1. /\ \A i \in DOMAIN plan.old : i \in Nat /\ i < at
        /\ \A i \in DOMAIN plan.oldOwner : i \in Nat /\ i < at
    BY <1>2, <1>6 DEF PlanInv
  <2>2. \A i \in Nat : i < at => ~(i >= at)
    BY <1>2 DEF Typed
  <2> QED
    BY <1>2, <2>1, <2>2 DEF RebuildInv
\* Every UTXO has come, up to its last event.
<1>9. \A k \in keys : /\ k \in DOMAIN draft.dustGen /\ k \in draft.dustByOwner
                      /\ draft.dustGen[k] = rows[k]
  <2>1. SUFFICES ASSUME NEW k \in keys
                 PROVE  /\ k \in DOMAIN draft.dustGen /\ k \in draft.dustByOwner
                        /\ draft.dustGen[k] = rows[k]
    OBVIOUS
  <2>2. /\ rows[k] \in DustEvents(store.height)
        /\ Events(store.height)[rows[k]].of = k
        /\ \A e \in DustEvents(store.height) :
              Events(store.height)[e].of = k => rows[k] >= e
    BY <1>7, DustRowsAre
  <2>3. PICK i \in DOMAIN plan.new : plan.new[i] = rows[k]
    BY <1>2, <2>2 DEF PlanInv
  <2>4. i < at
    BY <1>6
  <2>5. /\ k \in draft.dustByOwner /\ k \in DOMAIN draft.dustGen
        /\ draft.dustGen[k] \in DustEvents(store.height)
        /\ Events(store.height)[draft.dustGen[k]].of = k
        /\ draft.dustGen[k] >= rows[k]
    BY <1>2, <2>2, <2>3, <2>4 DEF RebuildInv
  <2>6. rows[k] >= draft.dustGen[k]
    BY <2>2, <2>5
  <2>7. \A e \in DustEvents(store.height) : e \in Nat
    BY <1>7, DustEventsNat
  <2> QED
    BY <2>2, <2>5, <2>6, <2>7
<1>10. draft.dustGen = rows /\ draft.dustByOwner = DOMAIN rows
  <2>1. DOMAIN rows = keys
    BY <1>7, DustRowsAre
  <2>2. DOMAIN draft.dustGen = keys /\ draft.dustByOwner = keys
    BY <1>8, <1>9
  <2>3. /\ draft.dustGen = [k \in keys |-> draft.dustGen[k]]
        /\ rows = [k \in keys |-> rows[k]]
    BY <1>2, <2>1, <2>2 DEF DustInv, DustTyped, DustRows
  <2>4. draft.dustGen = rows
    BY <1>9, <2>3, Zenon
  <2> QED
    BY <2>1, <2>2, <2>4
<1>11. DustInv' /\ DustStays
  <2>1. /\ \A m : Events(m)' = Events(m) /\ DustKeys(m)' = DustKeys(m)
    BY <1>1, RigidChain
  <2>2. DustExact'
    BY <1>4, <1>5, <1>10, <2>1 DEF DustExact
  <2> QED
    BY <1>2, <1>5, <2>1, <2>2 DEF DustInv, DustStays
<1>12. MigrationInv' /\ EventsInv' /\ SidecarsInv'
  <2>1. /\ Keeps({"schema", "v2", "blobs", "cursor"}) /\ Keeps({"legacy"})
        /\ Keeps({"byContract", "correlated"})
        /\ Keeps({"walletTx", "txThrough", "walletDust", "dustThrough"})
    BY <1>3, <1>5 DEF Fields
  <2>2. store'.legacy = store.legacy
    BY <2>1 DEF Keeps
  <2> QED
    BY <1>1, <1>5, <2>1, <2>2, KeepsMigration, KeepsEvents, KeepsSidecars
<1> QED
    BY <1>5, <1>11, <1>12 DEF IInv

(* Wallet side indexes *)

\* The index at which a transaction starts, resumed or not, is the ledger's.
LEMMA ZswapIndexIs ==
    ASSUME IInv, task = "sidecars"
    PROVE  /\ at - 1 \in 0 .. store.height
           /\ ZswapIndex = IF store.height = 0 THEN 0 ELSE FirstFree(at - 1)
<1>1. /\ Typed /\ FrameInv /\ Sidecars(draft) /\ draft.txThrough = at - 1
      /\ draft.height = store.height
  <2>1. draft.height = store.height
    BY HeadOwned DEF IInv, FrameInv
  <2> QED
    BY <2>1 DEF IInv, SidecarsInv
<1>2. store.height \in Nat /\ at \in Nat \ {0} /\ chain \in Chains
  BY <1>1, MaxHeightAssumption DEF Typed
<1>3. at - 1 \in 0 .. store.height
  BY <1>1 DEF Sidecars
<1>4. CASE at - 1 = 0
  <2>1. ZswapIndex = CurrentEnd - Outputs(Events(store.height))
    BY <1>1, <1>4 DEF ZswapIndex
  <2>2. CASE store.height = 0
    <3>1. CurrentEnd = 0 /\ Outputs(Events(store.height)) = 0
      BY <1>2, <2>2, FirstFreeStart DEF CurrentEnd
    <3> QED
      BY <1>3, <2>1, <2>2, <3>1
  <2>3. CASE store.height # 0
    <3>1. CurrentEnd = FirstFree(store.height)
      BY <2>3 DEF CurrentEnd
    <3>2. ZswapIndex = FirstFree(0)
      BY <1>2, <2>1, <3>1, FirstFreeStart
    <3> QED
      BY <1>3, <1>4, <2>3, <3>2
  <2> QED
    BY <2>2, <2>3
<1>5. CASE at - 1 # 0
  <2>1. at - 1 \in 1 .. draft.txThrough /\ store.height # 0
    BY <1>1, <1>2, <1>3, <1>5
  <2>2. draft.walletTx[at - 1] = [start |-> FirstFree((at - 1) - 1), end |-> FirstFree(at - 1)]
    BY <1>1, <2>1 DEF Sidecars
  <2>3. draft.walletTx[at - 1].end = FirstFree(at - 1)
    BY <2>2
  <2> QED
    BY <1>1, <1>3, <1>5, <2>1, <2>3 DEF ZswapIndex
<1> QED
  BY <1>4, <1>5

\* A transaction's Zswap range starts where the last one ended.
LEMMA IndexTxInv ==
    ASSUME IInv, IndexTx
    PROVE  IInv' /\ DustStays
<1> DEFINE outputs == Cardinality({e \in DOMAIN Events(store.height) :
                          Events(store.height)[e].kind = "output"
                             /\ Events(store.height)[e].tx = at})
           s == [draft EXCEPT !.walletTx = With([t \in {at} |->
                                   [start |-> ZswapIndex, end |-> ZswapIndex + outputs]], @),
                              !.txThrough = at]
<1>1. /\ task = "sidecars" /\ at <= store.height /\ Write(s, 1) /\ at' = at + 1
      /\ UNCHANGED <<chain, task, hashes, plan, cached, done, crashes>>
    BY Zenon DEF IndexTx
<1>2. Typed /\ FrameInv /\ Sidecars(draft) /\ Sidecars(store) /\ draft.txThrough = at - 1
      /\ draft.dustThrough = store.dustThrough
    BY <1>1 DEF IInv, SidecarsInv
<1>3. /\ store.height \in Nat /\ at \in Nat \ {0} /\ chain \in Chains
      /\ at \in 1 .. store.height
    BY <1>1, <1>2, MaxHeightAssumption DEF Typed
<1>4. /\ ZswapIndex = FirstFree(at - 1) /\ ZswapIndex + outputs = FirstFree(at)
    BY <1>1, <1>3, ZswapIndexIs, FirstFreeStep
<1>5. /\ DOMAIN s = Fields
      /\ \A f \in Fields \ {"walletTx", "txThrough"} : s[f] = draft[f]
      /\ s.walletTx = With([t \in {at} |->
                             [start |-> ZswapIndex, end |-> ZswapIndex + outputs]],
                           draft.walletTx)
      /\ s.txThrough = at
    BY <1>2 DEF Typed, Fields
<1> HIDE DEF s, outputs
<1>6. Own(task) = {"walletTx", "txThrough", "walletDust", "dustThrough"}
    BY <1>1 DEF Own
<1>7. /\ Typed' /\ FrameInv' /\ draft' = s /\ (store' = store \/ store' = s)
      /\ \A F \in SUBSET (Fields \ Own(task)) : Keeps(F)
  <2>1. hashes' \subseteq Blob
    BY <1>1, <1>2 DEF Typed
  <2>2. \A f \in Fields \ Own(task) : s[f] = draft[f]
    BY <1>5, <1>6
  <2> QED
    BY <1>1, <1>5, <2>1, <2>2, WriteFrame
<1>8. /\ s.height = store.height /\ draft.height = store.height
      /\ s.dustThrough = draft.dustThrough /\ s.walletDust = draft.walletDust
    BY <1>2, <1>5, <1>6 DEF Fields, FrameInv
<1>9. /\ DOMAIN s.walletTx = DOMAIN draft.walletTx \cup {at}
      /\ s.walletTx[at] = [start |-> FirstFree(at - 1), end |-> FirstFree(at)]
      /\ \A t \in DOMAIN draft.walletTx \ {at} : s.walletTx[t] = draft.walletTx[t]
    BY <1>4, <1>5 DEF With
<1>10. Sidecars(s)
  <2>1. DOMAIN draft.walletTx = 1 .. at - 1
    BY <1>2 DEF Sidecars
  <2>2. DOMAIN s.walletTx = 1 .. at
    BY <1>3, <1>9, <2>1
  <2>3. ASSUME NEW t \in 1 .. at
        PROVE  s.walletTx[t] = [start |-> FirstFree(t - 1), end |-> FirstFree(t)]
    <3>1. CASE t = at
      BY <1>9, <3>1
    <3>2. CASE t # at
      <4>1. t \in 1 .. at - 1
        BY <1>3, <3>2
      <4>2. draft.walletTx[t] = [start |-> FirstFree(t - 1), end |-> FirstFree(t)]
        BY <1>2, <4>1 DEF Sidecars
      <4> QED
        BY <1>9, <2>1, <3>2, <4>1, <4>2
    <3> QED
      BY <3>1, <3>2
  <2>4. /\ s.dustThrough \in 0 .. Len(Events(s.height))
        /\ s.walletDust = {e \in WalletEvents(s.height) : e <= s.dustThrough}
    BY <1>2, <1>8 DEF Sidecars
  <2> QED
    BY <1>3, <1>5, <1>8, <2>2, <2>3, <2>4 DEF Sidecars
<1>11. SidecarsInv'
  <2>1. \A u : Sidecars(u)' = Sidecars(u)
    BY <1>1, Rigid
  <2>2. Sidecars(store') /\ Sidecars(draft')
    BY <1>2, <1>7, <1>10
  <2>3. draft'.txThrough = at' - 1
    BY <1>1, <1>3, <1>5, <1>7
  <2>4. draft'.dustThrough = store'.dustThrough
    BY <1>2, <1>7, <1>8
  <2> QED
    BY <1>1, <2>1, <2>2, <2>3, <2>4 DEF SidecarsInv
<1>12. MigrationInv' /\ EventsInv' /\ DustInv' /\ DustStays
  <2>1. /\ Keeps({"schema", "v2", "blobs", "cursor"}) /\ Keeps({"legacy"})
        /\ Keeps({"byContract", "correlated"}) /\ Keeps({"dustGen", "dustByOwner"})
    BY <1>6, <1>7 DEF Fields
  <2>2. store'.legacy = store.legacy
    BY <2>1 DEF Keeps
  <2> QED
    BY <1>1, <2>1, <2>2, KeepsMigration, KeepsEvents, KeepsDust
<1> QED
    BY <1>7, <1>11, <1>12 DEF IInv

\* The ranges end at the ledger state's index, so the check never fails.
LEMMA CheckEndInv ==
    ASSUME IInv, CheckEnd
    PROVE  IInv' /\ DustStays
<1>1. /\ task = "sidecars" /\ at > store.height
      /\ IF ZswapIndex = CurrentEnd
         THEN task' = "dustEvents" /\ at' = store.dustThrough + 1
         ELSE task' = "failed" /\ UNCHANGED at
      /\ UNCHANGED <<chain, store, draft, pending, hashes, plan, cached, done, crashes>>
    BY DEF CheckEnd
<1>2. /\ Typed /\ FrameInv /\ Sidecars(draft) /\ Sidecars(store)
      /\ draft.txThrough = at - 1 /\ draft.dustThrough = store.dustThrough
    BY <1>1 DEF IInv, SidecarsInv
<1>3. store.height \in Nat /\ at \in Nat \ {0}
    BY <1>2, MaxHeightAssumption DEF Typed
<1>4. at - 1 = store.height /\ ZswapIndex = CurrentEnd
  <2>1. at - 1 \in 0 .. store.height
    BY <1>1, ZswapIndexIs
  <2>2. at - 1 = store.height
    BY <1>1, <1>3, <2>1
  <2>3. ZswapIndex = IF store.height = 0 THEN 0 ELSE FirstFree(store.height)
    BY <1>1, <2>2, ZswapIndexIs
  <2> QED
    BY <2>2, <2>3 DEF CurrentEnd
<1>5. task' = "dustEvents" /\ at' = store.dustThrough + 1 /\ store.dustThrough \in Nat
  <2>1. chain \in Chains
    BY <1>2 DEF Typed
  <2>2. Len(Events(store.height)) \in Nat
    BY <1>3, <2>1, EventsIs
  <2> QED
    BY <1>1, <1>2, <1>4, <2>2 DEF Sidecars
<1>6. draft.height = store.height
    BY <1>2, HeadOwned DEF FrameInv
<1>7. Typed'
    BY <1>1, <1>2, <1>5 DEF Typed, Tasks, Fields
<1>8. FrameInv'
  <2>1. Own(task)' = Own(task) /\ Fields' = Fields
    BY <1>1, <1>5 DEF Own, Fields
  <2> QED
    BY <1>1, <1>2, <1>5, <2>1 DEF FrameInv, Tasks, Current
<1>9. SidecarsInv'
  <2>1. \A u : Sidecars(u)' = Sidecars(u)
    BY <1>1, Rigid
  <2>2. Sidecars(store') /\ Sidecars(draft')
    BY <1>1, <1>2
  <2>3. draft'.txThrough = draft'.height /\ draft'.dustThrough = at' - 1
    BY <1>1, <1>2, <1>4, <1>5, <1>6
  <2> QED
    BY <1>5, <2>1, <2>2, <2>3 DEF SidecarsInv
<1>10. MigrationInv' /\ EventsInv' /\ DustInv' /\ DustStays
  <2>1. \A f \in Fields \ Own(task) : draft[f] = store[f]
    BY <1>2 DEF FrameInv
  <2>2. /\ Keeps({"schema", "v2", "blobs", "cursor"})
        /\ Keeps({"byContract", "correlated"}) /\ Keeps({"dustGen", "dustByOwner"})
    BY <1>1, <2>1, HeadOwned DEF Keeps
  <2> QED
    BY <1>1, <1>5, <2>2, KeepsMigration, KeepsEvents, KeepsDust
<1> QED
    BY <1>7, <1>8, <1>9, <1>10 DEF IInv

\* A dust event is added to the wallet index.
LEMMA IndexDustEventInv ==
    ASSUME IInv, IndexDustEvent
    PROVE  IInv' /\ DustStays
<1> DEFINE rows == {e \in {at} : IsDust(Events(store.height)[e])}
           s == [draft EXCEPT !.walletDust = @ \cup rows, !.dustThrough = at]
<1>1. /\ task = "dustEvents" /\ at \in DOMAIN Events(store.height)
      /\ Write(s, 1) /\ at' = at + 1
      /\ UNCHANGED <<chain, task, hashes, plan, cached, done, crashes>>
    BY Zenon DEF IndexDustEvent
<1>2. /\ Typed /\ FrameInv /\ Sidecars(draft) /\ Sidecars(store)
      /\ draft.txThrough = draft.height /\ draft.dustThrough = at - 1
    BY <1>1 DEF IInv, SidecarsInv
<1>3. /\ store.height \in Nat /\ at \in Nat \ {0} /\ chain \in Chains
      /\ Len(Events(store.height)) \in Nat
      /\ DOMAIN Events(store.height) = 1 .. Len(Events(store.height))
  <2>1. store.height \in Nat /\ at \in Nat \ {0} /\ chain \in Chains
    BY <1>2, MaxHeightAssumption DEF Typed
  <2> QED
    BY <2>1, EventsIs
<1>4. /\ DOMAIN s = Fields
      /\ \A f \in Fields \ {"walletDust", "dustThrough"} : s[f] = draft[f]
      /\ s.walletDust = draft.walletDust \cup rows /\ s.dustThrough = at
    BY <1>2 DEF Typed, Fields
<1> HIDE DEF s
<1>5. Own(task) = {"walletTx", "txThrough", "walletDust", "dustThrough"}
    BY <1>1 DEF Own
<1>6. /\ Typed' /\ FrameInv' /\ draft' = s /\ (store' = store \/ store' = s)
      /\ \A F \in SUBSET (Fields \ Own(task)) : Keeps(F)
  <2>1. hashes' \subseteq Blob
    BY <1>1, <1>2 DEF Typed
  <2>2. \A f \in Fields \ Own(task) : s[f] = draft[f]
    BY <1>4, <1>5
  <2> QED
    BY <1>1, <1>4, <2>1, <2>2, WriteFrame
<1>7. /\ s.height = store.height /\ draft.height = store.height
      /\ s.txThrough = draft.txThrough /\ s.walletTx = draft.walletTx
    BY <1>2, <1>4, <1>5 DEF Fields, FrameInv
<1>8. Sidecars(s)
  <2>1. s.walletDust = {e \in WalletEvents(s.height) : e <= at}
    <3>1. draft.walletDust = {e \in WalletEvents(store.height) : e <= at - 1}
      BY <1>2, <1>7 DEF Sidecars
    <3>2. \A e \in WalletEvents(store.height) : e \in Nat
      BY <1>3 DEF WalletEvents
    <3>3. \A e : e \in rows <=> e = at /\ e \in WalletEvents(store.height)
      BY <1>1 DEF WalletEvents
    <3>4. \A e \in WalletEvents(store.height) : e <= at <=> (e <= at - 1 \/ e = at)
      BY <1>3, <3>2
    <3>5. \A e \in {at} : e <= at
      BY <1>3
    <3> HIDE DEF rows
    <3> QED
      BY <1>4, <1>7, <3>1, <3>3, <3>4, <3>5
  <2>2. /\ s.txThrough \in 0 .. s.height /\ DOMAIN s.walletTx = 1 .. s.txThrough
        /\ \A t \in 1 .. s.txThrough :
              s.walletTx[t] = [start |-> FirstFree(t - 1), end |-> FirstFree(t)]
    BY <1>2, <1>7 DEF Sidecars
  <2>3. s.dustThrough \in 0 .. Len(Events(s.height))
    BY <1>1, <1>3, <1>4, <1>7
  <2> QED
    BY <1>4, <2>1, <2>2, <2>3 DEF Sidecars
<1>9. SidecarsInv'
  <2>1. \A u : Sidecars(u)' = Sidecars(u)
    BY <1>1, Rigid
  <2>2. Sidecars(store') /\ Sidecars(draft')
    BY <1>2, <1>6, <1>8
  <2>3. draft'.txThrough = draft'.height /\ draft'.dustThrough = at' - 1
    BY <1>1, <1>2, <1>3, <1>4, <1>6, <1>7
  <2> QED
    BY <1>1, <2>1, <2>2, <2>3 DEF SidecarsInv
<1>10. MigrationInv' /\ EventsInv' /\ DustInv' /\ DustStays
  <2>1. /\ Keeps({"schema", "v2", "blobs", "cursor"}) /\ Keeps({"legacy"})
        /\ Keeps({"byContract", "correlated"}) /\ Keeps({"dustGen", "dustByOwner"})
    BY <1>5, <1>6 DEF Fields
  <2>2. store'.legacy = store.legacy
    BY <2>1 DEF Keeps
  <2> QED
    BY <1>1, <2>1, <2>2, KeepsMigration, KeepsEvents, KeepsDust
<1> QED
    BY <1>6, <1>9, <1>10 DEF IInv

\* The indexer starts with complete wallet indexes.
LEMMA StartIndexingInv ==
    ASSUME IInv, StartIndexing
    PROVE  IInv' /\ DustStays
<1>1. /\ task = "dustEvents" /\ at \notin DOMAIN Events(store.height)
      /\ Complete(draft, "indexing")
      /\ done' = done \cup {"sidecars"} /\ UNCHANGED <<chain, crashes>>
    BY DEF StartIndexing
<1>2. /\ Typed /\ FrameInv /\ Sidecars(draft) /\ Current(store)
      /\ draft.txThrough = draft.height /\ draft.dustThrough = at - 1
    BY <1>1 DEF IInv, SidecarsInv, FrameInv
<1>3. \A f \in Fields \ {"walletTx", "txThrough", "walletDust", "dustThrough"} :
         draft[f] = store[f]
    BY <1>1, <1>2 DEF FrameInv, Own
<1>4. draft.height = store.height /\ draft.schema = store.schema /\ DOMAIN draft = Fields
    BY <1>2, <1>3 DEF Typed, Fields
<1>5. /\ Typed' /\ FrameInv' /\ draft' = draft /\ store' = draft /\ task' = "indexing"
      /\ \A F \in SUBSET Fields : (\A f \in F : draft[f] = store[f]) => Keeps(F)
    BY <1>1, <1>2, <1>4, CompleteFrame DEF Typed, Current
<1>6. draft.dustThrough = Len(Events(draft.height))
  <2>1. store.height \in Nat /\ at \in Nat \ {0} /\ chain \in Chains
    BY <1>2, MaxHeightAssumption DEF Typed
  <2>2. /\ Len(Events(store.height)) \in Nat
        /\ DOMAIN Events(store.height) = 1 .. Len(Events(store.height))
    BY <2>1, EventsIs
  <2>3. at - 1 \in 0 .. Len(Events(store.height))
    BY <1>2, <1>4 DEF Sidecars
  <2> QED
    BY <1>1, <1>2, <1>4, <2>1, <2>2, <2>3
<1>7. SidecarsInv'
  <2>1. \A u : Sidecars(u)' = Sidecars(u)
    BY <1>1, Rigid
  <2>2. \A n : Events(n)' = Events(n)
    BY <1>1, RigidChain
  <2> QED
    BY <1>2, <1>5, <1>6, <2>1, <2>2 DEF SidecarsInv
<1>8. MigrationInv' /\ EventsInv' /\ DustInv' /\ DustStays
  <2>1. /\ Keeps({"schema", "v2", "blobs", "cursor"}) /\ Keeps({"legacy"})
        /\ Keeps({"byContract", "correlated"}) /\ Keeps({"dustGen", "dustByOwner"})
    BY <1>3, <1>5 DEF Fields
  <2>2. store'.legacy = store.legacy
    BY <2>1 DEF Keeps
  <2> QED
    BY <1>1, <1>5, <2>1, <2>2, KeepsMigration, KeepsEvents, KeepsDust
<1> QED
    BY <1>5, <1>7, <1>8 DEF IInv

(* A block of the indexer *)

NewActions(t) == {a \in DOMAIN Actions(t) : Actions(t)[a].tx = t}
NewEvents(t) == {e \in DOMAIN Events(t) : Events(t)[e].tx = t}
NewDustKeys(t) == {Events(t)[e].of : e \in {i \in NewEvents(t) : IsGeneration(Events(t)[i])}}

\* A block's rows are those of its transaction, after all earlier ones.
LEMMA NewRows ==
    ASSUME chain \in Chains, NEW h \in Nat, NEW t, t = h + 1
    PROVE  /\ DOMAIN Events(t) = DOMAIN Events(h) \cup NewEvents(t)
           /\ DOMAIN Events(h) \cap NewEvents(t) = {}
           /\ \A e \in DOMAIN Events(h) : Events(h)[e] = Events(t)[e]
           /\ DOMAIN Actions(t) = DOMAIN Actions(h) \cup NewActions(t)
           /\ DOMAIN Actions(h) \cap NewActions(t) = {}
           /\ \A a \in DOMAIN Actions(h) : Actions(h)[a] = Actions(t)[a]
<1>1. t \in Nat /\ h <= t
    OBVIOUS
<1>2. /\ DOMAIN Events(h) \subseteq DOMAIN Events(t)
      /\ \A e \in DOMAIN Events(h) : Events(h)[e] = Events(t)[e]
      /\ \A e \in DOMAIN Events(t) : e \in DOMAIN Events(h) <=> Events(t)[e].tx <= h
    BY <1>1, EventsGrow
<1>3. \A e \in DOMAIN Events(t) : Events(t)[e].tx \in Nat /\ Events(t)[e].tx <= t
    BY <1>1, EventsIs
<1>4. \A e \in DOMAIN Events(t) : ~(Events(t)[e].tx <= h) <=> Events(t)[e].tx = t
    BY <1>3
<1>5. /\ DOMAIN Actions(h) \subseteq DOMAIN Actions(t)
      /\ \A a \in DOMAIN Actions(h) : Actions(h)[a] = Actions(t)[a]
      /\ \A a \in DOMAIN Actions(t) : a \in DOMAIN Actions(h) <=> Actions(t)[a].tx <= h
    BY <1>1, ActionsGrow
<1>6. \A a \in DOMAIN Actions(t) : Actions(t)[a].tx \in Nat /\ Actions(t)[a].tx <= t
    BY <1>1, ActionsIs
<1>7. \A a \in DOMAIN Actions(t) : ~(Actions(t)[a].tx <= h) <=> Actions(t)[a].tx = t
    BY <1>6
<1> QED
    BY <1>2, <1>4, <1>5, <1>7 DEF NewEvents, NewActions

\* What a block of the pipeline changes in the store.
LEMMA IndexBlockEffect ==
    ASSUME IInv, IndexBlock, NEW t, t = store.height + 1
    PROVE  /\ task = "indexing" /\ task' = "indexing" /\ chain' = chain /\ done' = done
           /\ store.height \in Nat /\ t \in Nat /\ t <= MaxHeight /\ chain \in Chains
           /\ draft' = store' /\ at' = 1 /\ hashes' = {} /\ DOMAIN store' = Fields
           /\ store'.height = t
           /\ \A f \in {"schema", "legacy", "cursor"} : store'[f] = store[f]
           /\ store'.v2 = With([a \in NewActions(t) |-> V2Record(Actions(t)[a])], store.v2)
           /\ store'.blobs = [b \in Blob |->
                 IF store.blobs[b] = 0 /\ \E a \in NewActions(t) : Actions(t)[a].state = b
                 THEN 1 ELSE store.blobs[b]]
           /\ store'.byContract = store.byContract \cup
                 {e \in NewEvents(t) : Events(t)[e].kind = "contract"}
           /\ store'.correlated =
                 With([e \in NewEvents(t) |-> Correlate(Events(t)[e], Actions(t))],
                      store.correlated)
           /\ store'.dustGen =
                 With([k \in NewDustKeys(t) |-> DustRows(Events(t))[k]], store.dustGen)
           /\ store'.dustByOwner = store.dustByOwner \cup NewDustKeys(t)
           /\ store'.walletTx =
                 With([u \in {t} |-> [start |-> FirstFree(u - 1), end |-> FirstFree(u)]],
                      store.walletTx)
           /\ store'.txThrough = t
           /\ store'.walletDust = store.walletDust \cup
                 {e \in NewEvents(t) : IsDust(Events(t)[e])}
           /\ store'.dustThrough = Len(Events(t))
<1> DEFINE s == [store EXCEPT
             !.height = t,
             !.v2 = With([a \in NewActions(t) |-> V2Record(Actions(t)[a])], @),
             !.blobs = [b \in Blob |->
                IF @[b] = 0 /\ \E a \in NewActions(t) : Actions(t)[a].state = b
                THEN 1 ELSE @[b]],
             !.byContract = @ \cup {e \in NewEvents(t) : Events(t)[e].kind = "contract"},
             !.correlated =
                With([e \in NewEvents(t) |-> Correlate(Events(t)[e], Actions(t))], @),
             !.dustGen = With([k \in NewDustKeys(t) |-> DustRows(Events(t))[k]], @),
             !.dustByOwner = @ \cup NewDustKeys(t),
             !.walletTx = With([u \in {t} |->
                                 [start |-> FirstFree(u - 1), end |-> FirstFree(u)]], @),
             !.txThrough = t,
             !.walletDust = @ \cup {e \in NewEvents(t) : IsDust(Events(t)[e])},
             !.dustThrough = Len(Events(t))]
<1>1. /\ task = "indexing" /\ store.height < MaxHeight
      /\ Complete(s, "indexing") /\ UNCHANGED <<chain, done, crashes>>
  <2>1. s = Indexed(t)
    BY Zenon DEF Indexed, NewActions, NewEvents, NewDustKeys
  <2>2. Complete(Indexed(t), "indexing")
    BY Zenon DEF IndexBlock
  <2> QED
    BY <2>1, <2>2, Zenon DEF IndexBlock
<1>2. Typed
    BY DEF IInv
<1>3. /\ store' = s /\ draft' = store' /\ task' = "indexing" /\ at' = 1 /\ hashes' = {}
    BY <1>1, Zenon DEF Complete
<1>4. store.height \in Nat /\ t \in Nat /\ t <= MaxHeight /\ chain \in Chains
    BY <1>1, <1>2, MaxHeightAssumption DEF Typed
<1>5. DOMAIN store = Fields
    BY <1>2 DEF Typed
<1>6. /\ s.height = t /\ DOMAIN s = Fields
      /\ \A f \in {"schema", "legacy", "cursor"} : s[f] = store[f]
    BY <1>5 DEF Fields
<1>7. /\ s.v2 = With([a \in NewActions(t) |-> V2Record(Actions(t)[a])], store.v2)
      /\ s.blobs = [b \in Blob |->
                 IF store.blobs[b] = 0 /\ \E a \in NewActions(t) : Actions(t)[a].state = b
                 THEN 1 ELSE store.blobs[b]]
    BY <1>5 DEF Fields
<1>8. /\ s.byContract = store.byContract \cup
                 {e \in NewEvents(t) : Events(t)[e].kind = "contract"}
      /\ s.correlated =
                 With([e \in NewEvents(t) |-> Correlate(Events(t)[e], Actions(t))],
                      store.correlated)
    BY <1>5 DEF Fields
<1>9. /\ s.dustGen =
                 With([k \in NewDustKeys(t) |-> DustRows(Events(t))[k]], store.dustGen)
      /\ s.dustByOwner = store.dustByOwner \cup NewDustKeys(t)
    BY <1>5 DEF Fields
<1>10. /\ s.walletTx =
                 With([u \in {t} |-> [start |-> FirstFree(u - 1), end |-> FirstFree(u)]],
                      store.walletTx)
       /\ s.txThrough = t
       /\ s.walletDust = store.walletDust \cup
                 {e \in NewEvents(t) : IsDust(Events(t)[e])}
       /\ s.dustThrough = Len(Events(t))
    BY <1>5 DEF Fields
<1> HIDE DEF s
<1>11. UNCHANGED <<chain, done>> /\ task = "indexing"
    BY <1>1
<1> QED
    BY <1>3, <1>4, <1>6, <1>7, <1>8, <1>9, <1>10, <1>11, Zenon

\* The pipeline continues the migrated partition.
LEMMA IndexBlockMigration ==
    ASSUME IInv, IndexBlock
    PROVE  MigrationInv'
<1> DEFINE h == store.height
           t == h + 1
           n == Len(Actions(t))
<1>1. /\ task = "indexing" /\ task' = "indexing" /\ chain' = chain
      /\ h \in Nat /\ t \in Nat /\ chain \in Chains
      /\ store'.height = t /\ store'.schema = store.schema /\ store'.cursor = store.cursor
      /\ store'.v2 = With([a \in NewActions(t) |-> V2Record(Actions(t)[a])], store.v2)
      /\ store'.blobs = [b \in Blob |->
            IF store.blobs[b] = 0 /\ \E a \in NewActions(t) : Actions(t)[a].state = b
            THEN 1 ELSE store.blobs[b]]
    BY IndexBlockEffect
<1>2. /\ Current(store) /\ Migrated(store, Len(Actions(h))) /\ store.cursor = None
    BY <1>1 DEF IInv, FrameInv, MigrationInv
<1>3. /\ DOMAIN Actions(t) = DOMAIN Actions(h) \cup NewActions(t)
      /\ DOMAIN Actions(h) \cap NewActions(t) = {}
      /\ \A a \in DOMAIN Actions(h) : Actions(h)[a] = Actions(t)[a]
    BY <1>1, NewRows
<1>4. /\ DOMAIN Actions(h) = 1 .. Len(Actions(h)) /\ Len(Actions(h)) \in Nat
      /\ DOMAIN Actions(t) = 1 .. n /\ n \in Nat
    BY <1>1, ActionsIs
<1>5. /\ DOMAIN store.v2 = DOMAIN Actions(h)
      /\ \A a \in DOMAIN Actions(h) : store.v2[a] = V2Record(Actions(t)[a])
      /\ store.blobs \in [Blob -> {0, 1}]
      /\ \A b \in Blob : store.blobs[b] = 1 <=>
            \E a \in DOMAIN Actions(h) : Actions(t)[a].state = b
    BY <1>2, <1>3, <1>4 DEF Migrated
<1> HIDE DEF t, h
<1>6. /\ DOMAIN store'.v2 = DOMAIN Actions(t)
      /\ \A a \in DOMAIN Actions(t) : store'.v2[a] = V2Record(Actions(t)[a])
    BY <1>1, <1>3, <1>5 DEF With
<1>7. store'.blobs \in [Blob -> {0, 1}]
    BY <1>1, <1>5
<1>8. \A b \in Blob : store'.blobs[b] = 1 <=>
         \E a \in DOMAIN Actions(t) : Actions(t)[a].state = b
    BY <1>1, <1>3, <1>5
<1>9. Migrated(store', n)
    BY <1>1, <1>4, <1>6, <1>7, <1>8 DEF Migrated
<1>10. /\ \A u, m : Migrated(u, m)' = Migrated(u, m)
       /\ \A m : Actions(m)' = Actions(m)
    BY <1>1, Rigid, RigidChain
<1> QED
    BY <1>1, <1>2, <1>9, <1>10 DEF MigrationInv, Current

\* The pipeline continues the attributed events.
LEMMA IndexBlockEvents ==
    ASSUME IInv, IndexBlock
    PROVE  EventsInv'
<1> DEFINE h == store.height
           t == h + 1
           events == Events(t)
           Of(e) == Correlate(events[e], Actions(t))
<1>1. /\ task = "indexing" /\ task' = "indexing" /\ chain' = chain /\ done' = done
      /\ h \in Nat /\ t \in Nat /\ chain \in Chains
      /\ store'.height = t /\ draft' = store'
      /\ store'.byContract = store.byContract \cup
            {e \in NewEvents(t) : events[e].kind = "contract"}
      /\ store'.correlated = With([e \in NewEvents(t) |-> Of(e)], store.correlated)
    BY IndexBlockEffect
<1>2. /\ DOMAIN events = DOMAIN Events(h) \cup NewEvents(t)
      /\ DOMAIN Events(h) \cap NewEvents(t) = {}
      /\ \A e \in DOMAIN Events(h) : Events(h)[e] = events[e]
    BY <1>1, NewRows
<1>3. \A e \in DOMAIN Events(h) : Correlate(Events(h)[e], Actions(h)) = Of(e)
  <2>1. h <= t
    BY <1>1
  <2> QED
    BY <1>1, <2>1, CorrelateStable
<1>4. AttributionsRight(store)
    BY DEF IInv, EventsInv
<1>5. /\ DOMAIN store.correlated = DOMAIN Events(h)
      /\ store.byContract \subseteq DOMAIN Events(h)
      /\ \A e \in DOMAIN Events(h) : /\ store.correlated[e] \in {None, Of(e)}
                                     /\ e \in store.byContract => events[e].kind = "contract"
    BY <1>2, <1>3, <1>4 DEF AttributionsRight
<1> HIDE DEF t, h, events, Of
<1>6. /\ DOMAIN store'.correlated = DOMAIN Events(h) \cup NewEvents(t)
      /\ \A e \in NewEvents(t) : store'.correlated[e] = Of(e)
      /\ \A e \in DOMAIN Events(h) : store'.correlated[e] = store.correlated[e]
    BY <1>1, <1>2, <1>5 DEF With
<1>7. /\ \A e \in NewEvents(t) : events[e].kind = "contract" => e \in store'.byContract
      /\ \A e \in DOMAIN Events(h) : e \in store'.byContract <=> e \in store.byContract
      /\ store'.byContract \subseteq DOMAIN events
      /\ \A e \in store'.byContract : events[e].kind = "contract"
    BY <1>1, <1>2, <1>5
<1>8. AttributionsRight(store')
  <2>1. \A e \in DOMAIN events : store'.correlated[e] \in {None, Of(e)}
    BY <1>2, <1>5, <1>6
  <2> QED
    BY <1>1, <1>2, <1>6, <1>7, <2>1 DEF AttributionsRight, events, Of
<1>9. ASSUME Correlated(store, Len(Events(store.height)))
      PROVE  Correlated(store', Len(Events(store'.height)))
  <2>1. \A e \in DOMAIN Events(h) : e <= Len(Events(h))
    BY <1>1, EventsIs
  <2>2. \A e \in DOMAIN Events(h) : /\ store.correlated[e] = Of(e)
                                    /\ events[e].kind = "contract" => e \in store.byContract
    BY <1>2, <1>3, <1>9, <2>1 DEF Correlated, h
  <2>3. \A e \in DOMAIN events : /\ store'.correlated[e] = Of(e)
                                 /\ events[e].kind = "contract" => e \in store'.byContract
    BY <1>2, <1>6, <1>7, <2>2
  <2> QED
    BY <1>1, <2>3 DEF Correlated, events, Of
<1>10. /\ \A u : AttributionsRight(u)' = AttributionsRight(u)
       /\ \A u, m : Correlated(u, m)' = Correlated(u, m)
       /\ \A m : Events(m)' = Events(m)
    BY <1>1, Rigid, RigidChain
<1>11. \A e \in DOMAIN store'.correlated : store'.correlated[e] \in {None, draft'.correlated[e]}
    BY <1>1
<1>12. "events" \in done' => Correlated(store', Len(Events(store'.height)))
    BY <1>1, <1>9 DEF IInv, EventsInv
<1> QED
    BY <1>1, <1>8, <1>10, <1>11, <1>12 DEF EventsInv

\* The pipeline continues the rebuilt dust rows.
LEMMA IndexBlockDust ==
    ASSUME IInv, IndexBlock
    PROVE  DustInv' /\ DustStays
<1> DEFINE h == store.height
           t == h + 1
           rows == DustRows(Events(t))
<1>1. /\ task' = "indexing" /\ chain' = chain /\ done' = done
      /\ h \in Nat /\ t \in Nat /\ chain \in Chains
      /\ store'.height = t /\ draft' = store'
      /\ store'.dustGen = With([k \in NewDustKeys(t) |-> rows[k]], store.dustGen)
      /\ store'.dustByOwner = store.dustByOwner \cup NewDustKeys(t)
    BY IndexBlockEffect
<1>2. /\ DOMAIN Events(t) = DOMAIN Events(h) \cup NewEvents(t)
      /\ DOMAIN Events(h) \cap NewEvents(t) = {}
      /\ \A e \in DOMAIN Events(h) : Events(h)[e] = Events(t)[e]
    BY <1>1, NewRows
<1>3. DustInv /\ DustTyped(store)
    BY DEF IInv, DustInv
<1>4. /\ \A e \in DustEvents(h) : e \in DustEvents(t) /\ Events(h)[e] = Events(t)[e]
      /\ \A e \in DustEvents(t) : e \in DustEvents(h) \/ Events(t)[e].of \in NewDustKeys(t)
      /\ DustKeys(t) = DustKeys(h) \cup NewDustKeys(t)
  <2>1. /\ \A e \in DustEvents(h) : e \in DustEvents(t) /\ Events(h)[e] = Events(t)[e]
        /\ \A e \in DustEvents(t) : e \in DustEvents(h) \/ e \in NewEvents(t)
    BY <1>2 DEF DustEvents
  <2>2. \A e \in DustEvents(t) \cap NewEvents(t) : Events(t)[e].of \in NewDustKeys(t)
    BY DEF DustEvents, NewDustKeys
  <2>3. \A k \in NewDustKeys(t) : k \in DustKeys(t)
    BY <1>2 DEF NewDustKeys, DustKeys, DustEvents
  <2> HIDE DEF h, t
  <2>4. \A k \in DustKeys(h) : k \in DustKeys(t)
    BY <2>1 DEF DustKeys
  <2>5. \A k \in DustKeys(t) : k \in DustKeys(h) \/ k \in NewDustKeys(t)
    BY <2>1, <2>2 DEF DustKeys
  <2> QED
    BY <2>1, <2>2, <2>3, <2>4, <2>5
<1>5. /\ DOMAIN rows = DustKeys(t)
      /\ \A k \in DustKeys(t) : rows[k] \in Nat
      /\ \A k \in DustKeys(h) \ NewDustKeys(t) : rows[k] = DustRows(Events(h))[k]
  <2> DEFINE old == DustRows(Events(h))
  <2>1. /\ DOMAIN rows = DustKeys(t)
        /\ \A k \in DustKeys(t) : /\ rows[k] \in DustEvents(t) /\ Events(t)[rows[k]].of = k
                                  /\ \A e \in DustEvents(t) :
                                        Events(t)[e].of = k => rows[k] >= e
    BY <1>1, DustRowsAre
  <2>2. \A k \in DustKeys(h) : /\ old[k] \in DustEvents(h) /\ Events(h)[old[k]].of = k
                               /\ \A e \in DustEvents(h) :
                                     Events(h)[e].of = k => old[k] >= e
    BY <1>1, DustRowsAre
  <2>3. \A e \in DustEvents(t) : e \in Nat
    BY <1>1, DustEventsNat
  <2> HIDE DEF h, t, rows, old
  <2>4. ASSUME NEW k \in DustKeys(h) \ NewDustKeys(t) PROVE rows[k] = old[k]
    <3>1. k \in DustKeys(t)
      BY <1>4
    <3>2. rows[k] \in DustEvents(h) /\ Events(h)[rows[k]].of = k
      BY <1>4, <2>1, <3>1
    <3>3. old[k] \in DustEvents(t) /\ Events(t)[old[k]].of = k
      BY <1>4, <2>2
    <3>4. old[k] >= rows[k] /\ rows[k] >= old[k]
      BY <2>1, <2>2, <3>1, <3>2, <3>3
    <3>5. old[k] \in Nat /\ rows[k] \in Nat
      BY <2>1, <2>3, <3>1, <3>3
    <3> QED
      BY <3>4, <3>5
  <2> QED
    BY <2>1, <2>3, <2>4 DEF old
<1>6. IsFiniteSet(NewDustKeys(t))
  <2>1. IsFiniteSet(NewEvents(t))
    <3>1. IsFiniteSet(1 .. Len(Events(t)))
      <4>1. Len(Events(t)) \in Nat
        BY <1>1, EventsIs
      <4> QED
        BY <4>1, FS_Interval
    <3>2. NewEvents(t) \subseteq 1 .. Len(Events(t))
      BY <1>1, EventsIs DEF NewEvents
    <3> QED
      BY <3>1, <3>2, FS_Subset
  <2> DEFINE new == {i \in NewEvents(t) : IsGeneration(Events(t)[i])}
             f == [e \in new |-> Events(t)[e].of]
  <2>2. IsFiniteSet(new)
    BY <2>1, FS_Subset
  <2>3. NewDustKeys(t) = {Events(t)[e].of : e \in new}
    BY DEF NewDustKeys
  <2>4. f \in Surjection(new, NewDustKeys(t))
    <3>1. f \in [new -> NewDustKeys(t)] /\ \A k \in NewDustKeys(t) : \E e \in new : f[e] = k
      BY <2>3
    <3> HIDE DEF f, new
    <3> QED
      BY <3>1, Fun_IsSurj
  <2> HIDE DEF f, new, t
  <2> QED
    BY <2>2, <2>4, FS_Surjection
<1> HIDE DEF t, h, rows
<1>7. DustTyped(store')
  <2>1. DOMAIN store'.dustGen = DOMAIN store.dustGen \cup NewDustKeys(t)
    BY <1>1 DEF With
  <2>2. store'.dustGen \in [DOMAIN store'.dustGen -> Nat]
    BY <1>1, <1>3, <1>4, <1>5 DEF With, DustTyped
  <2>3. IsFiniteSet(DOMAIN store'.dustGen) /\ IsFiniteSet(store'.dustByOwner)
    <3>1. IsFiniteSet(DOMAIN store.dustGen) /\ IsFiniteSet(store.dustByOwner)
      BY <1>3 DEF DustTyped
    <3>2. /\ IsFiniteSet(DOMAIN store.dustGen \cup NewDustKeys(t))
          /\ IsFiniteSet(store.dustByOwner \cup NewDustKeys(t))
      BY <1>6, <3>1, FS_Union
    <3> QED
      BY <1>1, <2>1, <3>2
  <2> QED
    BY <2>2, <2>3 DEF DustTyped
<1>8. ASSUME "dust" \in done
      PROVE  store'.dustGen = rows /\ store'.dustByOwner = DOMAIN rows
  <2>1. store.dustGen = DustRows(Events(h)) /\ store.dustByOwner = DOMAIN store.dustGen
    BY <1>3, <1>8 DEF DustInv, DustExact, h
  <2>2. DOMAIN store.dustGen = DustKeys(h)
    BY <1>1, <2>1, DustRowsAre
  <2>3. DOMAIN store'.dustGen = DustKeys(t)
    BY <1>1, <1>4, <2>2 DEF With
  <2>4. \A k \in DustKeys(t) : store'.dustGen[k] = rows[k]
    BY <1>1, <1>4, <1>5, <2>1, <2>2 DEF With
  <2>5. rows = [k \in DustKeys(t) |-> rows[k]]
    BY <1>5 DEF rows, DustRows
  <2>6. store'.dustGen = [k \in DustKeys(t) |-> store'.dustGen[k]]
    BY <1>7, <2>3 DEF DustTyped
  <2>7. store'.dustGen = rows
    BY <2>4, <2>5, <2>6, Zenon
  <2> QED
    BY <1>1, <1>4, <1>5, <2>1, <2>2, <2>7
<1>9. /\ \A m : Events(m)' = Events(m) /\ DustKeys(m)' = DustKeys(m)
    BY <1>1, RigidChain
<1>10. DustExact'
    BY <1>1, <1>8, <1>9 DEF DustExact, rows
<1>11. DustTyped(store)' /\ DustTyped(draft)'
    BY <1>1, <1>7 DEF DustTyped
<1>12. DustStays
    BY <1>1 DEF DustStays, With
<1> QED
    BY <1>1, <1>10, <1>11, <1>12 DEF DustInv

\* The pipeline continues the wallet indexes.
LEMMA IndexBlockSidecars ==
    ASSUME IInv, IndexBlock
    PROVE  SidecarsInv'
<1> DEFINE h == store.height
           t == h + 1
<1>1. /\ task = "indexing" /\ task' = "indexing" /\ chain' = chain
      /\ h \in Nat /\ t \in Nat /\ chain \in Chains
      /\ store'.height = t /\ draft' = store'
      /\ store'.walletTx =
            With([u \in {t} |-> [start |-> FirstFree(u - 1), end |-> FirstFree(u)]],
                 store.walletTx)
      /\ store'.txThrough = t
      /\ store'.walletDust = store.walletDust \cup
            {e \in NewEvents(t) : IsDust(Events(t)[e])}
      /\ store'.dustThrough = Len(Events(t))
    BY IndexBlockEffect
<1>2. /\ Sidecars(store) /\ store.txThrough = h /\ store.dustThrough = Len(Events(h))
    BY <1>1 DEF IInv, SidecarsInv
<1>3. /\ DOMAIN store.walletTx = 1 .. h
      /\ \A u \in 1 .. h :
            store.walletTx[u] = [start |-> FirstFree(u - 1), end |-> FirstFree(u)]
      /\ store.walletDust = {e \in WalletEvents(h) : e <= Len(Events(h))}
    BY <1>2 DEF Sidecars
<1>4. store.walletDust = WalletEvents(h)
  <2>1. \A e \in WalletEvents(h) : e <= Len(Events(h))
    BY <1>1, EventsIs DEF WalletEvents
  <2> QED
    BY <1>3, <2>1
<1>5. /\ DOMAIN Events(t) = DOMAIN Events(h) \cup NewEvents(t)
      /\ \A e \in DOMAIN Events(h) : Events(h)[e] = Events(t)[e]
    BY <1>1, NewRows
<1>6. store'.walletDust = {e \in WalletEvents(t) : e <= Len(Events(t))}
  <2>1. \A e \in WalletEvents(t) : e <= Len(Events(t))
    BY <1>1, EventsIs DEF WalletEvents
  <2>2. WalletEvents(t) = WalletEvents(h) \cup {e \in NewEvents(t) : IsDust(Events(t)[e])}
    BY <1>5 DEF WalletEvents
  <2> QED
    BY <1>1, <1>4, <2>1, <2>2
<1> HIDE DEF t, h
<1>7. /\ DOMAIN store'.walletTx = 1 .. t
      /\ \A u \in 1 .. t :
            store'.walletTx[u] = [start |-> FirstFree(u - 1), end |-> FirstFree(u)]
  <2>1. 1 .. t = 1 .. h \cup {t}
    BY <1>1 DEF t
  <2>2. /\ DOMAIN store'.walletTx = 1 .. h \cup {t}
        /\ store'.walletTx[t] = [start |-> FirstFree(t - 1), end |-> FirstFree(t)]
        /\ \A u \in 1 .. h \ {t} : store'.walletTx[u] = store.walletTx[u]
    BY <1>1, <1>3 DEF With
  <2> QED
    BY <1>3, <2>1, <2>2
<1>8. Sidecars(store')
  <2>1. Len(Events(t)) \in Nat
    BY <1>1, EventsIs
  <2>2. /\ store'.height = t /\ store'.txThrough = t /\ t \in Nat
        /\ store'.dustThrough = Len(Events(t))
    BY <1>1
  <2> QED
    BY <1>6, <1>7, <2>1, <2>2 DEF Sidecars
<1>9. /\ \A u : Sidecars(u)' = Sidecars(u)
      /\ \A m : Events(m)' = Events(m)
    BY <1>1, Rigid, RigidChain
<1> QED
    BY <1>1, <1>8, <1>9 DEF SidecarsInv

\* The pipeline continues every rewrite.
LEMMA IndexBlockInv ==
    ASSUME IInv, IndexBlock
    PROVE  IInv' /\ DustStays
<1>1. /\ task = "indexing" /\ task' = "indexing" /\ chain' = chain /\ done' = done
      /\ store.height \in Nat /\ store.height + 1 <= MaxHeight /\ chain \in Chains
      /\ draft' = store' /\ at' = 1 /\ hashes' = {} /\ DOMAIN store' = Fields
      /\ store'.height = store.height + 1 /\ store'.schema = store.schema
    BY IndexBlockEffect
<1>2. Typed /\ Current(store)
    BY <1>1 DEF IInv, FrameInv
<1>3. Fields' = Fields
    BY DEF Fields
<1>4. Typed'
    BY <1>1, <1>2, <1>3, MaxHeightAssumption DEF Typed
<1>5. FrameInv'
    BY <1>1, <1>2, <1>3 DEF FrameInv, Tasks, Current
<1> QED
    BY <1>4, <1>5, IndexBlockMigration, IndexBlockEvents, IndexBlockDust,
       IndexBlockSidecars DEF IInv

(* The process is started *)

\* What starting a task changes.
LEMMA OpenEffect ==
    ASSUME IInv, NEW t \in Tasks, Open(t)
    PROVE  /\ Typed' /\ FrameInv' /\ chain' = chain /\ draft' = store'
           /\ DOMAIN store' = Fields
           /\ \A f \in Fields \ {"schema"} : store'[f] = store[f]
           /\ \/ store'.schema = store.schema
              \/ store.schema = None /\ store.height = 0 /\ store'.schema = 2
           /\ task' = IF t = "states" /\ store'.schema # None THEN "reclaim" ELSE t
           /\ t = "states" => at' = store.cursor + 1
           /\ t = "sidecars" => at' = store.txThrough + 1
           /\ t \in {"events", "dust"} => at' = 1
           /\ t = "dust" => plan' = Plan(store)
           /\ hashes' = {} /\ done' \subseteq done
<1>1. Typed /\ FrameInv /\ MigrationInv /\ SidecarsInv
    BY DEF IInv
<1>2. /\ task = "down" /\ store' = Opened(store) /\ draft' = store'
      /\ t = "states" \/ Current(store')
      /\ task' = IF t = "states" /\ Current(store') THEN "reclaim" ELSE t
      /\ at' = CASE t = "states"   -> store.cursor + 1
                 [] t = "sidecars" -> store.txThrough + 1
                 [] OTHER          -> 1
      /\ plan' = IF t = "dust" THEN Plan(store) ELSE NoPlan
      /\ hashes' = {} /\ done' = done \ {t} /\ chain' = chain
    BY DEF Open
<1>3. /\ DOMAIN store' = Fields
      /\ \A f \in Fields \ {"schema"} : store'[f] = store[f]
      /\ \/ store'.schema = store.schema
         \/ store.schema = None /\ store.height = 0 /\ store'.schema = 2
    BY <1>1, <1>2 DEF Opened, Typed, Fields
<1>4. /\ t = "states" => at' = store.cursor + 1
      /\ t = "sidecars" => at' = store.txThrough + 1
      /\ t \in {"events", "dust"} => at' = 1
    BY <1>2
<1>5. store.cursor \in Nat /\ store.txThrough \in Nat
  <2>1. store.height \in Nat /\ chain \in Chains
    BY <1>1, MaxHeightAssumption DEF Typed
  <2>2. Len(Actions(store.height)) \in Nat
    BY <2>1, ActionsIs
  <2>3. store.cursor \in Nat
    BY <1>1, <2>2 DEF MigrationInv, Migrated, None
  <2>4. store.txThrough \in Nat
    BY <1>1, <2>1 DEF SidecarsInv, Sidecars
  <2> QED
    BY <2>3, <2>4
<1>6. Fields' = Fields /\ \A u : Own(u)' = Own(u)
    BY DEF Fields, Own
<1>7. Typed'
  <2>1. store'.height \in 0 .. MaxHeight /\ store'.schema \in {None, 2}
    BY <1>1, <1>3 DEF Typed, Fields
  <2>2. at' \in Nat \ {0}
    BY <1>4, <1>5 DEF Tasks
  <2> QED
    BY <1>1, <1>2, <1>3, <1>6, <2>1, <2>2 DEF Typed
<1>8. FrameInv'
    BY <1>2, <1>6 DEF FrameInv, Tasks, Current
<1> QED
    BY <1>2, <1>3, <1>4, <1>7, <1>8 DEF Current

\* A started task finds the contract states as the last one left them, and
\* the migration goes on at the cursor.
LEMMA OpenMigration ==
    ASSUME IInv, NEW t \in Tasks, Open(t)
    PROVE  MigrationInv'
<1>1. /\ chain' = chain /\ draft' = store' /\ hashes' = {}
      /\ store'.height = store.height /\ store'.v2 = store.v2
      /\ store'.blobs = store.blobs /\ store'.cursor = store.cursor
      /\ store'.legacy = store.legacy
      /\ \/ store'.schema = store.schema
         \/ store.schema = None /\ store.height = 0 /\ store'.schema = 2
      /\ task' = IF t = "states" /\ store'.schema # None THEN "reclaim" ELSE t
      /\ t = "states" => at' = store.cursor + 1
    BY OpenEffect DEF Fields
<1>2. MigrationInv /\ Typed
    BY DEF IInv
<1>3. /\ \A u, m : Migrated(u, m)' = Migrated(u, m)
      /\ \A m : Actions(m)' = Actions(m)
      /\ \A m : Migrated(store', m) = Migrated(store, m)
    BY <1>1, Rigid, RigidChain, OwnRows
<1>4. CASE store'.schema = store.schema
  <2>1. CASE store.schema = None
    <3>1. Migrated(store, store.cursor) /\ store.cursor \in Nat
      <4>1. store.height \in Nat /\ chain \in Chains
        BY <1>2, MaxHeightAssumption DEF Typed
      <4>2. Len(Actions(store.height)) \in Nat
        BY <4>1, ActionsIs
      <4> QED
        BY <1>2, <2>1, <4>2 DEF MigrationInv, Migrated, Current
    <3>2. task' = "states" => at' - 1 = store.cursor /\ store.cursor < at'
      BY <1>1, <3>1
    <3>3. hashes' = {b \in Blob : draft'.blobs[b] # store'.blobs[b]}
      BY <1>1
    <3> QED
      BY <1>1, <1>2, <1>3, <1>4, <2>1, <3>1, <3>2, <3>3 DEF MigrationInv, Current
  <2>2. CASE store.schema # None
    <3>1. task' # "states"
      BY <1>1, <1>4, <2>2
    <3> QED
      BY <1>1, <1>2, <1>3, <1>4, <2>2, <3>1 DEF MigrationInv, Current
  <2> QED
    BY <2>1, <2>2
<1>5. CASE store.schema = None /\ store.height = 0 /\ store'.schema = 2
  <2>1. Len(Actions(store.height)) = 0
    BY <1>2, <1>5, NothingYet DEF Typed
  <2>2. Migrated(store, store.cursor) /\ store.cursor = 0
    BY <1>2, <1>5, <2>1 DEF MigrationInv, Migrated, Current
  <2>3. task' # "states"
    BY <1>1, <1>5 DEF None
  <2> QED
    BY <1>1, <1>3, <1>5, <2>1, <2>2, <2>3 DEF MigrationInv, Current, None
<1> QED
    BY <1>1, <1>4, <1>5

\* The event backfill begins anew and loses no attribution.
LEMMA OpenEvents ==
    ASSUME IInv, NEW t \in Tasks, Open(t)
    PROVE  EventsInv'
<1>1. /\ chain' = chain /\ draft' = store' /\ done' \subseteq done
      /\ store'.height = store.height
      /\ store'.byContract = store.byContract /\ store'.correlated = store.correlated
      /\ task' = "events" => at' = 1
    BY OpenEffect DEF Fields
<1>2. EventsInv /\ Typed
    BY DEF IInv
<1>3. /\ \A u : AttributionsRight(u)' = AttributionsRight(u)
      /\ \A u, m : Correlated(u, m)' = Correlated(u, m)
      /\ \A m : Events(m)' = Events(m)
      /\ AttributionsRight(store') = AttributionsRight(store)
      /\ \A m : Correlated(store', m) = Correlated(store, m)
    BY <1>1, Rigid, RigidChain, OwnRows
<1>4. Correlated(store, 0)
  <2>1. store.height \in Nat /\ chain \in Chains
    BY <1>2, MaxHeightAssumption DEF Typed
  <2>2. \A e \in DOMAIN Events(store.height) : ~(e <= 0)
    <3>1. /\ DOMAIN Events(store.height) = 1 .. Len(Events(store.height))
          /\ Len(Events(store.height)) \in Nat
      BY <2>1, EventsIs
    <3> QED
      BY <3>1
  <2> QED
    BY <2>2 DEF Correlated
<1>5. \A e \in DOMAIN store'.correlated : store'.correlated[e] \in {None, draft'.correlated[e]}
    BY <1>1
<1>6. task' = "events" => Correlated(draft', at' - 1)
    BY <1>1, <1>3, <1>4
<1>7. AttributionsRight(store') /\ AttributionsRight(draft')
    BY <1>1, <1>2, <1>3 DEF EventsInv
<1>8. "events" \in done' => Correlated(store', Len(Events(store'.height)))
    BY <1>1, <1>2, <1>3 DEF EventsInv
<1> QED
    BY <1>3, <1>5, <1>6, <1>7, <1>8 DEF EventsInv

\* The rebuild begins with a plan of the store as it is.
LEMMA OpenDust ==
    ASSUME IInv, NEW t \in Tasks, Open(t)
    PROVE  DustInv' /\ DustStays
<1> DEFINE keys == DustKeys(store.height)
           dust == DustEvents(store.height)
<1>1. /\ chain' = chain /\ draft' = store' /\ done' \subseteq done
      /\ store'.height = store.height
      /\ store'.dustGen = store.dustGen /\ store'.dustByOwner = store.dustByOwner
      /\ task' = "dust" => at' = 1 /\ plan' = Plan(store)
    BY OpenEffect DEF Fields
<1>2. DustInv /\ Typed /\ DustTyped(store)
    BY DEF IInv, DustInv
<1>3. \A m : /\ Events(m)' = Events(m) /\ DustKeys(m)' = DustKeys(m)
             /\ DustEvents(m)' = DustEvents(m)
    BY <1>1, RigidChain
<1>4. /\ Plan(store).old = SetToSeq(DOMAIN store.dustGen \ keys)
      /\ Plan(store).oldOwner = SetToSeq(store.dustByOwner \ keys)
      /\ Plan(store).new = Ascending(dust)
    BY DEF Plan, DustKeys, DustEvents
<1>5. /\ \E n \in Nat : DOMAIN Plan(store).old = 1 .. n
      /\ \A i \in DOMAIN Plan(store).old : Plan(store).old[i] \notin keys
      /\ \A k \in DOMAIN store.dustGen \ keys :
            \E i \in DOMAIN Plan(store).old : Plan(store).old[i] = k
  <2> DEFINE S == DOMAIN store.dustGen \ keys
  <2>1. IsFiniteSet(S)
    BY <1>2, FS_Subset DEF DustTyped
  <2>2. \A x \in S : x \notin keys
    OBVIOUS
  <2> HIDE DEF S, keys
  <2>3. /\ \E n \in Nat : DOMAIN SetToSeq(S) = 1 .. n
        /\ \A i \in DOMAIN SetToSeq(S) : SetToSeq(S)[i] \in S
        /\ \A x \in S : \E i \in DOMAIN SetToSeq(S) : SetToSeq(S)[i] = x
    BY <2>1, Enumerated
  <2>4. Plan(store).old = SetToSeq(S)
    BY <1>4 DEF S
  <2>5. \A x : x \in S <=> x \in DOMAIN store.dustGen \ keys
    BY DEF S
  <2> QED
    BY <2>2, <2>3, <2>4, <2>5
<1>6. /\ \E n \in Nat : DOMAIN Plan(store).oldOwner = 1 .. n
      /\ \A i \in DOMAIN Plan(store).oldOwner : Plan(store).oldOwner[i] \notin keys
      /\ \A k \in store.dustByOwner \ keys :
            \E i \in DOMAIN Plan(store).oldOwner : Plan(store).oldOwner[i] = k
  <2> DEFINE S == store.dustByOwner \ keys
  <2>1. IsFiniteSet(S)
    BY <1>2, FS_Subset DEF DustTyped
  <2>2. \A x \in S : x \notin keys
    OBVIOUS
  <2> HIDE DEF S, keys
  <2>3. /\ \E n \in Nat : DOMAIN SetToSeq(S) = 1 .. n
        /\ \A i \in DOMAIN SetToSeq(S) : SetToSeq(S)[i] \in S
        /\ \A x \in S : \E i \in DOMAIN SetToSeq(S) : SetToSeq(S)[i] = x
    BY <2>1, Enumerated
  <2>4. Plan(store).oldOwner = SetToSeq(S)
    BY <1>4 DEF S
  <2>5. \A x : x \in S <=> x \in store.dustByOwner \ keys
    BY DEF S
  <2> QED
    BY <2>2, <2>3, <2>4, <2>5
<1>7. /\ \E n \in Nat : DOMAIN Plan(store).new = 1 .. n
      /\ \A i \in DOMAIN Plan(store).new : Plan(store).new[i] \in dust
      /\ \A i, j \in DOMAIN Plan(store).new : i < j => Plan(store).new[i] < Plan(store).new[j]
      /\ \A e \in dust : \E i \in DOMAIN Plan(store).new : Plan(store).new[i] = e
  <2>1. store.height \in Nat /\ chain \in Chains
    BY <1>2, MaxHeightAssumption DEF Typed
  <2>2. Len(Events(store.height)) \in Nat /\ dust \in SUBSET (1 .. Len(Events(store.height)))
    BY <2>1, EventsIs DEF DustEvents
  <2> HIDE DEF dust
  <2>3. /\ \E n \in Nat : DOMAIN Ascending(dust) = 1 .. n
        /\ \A i \in DOMAIN Ascending(dust) : Ascending(dust)[i] \in dust
        /\ \A i, j \in DOMAIN Ascending(dust) :
              i < j => Ascending(dust)[i] < Ascending(dust)[j]
        /\ \A e \in dust : \E i \in DOMAIN Ascending(dust) : Ascending(dust)[i] = e
    BY <2>2, AscendingIs
  <2> QED
    BY <1>4, <2>3
<1>8. ASSUME task' = "dust" PROVE PlanInv' /\ RebuildInv'
  <2>1. at' = 1 /\ plan' = Plan(store)
    BY <1>1, <1>8
  <2>2. PlanInv'
    <3>1. \A f \in {"old", "oldOwner", "new"} : \E n \in Nat : DOMAIN plan'[f] = 1 .. n
      BY <1>5, <1>6, <1>7, <2>1
    <3>2. \A f \in {"old", "oldOwner"} : \A i \in DOMAIN plan'[f] : plan'[f][i] \notin keys
      BY <1>5, <1>6, <2>1
    <3>3. /\ \A i \in DOMAIN plan'.new : plan'.new[i] \in dust
          /\ \A i, j \in DOMAIN plan'.new : i < j => plan'.new[i] < plan'.new[j]
          /\ \A e \in dust : \E i \in DOMAIN plan'.new : plan'.new[i] = e
      BY <1>7, <2>1
    <3> QED
      BY <1>1, <1>3, <3>1, <3>2, <3>3 DEF PlanInv
  <2>3. RebuildInv'
    <3>1. /\ \A i \in DOMAIN plan'.old : i >= 1
          /\ \A i \in DOMAIN plan'.oldOwner : i >= 1
          /\ \A i \in DOMAIN plan'.new : ~(i < 1)
      BY <1>5, <1>6, <1>7, <2>1
    <3>2. /\ \A k \in DOMAIN store.dustGen \ keys :
                \E i \in DOMAIN plan'.old : i >= 1 /\ plan'.old[i] = k
          /\ \A k \in store.dustByOwner \ keys :
                \E i \in DOMAIN plan'.oldOwner : i >= 1 /\ plan'.oldOwner[i] = k
      BY <1>5, <1>6, <2>1, <3>1
    <3> QED
      BY <1>1, <1>3, <2>1, <3>1, <3>2 DEF RebuildInv
  <2> QED
    BY <2>2, <2>3
<1>9. DustExact'
    BY <1>1, <1>2, <1>3 DEF DustInv, DustExact
<1>10. DustTyped(store)' /\ DustTyped(draft)'
    BY <1>1, <1>2 DEF DustTyped
<1> QED
    BY <1>1, <1>8, <1>9, <1>10 DEF DustInv, DustStays

\* The wallet indexes go on at their progress marks.
LEMMA OpenSidecars ==
    ASSUME IInv, NEW t \in Tasks, Open(t)
    PROVE  SidecarsInv'
<1>1. /\ chain' = chain /\ draft' = store'
      /\ store'.height = store.height
      /\ store'.walletTx = store.walletTx /\ store'.txThrough = store.txThrough
      /\ store'.walletDust = store.walletDust /\ store'.dustThrough = store.dustThrough
      /\ task' \in Tasks \cup {"reclaim"}
      /\ task' = "sidecars" => at' = store.txThrough + 1
    BY OpenEffect DEF Fields
<1>2. Sidecars(store) /\ Typed
    BY DEF IInv, SidecarsInv
<1>3. /\ \A u : Sidecars(u)' = Sidecars(u)
      /\ Sidecars(store') = Sidecars(store)
    BY <1>1, Rigid, OwnRows
<1>4. store.txThrough \in Nat
    BY <1>2, MaxHeightAssumption DEF Sidecars, Typed
<1>5. task' = "sidecars" => draft'.txThrough = at' - 1
    BY <1>1, <1>4
<1> QED
    BY <1>1, <1>2, <1>3, <1>5 DEF SidecarsInv, Tasks

\* Starting any of the tasks keeps the invariant.
LEMMA OpenInv ==
    ASSUME IInv, NEW t \in Tasks, Open(t)
    PROVE  IInv' /\ DustStays
BY OpenEffect, OpenMigration, OpenEvents, OpenDust, OpenSidecars DEF IInv

(* The data directories that are met first *)

\* Dust rows name events, and are finitely many.
LEMMA DustRowsTyped ==
    ASSUME NEW events, NEW L \in Nat, DOMAIN events = 1 .. L
    PROVE  /\ DustRows(events) \in [DOMAIN DustRows(events) -> Nat]
           /\ IsFiniteSet(DOMAIN DustRows(events))
<1> DEFINE Dust == {i \in DOMAIN events : IsGeneration(events[i])}
           keys == {events[e].of : e \in Dust}
           Of(k) == {e \in DOMAIN events : IsGeneration(events[e]) /\ events[e].of = k}
<1>1. DustRows(events) = [k \in keys |-> Max(Of(k))]
    BY DEF DustRows
<1>2. ASSUME NEW k \in keys PROVE Max(Of(k)) \in Nat
  <2>1. Of(k) # {} /\ Of(k) \in SUBSET (0 .. L)
    OBVIOUS
  <2> DEFINE O == Of(k)
  <2>2. O # {} /\ O \in SUBSET (0 .. L)
    BY <2>1
  <2> HIDE DEF O
  <2>3. \E m \in O : \A e \in O : m >= e
    BY <2>2, Greatest
  <2>4. Max(O) = CHOOSE m \in O : \A e \in O : m >= e
    BY Zenon DEF Max
  <2>5. Max(O) \in O
    BY <2>3, <2>4, Zenon
  <2>6. \A x \in O : x \in Nat
    BY <2>2
  <2>7. Max(O) \in Nat
    BY <2>5, <2>6, Zenon
  <2> QED
    BY <2>7 DEF O
<1>3. IsFiniteSet(Dust)
  <2>1. IsFiniteSet(1 .. L)
    BY FS_Interval
  <2>2. Dust \subseteq 1 .. L
    OBVIOUS
  <2> QED
    BY <2>1, <2>2, FS_Subset
<1>4. IsFiniteSet(keys)
  <2> DEFINE f == [e \in Dust |-> events[e].of]
  <2>1. f \in Surjection(Dust, keys)
    <3>1. f \in [Dust -> keys] /\ \A k \in keys : \E e \in Dust : f[e] = k
      OBVIOUS
    <3> HIDE DEF f, Dust, keys
    <3> QED
      BY <3>1, Fun_IsSurj
  <2> HIDE DEF f, Dust, keys
  <2> QED
    BY <1>3, <2>1, FS_Surjection
<1> HIDE DEF Of, keys
<1> QED
    BY <1>1, <1>2, <1>4

\* What an older build left is behind, not wrong.
LEMMA OldStoreInv ==
    ASSUME chain \in Chains, NEW n \in 0 .. MaxHeight, NEW schema \in {None, 2}, NEW old,
           NEW sidecars, NEW s, s = OldStore(n, schema, old, sidecars)
    PROVE  /\ DOMAIN s = Fields /\ s.height = n /\ s.schema = schema /\ s.cursor = None
           /\ schema = None /\ n > 0 => s.legacy
           /\ schema = None => Migrated(s, 0)
           /\ schema # None => Migrated(s, Len(Actions(n)))
           /\ AttributionsRight(s) /\ DustTyped(s) /\ Sidecars(s)
<1> DEFINE actions == Actions(n)
           events == Events(n)
           before == {e \in DOMAIN events : events[e].tx <= old}
           oldDust == {e \in before : IsGeneration(events[e])}
           masked == [e \in DOMAIN events |->
                        IF e \in before THEN [events[e] EXCEPT !.kind = "other"]
                                        ELSE events[e]]
           newDust == DustRows(masked)
           oldKeys == {OldKey(events[e], e) : e \in oldDust}
           oldRows == [k \in oldKeys |-> CHOOSE e \in oldDust : OldKey(events[e], e) = k]
<1>1. /\ DOMAIN s = Fields /\ s.height = n /\ s.schema = schema /\ s.cursor = None
      /\ s.legacy = (schema = None /\ n > 0)
    BY DEF OldStore, Fields
<1>2. /\ s.v2 = IF schema = None THEN <<>>
                ELSE [a \in DOMAIN actions |-> V2Record(actions[a])]
      /\ s.blobs = [b \in Blob |-> IF /\ schema # None
                                      /\ \E a \in DOMAIN actions : actions[a].state = b
                                   THEN 1 ELSE 0]
    BY DEF OldStore
<1>3. /\ s.byContract = {e \in DOMAIN events \ before : events[e].kind = "contract"}
      /\ s.correlated = [e \in DOMAIN events |-> IF e \in before THEN None
                                                 ELSE Correlate(events[e], actions)]
    BY DEF OldStore
<1>4. /\ s.dustGen = With(newDust, oldRows)
      /\ s.dustByOwner = oldKeys \cup DOMAIN newDust
    BY DEF OldStore
<1>5. /\ s.walletTx = IF sidecars
                      THEN [t \in 1 .. n |-> [start |-> FirstFree(t - 1),
                                              end |-> FirstFree(t)]] ELSE <<>>
      /\ s.txThrough = IF sidecars THEN n ELSE 0
      /\ s.walletDust = IF sidecars THEN WalletEvents(n) ELSE {}
      /\ s.dustThrough = IF sidecars THEN Len(events) ELSE 0
    BY DEF OldStore, WalletEvents
<1>6. /\ n \in Nat /\ Len(events) \in Nat /\ DOMAIN events = 1 .. Len(events)
      /\ Len(actions) \in Nat /\ DOMAIN actions = 1 .. Len(actions)
  <2>1. n \in Nat
    BY MaxHeightAssumption
  <2> QED
    BY <2>1, EventsIs, ActionsIs
<1> HIDE DEF actions, events
<1>7. ASSUME schema = None PROVE Migrated(s, 0)
  <2>1. DOMAIN s.v2 = 1 .. 0
    BY <1>2, <1>7
  <2>2. s.blobs = [b \in Blob |-> 0]
    BY <1>2, <1>7
  <2>3. 0 \in 0 .. Len(Actions(n)) /\ 1 .. 0 = {}
    BY <1>6 DEF actions
  <2> QED
    BY <1>1, <2>1, <2>2, <2>3 DEF Migrated
<1>8. ASSUME schema # None PROVE Migrated(s, Len(Actions(n)))
  <2>1. s.v2 = [a \in DOMAIN actions |-> V2Record(actions[a])]
    BY <1>2, <1>8
  <2>2. s.blobs = [b \in Blob |->
                     IF \E a \in DOMAIN actions : actions[a].state = b THEN 1 ELSE 0]
    BY <1>2, <1>8
  <2>3. /\ DOMAIN s.v2 = 1 .. Len(actions)
        /\ \A a \in 1 .. Len(actions) : s.v2[a] = V2Record(actions[a])
        /\ s.blobs \in [Blob -> {0, 1}]
        /\ \A b \in Blob : s.blobs[b] = 1 <=> \E a \in 1 .. Len(actions) : actions[a].state = b
    BY <1>6, <2>1, <2>2
  <2>4. Len(actions) \in 0 .. Len(actions)
    BY <1>6
  <2> QED
    BY <1>1, <2>3, <2>4 DEF Migrated, actions
<1>9. AttributionsRight(s)
    BY <1>1, <1>3 DEF AttributionsRight, actions, events
<1>10. /\ newDust \in [DOMAIN newDust -> Nat] /\ IsFiniteSet(DOMAIN newDust)
  <2>1. DOMAIN masked = 1 .. Len(events)
    BY <1>6
  <2> HIDE DEF masked
  <2> QED
    BY <1>6, <2>1, DustRowsTyped
<1>11. /\ oldRows \in [oldKeys -> Nat] /\ IsFiniteSet(oldKeys)
  <2>1. oldDust \subseteq 1 .. Len(events)
    BY <1>6
  <2>2. IsFiniteSet(1 .. Len(events))
    BY <1>6, FS_Interval
  <2> DEFINE Key(e) == OldKey(events[e], e)
             f == [e \in oldDust |-> Key(e)]
  <2>3. \A k \in oldKeys : \E e \in oldDust : Key(e) = k
    OBVIOUS
  <2>4. \A e \in oldDust : Key(e) \in oldKeys
    OBVIOUS
  <2>5. oldRows = [k \in oldKeys |-> CHOOSE e \in oldDust : Key(e) = k]
    OBVIOUS
  <2> HIDE DEF oldDust, oldKeys, Key, oldRows
  <2>6. IsFiniteSet(oldDust)
    BY <2>1, <2>2, FS_Subset
  <2>7. f \in Surjection(oldDust, oldKeys)
    <3>1. f \in [oldDust -> oldKeys] /\ \A k \in oldKeys : \E e \in oldDust : f[e] = k
      BY <2>3, <2>4
    <3> HIDE DEF f
    <3> QED
      BY <3>1, Fun_IsSurj
  <2>8. IsFiniteSet(oldKeys)
    <3> HIDE DEF f
    <3> QED
      BY <2>6, <2>7, FS_Surjection
  <2>9. ASSUME NEW k \in oldKeys PROVE (CHOOSE e \in oldDust : Key(e) = k) \in Nat
    <3>1. (CHOOSE e \in oldDust : Key(e) = k) \in oldDust
      BY <2>3, Zenon
    <3>2. \A e \in oldDust : e \in Nat
      BY <1>6, <2>1
    <3> QED
      BY <3>1, <3>2, Zenon
  <2> QED
    BY <2>5, <2>8, <2>9
<1> HIDE DEF newDust, oldRows, oldKeys
<1>12. DustTyped(s)
  <2>1. DOMAIN s.dustGen = DOMAIN newDust \cup oldKeys
    BY <1>4, <1>11 DEF With
  <2>2. s.dustGen \in [DOMAIN s.dustGen -> Nat]
    BY <1>4, <1>10, <1>11 DEF With
  <2>3. IsFiniteSet(DOMAIN s.dustGen) /\ IsFiniteSet(s.dustByOwner)
    <3>1. IsFiniteSet(DOMAIN newDust \cup oldKeys)
      BY <1>10, <1>11, FS_Union
    <3>2. s.dustByOwner = DOMAIN newDust \cup oldKeys
      BY <1>4
    <3> QED
      BY <2>1, <3>1, <3>2
  <2> QED
    BY <2>2, <2>3 DEF DustTyped
<1>13. Sidecars(s)
  <2>1. CASE sidecars
    <3>1. \A e \in WalletEvents(n) : e <= Len(events)
      BY <1>6 DEF WalletEvents, events
    <3>2. /\ s.walletTx = [t \in 1 .. n |-> [start |-> FirstFree(t - 1), end |-> FirstFree(t)]]
          /\ s.txThrough = n /\ s.walletDust = WalletEvents(n) /\ s.dustThrough = Len(events)
      BY <1>5, <2>1
    <3>3. n \in 0 .. n /\ Len(events) \in 0 .. Len(events)
      BY <1>6
    <3> QED
      BY <1>1, <3>1, <3>2, <3>3 DEF Sidecars, events
  <2>2. CASE ~sidecars
    <3>1. \A e \in WalletEvents(n) : ~(e <= 0)
      BY <1>6 DEF WalletEvents, events
    <3>2. /\ s.walletTx = <<>> /\ s.txThrough = 0 /\ s.walletDust = {} /\ s.dustThrough = 0
      BY <1>5, <2>2
    <3>3. 0 \in 0 .. n /\ 0 \in 0 .. Len(events) /\ 1 .. 0 = {} /\ DOMAIN <<>> = 1 .. 0
      BY <1>6
    <3> QED
      BY <1>1, <3>1, <3>2, <3>3 DEF Sidecars, events
  <2> QED
    BY <2>1, <2>2
<1> QED
    BY <1>1, <1>7, <1>8, <1>9, <1>12, <1>13

\* Every data directory that is met first satisfies the invariant.
LEMMA InitInv ==
    ASSUME Init
    PROVE  IInv
<1>1. /\ chain \in Chains /\ draft = store /\ task = "down" /\ at = 1 /\ hashes = {}
      /\ done = {}
    BY DEF Init
<1>2. PICK n \in 0 .. MaxHeight, schema \in {None, 2}, old \in Nat, sidecars \in BOOLEAN :
         store = OldStore(n, schema, old, sidecars)
  <2>1. /\ 0 \in 0 .. MaxHeight /\ MaxHeight - 1 \in 0 .. MaxHeight
        /\ \A old \in 0 .. MaxHeight - 1 : old \in Nat
    BY MaxHeightAssumption
  <2>2. \/ store = OldStore(0, None, 0, FALSE)
        \/ \E schema \in {None, 2}, old \in 0 .. MaxHeight - 1, sidecars \in BOOLEAN :
              store = OldStore(MaxHeight - 1, schema, old, sidecars)
    BY DEF Init
  <2>3. CASE store = OldStore(0, None, 0, FALSE)
    BY <2>1, <2>3
  <2>4. CASE \E schema \in {None, 2}, old \in 0 .. MaxHeight - 1, sidecars \in BOOLEAN :
                store = OldStore(MaxHeight - 1, schema, old, sidecars)
    BY <2>1, <2>4
  <2> QED
    BY <2>2, <2>3, <2>4
<1>3. /\ DOMAIN store = Fields /\ store.height = n /\ store.schema = schema
      /\ store.cursor = None
      /\ schema = None /\ n > 0 => store.legacy
      /\ schema = None => Migrated(store, 0)
      /\ schema # None => Migrated(store, Len(Actions(n)))
      /\ AttributionsRight(store) /\ DustTyped(store) /\ Sidecars(store)
    BY <1>1, <1>2, OldStoreInv
<1>4. Typed
    BY <1>1, <1>3 DEF Typed
<1>5. FrameInv
    BY <1>1 DEF FrameInv, Tasks
<1>6. MigrationInv
    BY <1>1, <1>3 DEF MigrationInv, Current, None
<1>7. EventsInv
  <2>1. \A e \in DOMAIN store.correlated : store.correlated[e] \in {None, draft.correlated[e]}
    BY <1>1
  <2> QED
    BY <1>1, <1>3, <2>1 DEF EventsInv
<1>8. DustInv
    BY <1>1, <1>3 DEF DustInv, DustExact
<1>9. SidecarsInv
    BY <1>1, <1>3 DEF SidecarsInv
<1> QED
    BY <1>4, <1>5, <1>6, <1>7, <1>8, <1>9 DEF IInv

\* Nothing changes when nothing happens.
LEMMA StutterInv ==
    ASSUME IInv, UNCHANGED vars
    PROVE  IInv' /\ DustStays
<1>1. /\ chain' = chain /\ store' = store /\ draft' = draft /\ task' = task /\ at' = at
      /\ hashes' = hashes /\ plan' = plan /\ done' = done
    BY DEF vars, progress
<1>2. /\ \A s, n : Migrated(s, n)' = Migrated(s, n)
      /\ \A s : AttributionsRight(s)' = AttributionsRight(s)
      /\ \A s, n : Correlated(s, n)' = Correlated(s, n)
      /\ \A s : Sidecars(s)' = Sidecars(s)
    BY <1>1, Rigid
<1>3. \A n : /\ Actions(n)' = Actions(n) /\ Events(n)' = Events(n)
             /\ DustEvents(n)' = DustEvents(n) /\ DustKeys(n)' = DustKeys(n)
    BY <1>1, RigidChain
<1>4. Typed' /\ FrameInv'
    BY <1>1 DEF IInv, Typed, FrameInv, Fields, Tasks, Own, Current
<1>5. MigrationInv'
    BY <1>1, <1>2, <1>3 DEF IInv, MigrationInv, Current
<1>6. EventsInv'
    BY <1>1, <1>2, <1>3 DEF IInv, EventsInv
<1>7. DustInv' /\ DustStays
  <2>1. DustExact'
    BY <1>1, <1>3 DEF IInv, DustInv, DustExact
  <2>2. task' = "dust" => PlanInv' /\ RebuildInv'
    BY <1>1, <1>3 DEF IInv, DustInv, PlanInv, RebuildInv
  <2> QED
    BY <1>1, <1>3, <2>1, <2>2 DEF IInv, DustInv, DustTyped, DustStays
<1>8. SidecarsInv'
    BY <1>1, <1>2, <1>3 DEF IInv, SidecarsInv
<1> QED
    BY <1>4, <1>5, <1>6, <1>7, <1>8 DEF IInv

\* So every step keeps the invariant and every dust row it should.
LEMMA NextInv ==
    ASSUME IInv, Next
    PROVE  IInv' /\ DustStays
BY MigrateActionInv, CutOverInv, ReclaimInv, CorrelateEventInv, FinishEventsInv,
   DustRoundInv, FinishDustInv, IndexTxInv, CheckEndInv, IndexDustEventInv,
   StartIndexingInv, IndexBlockInv, CrashInv, OpenInv DEF Next, Work

\* Theorem: however often the process dies, and in whichever order its tasks
\* are started, the task in hand is where the inductive invariant says.
THEOREM Invariant == Spec => []IInv
<1>1. Init => IInv
    BY InitInv
<1>2. IInv /\ [Next]_vars => IInv'
    BY NextInv, StutterInv
<1> QED
    BY <1>1, <1>2, PTL DEF Spec


(* What the invariant says of the store *)

\* With the invariant the current partition is exact.
LEMMA IInvMigrationExact == IInv => MigrationExact
<1> SUFFICES ASSUME IInv PROVE MigrationExact
    OBVIOUS
<1>1. MigrationInv /\ Typed
    BY DEF IInv
<1>2. store.height \in Nat /\ chain \in Chains
    BY <1>1, MaxHeightAssumption DEF Typed
<1>3. /\ DOMAIN Actions(store.height) = 1 .. Len(Actions(store.height))
      /\ \A a \in DOMAIN Actions(store.height) :
            Actions(store.height)[a].state \in Blob \cup {Empty}
    BY <1>2, ActionsIs
<1>4. store.blobs \in [Blob -> {0, 1}]
    BY <1>1 DEF MigrationInv, Migrated
<1>5. CASE Current(store)
  <2>1. Migrated(store, Len(Actions(store.height)))
    BY <1>1, <1>5 DEF MigrationInv
  <2>2. /\ DOMAIN store.v2 = DOMAIN Actions(store.height)
        /\ \A a \in DOMAIN Actions(store.height) :
              store.v2[a] = V2Record(Actions(store.height)[a])
        /\ \A b \in Blob : (\E a \in DOMAIN Actions(store.height) :
                               Actions(store.height)[a].state = b) => store.blobs[b] = 1
    BY <1>3, <2>1 DEF Migrated
  <2>3. ASSUME NEW a \in DOMAIN Actions(store.height), Actions(store.height)[a].state # Empty
        PROVE  store.blobs[Actions(store.height)[a].state] = 1
    BY <1>3, <2>2, <2>3
  <2> QED
    BY <1>4, <1>5, <2>2, <2>3 DEF MigrationExact
<1>6. CASE ~Current(store)
    BY <1>1, <1>4, <1>6 DEF MigrationInv, MigrationExact
<1> QED
    BY <1>5, <1>6

\* Theorem: an interrupted contract state migration is invisible: readers
\* find the old partition whole until the new one is.
THEOREM MigrationStaysExact == Spec => []MigrationExact
<1>1. IInv => MigrationExact
    BY IInvMigrationExact
<1> QED
    BY <1>1, Invariant, PTL

\* Theorem: after the event backfill, and while blocks are indexed, every
\* contract event is indexed and has the attribution of the pipeline.
THEOREM EventsStayExact == Spec => []EventsExact
<1>1. IInv => EventsExact
  <2> SUFFICES ASSUME IInv PROVE EventsExact
    OBVIOUS
  <2>1. store.height \in Nat /\ chain \in Chains
    BY MaxHeightAssumption DEF IInv, Typed
  <2>2. \A e \in DOMAIN Events(store.height) : e <= Len(Events(store.height))
    BY <2>1, EventsIs
  <2>3. AttributionsRight(store)
        /\ ("events" \in done => Correlated(store, Len(Events(store.height))))
    BY DEF IInv, EventsInv
  <2> QED
    BY <2>2, <2>3 DEF EventsExact, AttributionsRight, Correlated
<1> QED
    BY <1>1, Invariant, PTL

\* An event adds its transaction, if it is a contract's.
LEMMA ContractTxsGrow ==
    ASSUME chain \in Chains, NEW n \in Nat, NEW e \in DOMAIN Events(n)
    PROVE  ContractTxs(n, e) = IF Events(n)[e].kind = "contract"
                               THEN ContractTxs(n, e - 1) \cup {Events(n)[e].tx}
                               ELSE ContractTxs(n, e - 1)
<1> DEFINE events == Events(n)
<1>1. DOMAIN events = 1 .. Len(events) /\ Len(events) \in Nat
    BY EventsIs
<1>2. \A i \in DOMAIN events : i <= e <=> i <= e - 1 \/ i = e
    BY <1>1
<1>3. ~(e <= e - 1) /\ e <= e
    BY <1>1
<1> HIDE DEF events
<1> QED
    BY <1>2, <1>3 DEF ContractTxs, events

\* Those up to an event are among all, of which there are finitely many.
LEMMA ContractTxsFinite ==
    ASSUME chain \in Chains, NEW n \in Nat, NEW last \in Nat
    PROVE  /\ ContractTxs(n, last) \subseteq ContractTxs(n, Len(Events(n)))
           /\ IsFiniteSet(ContractTxs(n, Len(Events(n))))
           /\ last >= Len(Events(n)) =>
                 ContractTxs(n, last) = ContractTxs(n, Len(Events(n)))
           /\ ContractTxs(n, 0) = {}
<1> DEFINE events == Events(n)
           all == ContractTxs(n, Len(events))
<1>1. DOMAIN events = 1 .. Len(events) /\ Len(events) \in Nat
    BY EventsIs
<1>2. \A i \in DOMAIN events : /\ i <= Len(events) /\ ~(i <= 0)
                                /\ last >= Len(events) => i <= last
    BY <1>1
<1>3. all \subseteq 1 .. n
  <2>1. ASSUME NEW i \in DOMAIN events PROVE events[i].tx \in 1 .. n
    <3>1. /\ i \in DOMAIN chain.events /\ events[i] = chain.events[i]
          /\ chain.events[i].tx \in Nat \ {0}
          /\ i \in DOMAIN Events(n) <=> chain.events[i].tx <= n
      BY EventsIs
    <3> QED
      BY <3>1
  <2> QED
    BY <2>1 DEF ContractTxs
<1>4. IsFiniteSet(all)
    BY <1>3, FS_Interval, FS_Subset
<1> QED
    BY <1>2, <1>4 DEF ContractTxs

\* The cache has what was looked up, and no more than it may.
LEMMA CacheStep ==
    ASSUME IInv, CacheInv, [Next]_vars
    PROVE  CacheInv'
<1>1. crashes' \in Nat
    BY DEF CacheInv, vars, Next, Work, MigrateAction, CutOver, Reclaim, CorrelateEvent,
           CorrelatePanics, FinishEvents, DustRound, FinishDust, IndexTx, CheckEnd,
           IndexDustEvent, StartIndexing, IndexBlock, Open, Crash, Stop
<1>2. store.height \in Nat /\ chain \in Chains /\ at \in Nat \ {0}
    BY MaxHeightAssumption DEF IInv, Typed
<1>3. ASSUME task' = "events"
      PROVE  cached' = ContractTxs(store.height, at - 1)' /\ Cardinality(cached') <= CacheLimit
  <2>1. \/ CorrelateEvent
        \/ \E t \in Tasks : Open(t)
        \/ UNCHANGED vars
    BY <1>3, Zenon DEF Next, Work, MigrateAction, CutOver, Reclaim, CorrelatePanics,
           FinishEvents, DustRound, FinishDust, IndexTx, CheckEnd, IndexDustEvent,
           StartIndexing, IndexBlock, Crash, Stop, Complete
  <2>2. CASE CorrelateEvent
    <3> DEFINE event == Events(store.height)[at]
    <3>1. /\ task = "events" /\ at \in DOMAIN Events(store.height)
          /\ at' = at + 1 /\ chain' = chain
          /\ IF event.kind = "contract"
             THEN event.tx \in Cached(event.tx) /\ cached' = Cached(event.tx)
             ELSE cached' = cached
      BY <2>2, Zenon DEF CorrelateEvent
    <3>2. store'.height = store.height
      BY <2>2, CorrelateEventHeight
    <3>3. ContractTxs(store.height, at - 1)' = ContractTxs(store.height, at)
      <4>1. at' - 1 = at
        BY <1>2, <3>1
      <4>2. \A n, e : ContractTxs(n, e)' = ContractTxs(n, e)
        BY <3>1 DEF ContractTxs, Events, UpTo
      <4> QED
        BY <3>2, <4>1, <4>2
    <3>4. ContractTxs(store.height, at)
             = IF event.kind = "contract"
               THEN ContractTxs(store.height, at - 1) \cup {event.tx}
               ELSE ContractTxs(store.height, at - 1)
      BY <1>2, <3>1, ContractTxsGrow
    <3>5. cached = ContractTxs(store.height, at - 1) /\ Cardinality(cached) <= CacheLimit
      BY <3>1 DEF CacheInv
    <3>6. CASE event.kind = "contract"
      <4>1. cached' = cached \cup {event.tx}
        BY <3>1, <3>6 DEF Cached
      <4>2. Cardinality(cached') <= CacheLimit
        <5>1. CASE event.tx \in cached
          BY <3>5, <4>1, <5>1 DEF Cached
        <5>2. CASE event.tx \notin cached
          <6>1. event.tx \in Cached(event.tx)
            BY <3>1, <3>6
          <6>2. ~(Cardinality(cached \cup {event.tx}) > CacheLimit)
            BY <5>2, <6>1 DEF Cached
          <6>3. Cardinality(cached \cup {event.tx}) \in Nat
            <7>1. /\ ContractTxs(store.height, at) \subseteq
                        ContractTxs(store.height, Len(Events(store.height)))
                  /\ IsFiniteSet(ContractTxs(store.height, Len(Events(store.height))))
              BY <1>2, ContractTxsFinite
            <7>2. IsFiniteSet(cached \cup {event.tx})
              BY <3>4, <3>5, <3>6, <7>1, FS_Subset
            <7> QED
              BY <7>2, FS_CardinalityType
          <6> QED
            BY <4>1, <6>2, <6>3, CacheLimitAssumption
        <5> QED
          BY <5>1, <5>2
      <4> QED
        BY <3>3, <3>4, <3>5, <3>6, <4>1, <4>2
    <3>7. CASE event.kind # "contract"
      BY <3>1, <3>3, <3>4, <3>5, <3>7
    <3> QED
      BY <3>6, <3>7
  <2>3. CASE \E t \in Tasks : Open(t)
    <3>1. PICK t \in Tasks : Open(t)
      BY <2>3
    <3>2. t = "events" /\ at' = 1 /\ chain' = chain /\ store'.height = store.height
      BY <1>3, <3>1, OpenEffect DEF Fields, Tasks
    <3>3. cached' = {}
      BY <3>1 DEF Open
    <3>4. ContractTxs(store.height, at - 1)' = ContractTxs(store.height, 0)
      <4>1. \A n, e : ContractTxs(n, e)' = ContractTxs(n, e)
        BY <3>2 DEF ContractTxs, Events, UpTo
      <4> QED
        BY <3>2, <4>1
    <3>5. ContractTxs(store.height, 0) = {}
      BY <1>2, ContractTxsFinite
    <3>6. Cardinality({}) = 0
      BY FS_EmptySet
    <3> QED
      BY <3>3, <3>4, <3>5, <3>6, CacheLimitAssumption
  <2>4. CASE UNCHANGED vars
    <3>1. task' = task /\ cached' = cached /\ at' = at /\ store' = store /\ chain' = chain
      BY <2>4 DEF vars, progress
    <3>2. ContractTxs(store.height, at - 1)' = ContractTxs(store.height, at - 1)
      BY <3>1 DEF ContractTxs, Events, UpTo
    <3> QED
      BY <1>3, <3>1, <3>2 DEF CacheInv
  <2> QED
    BY <2>1, <2>2, <2>3, <2>4
<1> QED
    BY <1>1, <1>3 DEF CacheInv

\* How a run of the event backfill ends that nobody killed.
LEMMA EventsEndByCache ==
    ASSUME IInv, CacheInv, [Next]_vars, EventsEnd
    PROVE  "events" \in done' <=>
              Cardinality(ContractTxs(store.height, Len(Events(store.height)))) <= CacheLimit
<1> DEFINE n == store.height
           all == ContractTxs(n, Len(Events(n)))
<1>1. /\ task = "events" /\ task' = "down" /\ crashes' = crashes
      /\ cached = ContractTxs(n, at - 1) /\ Cardinality(cached) <= CacheLimit
    BY DEF EventsEnd, CacheInv
<1>2. n \in Nat /\ chain \in Chains /\ at \in Nat \ {0} /\ "events" \notin done
    BY <1>1, MaxHeightAssumption DEF IInv, Typed, FrameInv, Tasks
<1>3. FinishEvents \/ CorrelatePanics
  <2>1. ~Crash
    BY <1>1 DEF Crash, CacheInv
  <2>2. ~UNCHANGED vars /\ \A t \in Tasks : ~Open(t)
    BY <1>1 DEF vars, progress, Open
  <2> QED
    BY <1>1, <2>1, <2>2 DEF Next, Work, MigrateAction, CutOver, Reclaim,
       CorrelateEvent, DustRound, FinishDust, IndexTx, CheckEnd, IndexDustEvent,
       StartIndexing, IndexBlock, Stop
<1>4. DOMAIN Events(n) = 1 .. Len(Events(n)) /\ Len(Events(n)) \in Nat
    BY <1>2, EventsIs
<1>5. IsFiniteSet(all) /\ Cardinality(all) \in Nat
    BY <1>2, ContractTxsFinite, FS_CardinalityType
<1>6. CASE FinishEvents
  <2>1. at \notin DOMAIN Events(n) /\ "events" \in done'
    BY <1>6 DEF FinishEvents
  <2>2. at - 1 \in Nat /\ at - 1 >= Len(Events(n))
    BY <1>2, <1>4, <2>1
  <2>3. cached = all
    BY <1>1, <1>2, <2>2, ContractTxsFinite
  <2> QED
    BY <1>1, <2>1, <2>3
<1>7. CASE CorrelatePanics
  <2> DEFINE event == Events(n)[at]
  <2>1. /\ at \in DOMAIN Events(n) /\ event.kind = "contract"
        /\ event.tx \notin Cached(event.tx) /\ done' = done
    BY <1>7 DEF CorrelatePanics
  <2>2. Cardinality(cached \cup {event.tx}) > CacheLimit
    BY <2>1 DEF Cached
  <2>3. cached \cup {event.tx} = ContractTxs(n, at)
    BY <1>1, <1>2, <2>1, ContractTxsGrow
  <2>4. ContractTxs(n, at) \subseteq all
    BY <1>2, ContractTxsFinite
  <2>5. Cardinality(ContractTxs(n, at)) \in Nat
        /\ Cardinality(ContractTxs(n, at)) <= Cardinality(all)
    BY <1>5, <2>4, FS_Subset, FS_CardinalityType
  <2> HIDE DEF all
  <2>6. ~(Cardinality(all) <= CacheLimit)
    BY <1>5, <2>2, <2>3, <2>5, CacheLimitAssumption
  <2> QED
    BY <1>2, <2>1, <2>6 DEF all
<1> QED
    BY <1>3, <1>6, <1>7

\* Theorem: whether the event backfill goes through is decided by the store
\* alone: if and only if its transactions with contract events fit in the
\* cache.  Beyond that, backfill_contract_events panics in every run.
THEOREM EventsGoThroughInCache == Spec => EventsGoThrough
<1>1. Init => CacheInv
    BY DEF Init, CacheInv
<1>2. Spec => []CacheInv
    BY <1>1, CacheStep, Invariant, PTL DEF Spec
<1>3. IInv /\ CacheInv /\ [Next]_vars =>
         (EventsEnd => LET n == store.height
                       IN  "events" \in done' <=>
                              Cardinality(ContractTxs(n, Len(Events(n)))) <= CacheLimit)
    BY EventsEndByCache
<1> QED
    BY <1>2, <1>3, Invariant, PTL DEF Spec, EventsGoThrough

\* Theorem: after the rebuild, and while blocks are indexed, dust generation
\* has the rows of each UTXO's last event and no others.
THEOREM DustStaysExact == Spec => []DustExact
<1>1. IInv => DustExact
    BY DEF IInv, DustInv
<1> QED
    BY <1>1, Invariant, PTL

\* Theorem: the wallet indexes are exact up to their marks, the final check
\* never fails, and the indexer starts with all of them.
THEOREM SidecarsStayExact == Spec => []SidecarsExact
<1>1. IInv => SidecarsExact
  <2> SUFFICES ASSUME IInv PROVE SidecarsExact
    OBVIOUS
  <2>1. store.height \in Nat /\ chain \in Chains
    BY MaxHeightAssumption DEF IInv, Typed
  <2>2. /\ DOMAIN Events(store.height) = 1 .. Len(Events(store.height))
        /\ Len(Events(store.height)) \in Nat
    BY <2>1, EventsIs
  <2>3. Sidecars(store) /\ SidecarsInv
    BY DEF IInv, SidecarsInv
  <2>4. store.walletDust
           = {e \in 1 .. store.dustThrough : IsDust(Events(store.height)[e])}
    <3>1. /\ store.walletDust = {e \in WalletEvents(store.height) : e <= store.dustThrough}
          /\ store.dustThrough \in 0 .. Len(Events(store.height))
      BY <2>3 DEF Sidecars
    <3>2. \A e \in 1 .. store.dustThrough :
             e \in DOMAIN Events(store.height) /\ e <= store.dustThrough
      BY <2>2, <3>1
    <3>3. \A e \in DOMAIN Events(store.height) :
             e <= store.dustThrough => e \in 1 .. store.dustThrough
      BY <2>2, <3>1
    <3> QED
      BY <3>1, <3>2, <3>3 DEF WalletEvents
  <2>5. task # "failed"
    BY DEF IInv, Typed, Tasks
  <2> QED
    BY <2>3, <2>4, <2>5 DEF SidecarsExact, SidecarsInv, Sidecars
<1> QED
    BY <1>1, Invariant, PTL

\* Theorem: no commit of any task takes away a dust row that stays.
THEOREM DustRowsAreKept == Spec => DustRowsStay
<1>1. IInv /\ [Next]_vars => \A e \in DOMAIN Events(store.height) :
          LET event == Events(store.height)[e] IN
          IsGeneration(event) =>
             /\ event.of \in DOMAIN store.dustGen => event.of \in DOMAIN store'.dustGen
             /\ event.of \in store.dustByOwner => event.of \in store'.dustByOwner
  <2> SUFFICES ASSUME IInv, [Next]_vars,
                      NEW e \in DOMAIN Events(store.height),
                      IsGeneration(Events(store.height)[e]), NEW k, k = Events(store.height)[e].of
               PROVE  /\ k \in DOMAIN store.dustGen => k \in DOMAIN store'.dustGen
                      /\ k \in store.dustByOwner => k \in store'.dustByOwner
    OBVIOUS
  <2>1. k \in DustKeys(store.height)
    BY DEF DustKeys, DustEvents
  <2>2. DustStays
    BY NextInv, StutterInv
  <2> QED
    BY <2>1, <2>2 DEF DustStays
<1> QED
    BY <1>1, Invariant, PTL DEF Spec, DustRowsStay

=============================================================================
