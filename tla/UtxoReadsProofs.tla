--------------------------- MODULE UtxoReadsProofs ---------------------------
(***************************************************************************)
(* Proofs, for every set of UTXOs, accounts and amounts and every number   *)
(* of transactions and process deaths: first, that the unspent index, the  *)
(* balances and the address history are exact, that no spent UTXO is ever  *)
(* missing, and that only a balance past the signed limit fails a block;   *)
(* then, that the pages of an owner's UTXOs are exact while they change.   *)
(***************************************************************************)
EXTENDS UtxoReads, SequenceTheorems, FiniteSetTheorems, FunctionTheorems,
        WellFoundedInduction, TLAPS

(* Sums over a set: the fold takes its elements in an order of its choosing *)

\* Induction, of a set: one with 0 and the successors of its numbers has all.
LEMMA AllNumbers ==
    ASSUME NEW T \in SUBSET Nat, 0 \in T, \A n \in T : n + 1 \in T
    PROVE  T = Nat
<1> SUFFICES ASSUME Nat \ T # {} PROVE FALSE
  OBVIOUS
<1> DEFINE R == OpToRel(<, Nat)
<1>1. PICK x \in Nat \ T : \A y \in Nat \ T : ~(<<y, x>> \in R)
  <2>1. Nat \ T \subseteq Nat
    OBVIOUS
  <2> QED
    BY <2>1, NatLessThanWellFounded, WFMin
<1>2. x \in Nat \ {0} /\ x - 1 \in Nat /\ x - 1 < x /\ (x - 1) + 1 = x
  OBVIOUS
<1>3. x - 1 \in T
  BY <1>1, <1>2 DEF OpToRel
<1> QED
  BY <1>2, <1>3

\* The sum of v over the sets of a finite set, as the fold unrolls it.
Unrolls(g, U, v) ==
    \A s \in SUBSET U : 
       g[s] = IF s = {} THEN 0
              ELSE v[CHOOSE x \in s : TRUE] + g[s \ {CHOOSE x \in s : TRUE}]

\* Taking an element leaves one less.
LEMMA Picked ==
    ASSUME NEW s, s # {}, IsFiniteSet(s)
    PROVE  /\ (CHOOSE x \in s : TRUE) \in s
           /\ IsFiniteSet(s \ {CHOOSE x \in s : TRUE})
           /\ Cardinality(s) \in Nat \ {0}
           /\ Cardinality(s \ {CHOOSE x \in s : TRUE}) = Cardinality(s) - 1
<1>1. (CHOOSE x \in s : TRUE) \in s
  OBVIOUS
<1>2. IsFiniteSet(s \ {CHOOSE x \in s : TRUE})
         /\ Cardinality(s \ {CHOOSE x \in s : TRUE}) = Cardinality(s) - 1
  BY <1>1, FS_RemoveElement
<1>3. Cardinality(s) \in Nat \ {0}
  BY FS_CardinalityType, FS_EmptySet
<1> QED
  BY <1>1, <1>2, <1>3

\* Such a sum exists: for sets of ever more elements.
LEMMA UnrolledExists ==
    ASSUME NEW U, IsFiniteSet(U), NEW v \in [U -> Nat]
    PROVE  \E g \in [SUBSET U -> Nat] : Unrolls(g, U, v)
<1> DEFINE Small(n) == {s \in SUBSET U : Cardinality(s) <= n}
           next(s) == s \ {CHOOSE x \in s : TRUE}
           Upto(g, n) == \A s \in Small(n) :
              g[s] = IF s = {} THEN 0 ELSE v[CHOOSE x \in s : TRUE] + g[next(s)]
           T == {n \in Nat : \E g \in [SUBSET U -> Nat] : Upto(g, n)}
<1>1. \A s \in SUBSET U : IsFiniteSet(s) /\ Cardinality(s) \in Nat
  BY FS_Subset, FS_CardinalityType
<1>2. \A s \in SUBSET U : s # {} =>
         /\ (CHOOSE x \in s : TRUE) \in s /\ next(s) \in SUBSET U
         /\ Cardinality(s) \in Nat \ {0} /\ Cardinality(next(s)) = Cardinality(s) - 1
  BY <1>1, Picked
<1>3. 0 \in T
  <2> DEFINE g == [s \in SUBSET U |-> 0]
  <2>1. g \in [SUBSET U -> Nat]
    OBVIOUS
  <2>2. ASSUME NEW s \in Small(0), s # {} PROVE FALSE
    <3>1. Cardinality(s) <= 0 /\ s \in SUBSET U
      OBVIOUS
    <3>2. Cardinality(s) \in Nat \ {0}
      BY <1>2, <2>2
    <3> QED
      BY <3>1, <3>2
  <2>3. Upto(g, 0)
    BY <2>2
  <2> QED
    BY <2>1, <2>3
<1>4. ASSUME NEW n \in T PROVE n + 1 \in T
  <2>1. PICK f \in [SUBSET U -> Nat] : Upto(f, n)
    OBVIOUS
  <2> DEFINE g == [s \in SUBSET U |-> IF Cardinality(s) <= n \/ s = {} THEN f[s]
                                      ELSE v[CHOOSE x \in s : TRUE] + f[next(s)]]
  <2> HIDE DEF next
  <2>2. g \in [SUBSET U -> Nat]
    <3>1. ASSUME NEW s \in SUBSET U, s # {} PROVE v[CHOOSE x \in s : TRUE] + f[next(s)] \in Nat
      <4>1. v[CHOOSE x \in s : TRUE] \in Nat /\ f[next(s)] \in Nat
        BY <1>2, <3>1
      <4> QED
        BY <4>1
    <3> QED
      BY <3>1
  <2>3. ASSUME NEW s \in Small(n + 1), s # {}
        PROVE  g[s] = v[CHOOSE x \in s : TRUE] + g[next(s)]
    <3>1. /\ next(s) \in SUBSET U /\ Cardinality(next(s)) = Cardinality(s) - 1
          /\ Cardinality(s) \in Nat
      BY <1>2, <2>3
    <3>2. Cardinality(next(s)) <= n /\ n \in Nat
      BY <3>1
    <3>3. g[next(s)] = f[next(s)]
      BY <3>1, <3>2
    <3>4. g[s] = v[CHOOSE x \in s : TRUE] + f[next(s)]
      <4>1. CASE Cardinality(s) <= n
        <5>1. s \in Small(n) /\ g[s] = f[s]
          BY <4>1
        <5> QED
          BY <2>1, <2>3, <5>1
      <4>2. CASE ~(Cardinality(s) <= n)
        BY <4>2, <2>3
      <4> QED
        BY <4>1, <4>2
    <3> QED
      BY <3>3, <3>4
  <2>4. g[{}] = 0
    <3>1. {} \in Small(n) /\ n \in Nat
      BY FS_EmptySet
    <3> QED
      BY <2>1, <3>1
  <2>5. Upto(g, n + 1)
    <3> HIDE DEF g, Small
    <3> QED
      BY <2>3, <2>4
  <2> HIDE DEF g, Upto
  <2> QED
    BY <2>2, <2>5
<1>5. T = Nat
  <2>1. T \in SUBSET Nat
    OBVIOUS
  <2> HIDE DEF T
  <2> QED
    BY <1>3, <1>4, <2>1, AllNumbers
<1>6. Cardinality(U) \in T
  BY <1>5, FS_CardinalityType
<1>7. PICK g \in [SUBSET U -> Nat] : Upto(g, Cardinality(U))
  BY <1>6
<1>8. \A s \in SUBSET U : s \in Small(Cardinality(U))
  BY FS_Subset
<1> QED
  BY <1>7, <1>8 DEF Unrolls

\* In whichever order the elements are taken, the sum is the same.
LEMMA UnrolledRemove ==
    ASSUME NEW U, IsFiniteSet(U), NEW v \in [U -> Nat], NEW g \in [SUBSET U -> Nat],
           Unrolls(g, U, v), NEW s \in SUBSET U, NEW u \in s
    PROVE  g[s] = v[u] + g[s \ {u}]
<1> DEFINE Good(t) == \A w \in t : g[t] = v[w] + g[t \ {w}]
           T == {n \in Nat : \A t \in SUBSET U : Cardinality(t) = n => Good(t)}
<1>1. \A t \in SUBSET U : IsFiniteSet(t) /\ Cardinality(t) \in Nat
  BY FS_Subset, FS_CardinalityType
<1>2. 0 \in T
  <2>1. \A t \in SUBSET U : Cardinality(t) = 0 => t = {}
    BY <1>1, FS_EmptySet
  <2>2. Good({})
    OBVIOUS
  <2> HIDE DEF Good
  <2> QED
    BY <2>1, <2>2
<1>3. ASSUME NEW n \in T PROVE n + 1 \in T
  <2>1. \A t \in SUBSET U : Cardinality(t) = n => Good(t)
    OBVIOUS
  <2>2. ASSUME NEW t \in SUBSET U, Cardinality(t) = n + 1, NEW w \in t
        PROVE  g[t] = v[w] + g[t \ {w}]
    <3> DEFINE x == CHOOSE y \in t : TRUE
    <3>1. x \in t /\ g[t] = v[x] + g[t \ {x}]
      BY DEF Unrolls
    <3> HIDE DEF x
    <3>2. CASE x = w
      BY <3>1, <3>2
    <3>3. CASE x # w
      <4>1. /\ t \ {x} \in SUBSET U /\ Cardinality(t \ {x}) = n /\ w \in t \ {x}
            /\ t \ {w} \in SUBSET U /\ Cardinality(t \ {w}) = n /\ x \in t \ {w}
            /\ t \ {x, w} \in SUBSET U
        <5>1. n \in Nat /\ IsFiniteSet(t)
          BY <1>1
        <5>2. Cardinality(t \ {x}) = Cardinality(t) - 1
          BY <3>1, <5>1, FS_RemoveElement
        <5>3. Cardinality(t \ {w}) = Cardinality(t) - 1
          BY <5>1, FS_RemoveElement
        <5> QED
          BY <2>2, <3>1, <3>3, <5>1, <5>2, <5>3
      <4>2. (t \ {x}) \ {w} = t \ {x, w} /\ (t \ {w}) \ {x} = t \ {x, w}
        OBVIOUS
      <4>3. g[t \ {x}] = v[w] + g[t \ {x, w}]
        BY <2>1, <4>1, <4>2
      <4>4. g[t \ {w}] = v[x] + g[t \ {x, w}]
        BY <2>1, <4>1, <4>2
      <4>5. v[x] \in Nat /\ v[w] \in Nat /\ g[t \ {x, w}] \in Nat
        BY <3>1, <4>1
      <4> QED
        BY <3>1, <4>3, <4>4, <4>5
    <3> QED
      BY <3>2, <3>3
  <2>3. \A t \in SUBSET U : Cardinality(t) = n + 1 => Good(t)
    BY <2>2
  <2>4. n + 1 \in Nat
    OBVIOUS
  <2> HIDE DEF Good
  <2> QED
    BY <2>3, <2>4
<1>4. T = Nat
  <2>1. T \in SUBSET Nat
    OBVIOUS
  <2> HIDE DEF T
  <2> QED
    BY <1>2, <1>3, <2>1, AllNumbers
<1>5. Cardinality(s) \in T
  BY <1>1, <1>4
<1>6. Good(s)
  <2> HIDE DEF Good
  <2> QED
    BY <1>5
<1> QED
  BY <1>6

\* The sums of a set and of a larger one agree on what they have in common.
LEMMA UnrolledUnique ==
    ASSUME NEW U, IsFiniteSet(U), NEW v, NEW g, Unrolls(g, U, v),
           NEW R \in SUBSET U, NEW f, Unrolls(f, R, v)
    PROVE  \A s \in SUBSET R : f[s] = g[s]
<1> DEFINE T == {n \in Nat : \A t \in SUBSET R : Cardinality(t) = n => f[t] = g[t]}
           next(t) == t \ {CHOOSE y \in t : TRUE}
<1>1. \A t \in SUBSET R : IsFiniteSet(t) /\ Cardinality(t) \in Nat /\ t \in SUBSET U
  BY FS_Subset, FS_CardinalityType
<1>2. f[{}] = 0 /\ g[{}] = 0
  BY DEF Unrolls
<1>3. 0 \in T
  <2>1. \A t \in SUBSET R : Cardinality(t) = 0 => t = {}
    BY <1>1, FS_EmptySet
  <2> QED
    BY <1>2, <2>1
<1>4. ASSUME NEW n \in T PROVE n + 1 \in T
  <2>1. ASSUME NEW t \in SUBSET R, Cardinality(t) = n + 1 PROVE f[t] = g[t]
    <3>1. n \in Nat /\ t # {}
      BY <2>1, FS_EmptySet
    <3>2. next(t) \in SUBSET R /\ Cardinality(next(t)) = n
      BY <1>1, <2>1, <3>1, Picked
    <3>3. f[next(t)] = g[next(t)]
      BY <3>2
    <3>4. f[t] = v[CHOOSE y \in t : TRUE] + f[next(t)]
      BY <3>1, Zenon DEF Unrolls
    <3>5. g[t] = v[CHOOSE y \in t : TRUE] + g[next(t)]
      BY <1>1, <3>1, Zenon DEF Unrolls
    <3> QED
      BY <3>3, <3>4, <3>5
  <2> QED
    BY <2>1
<1>5. T = Nat
  <2>1. T \in SUBSET Nat
    OBVIOUS
  <2> HIDE DEF T
  <2> QED
    BY <1>3, <1>4, <2>1, AllNumbers
<1> QED
  BY <1>1, <1>5

\* What an account holds is such a sum.
LEMMA TotalIs ==
    ASSUME IsFiniteSet(Utxo), value \in [Utxo -> Nat], NEW g \in [SUBSET Utxo -> Nat],
           Unrolls(g, Utxo, value), NEW D \in SUBSET Utxo, NEW a
    PROVE  Sum(D, a) = g[{u \in D : owner[u] = a}]
<1> DEFINE U == Utxo
           v == value
           R == {u \in D : owner[u] = a}
           Unrolled(h) ==
              [s \in SUBSET R |-> IF s = {} THEN 0
                 ELSE v[CHOOSE x \in s : TRUE] + h[s \ {CHOOSE x \in s : TRUE}]]
           iter == CHOOSE h : h = Unrolled(h)
           r == [s \in SUBSET R |-> g[s]]
<1>1. Sum(D, a) = iter[R]
  BY DEF Sum, MapThenSumSet, MapThenFoldSet
<1> R \in SUBSET U
  OBVIOUS
<1> HIDE DEF R
<1>2. r = Unrolled(r)
  <2>1. ASSUME NEW s \in SUBSET R
        PROVE  r[s] = IF s = {} THEN 0
                 ELSE v[CHOOSE x \in s : TRUE] + r[s \ {CHOOSE x \in s : TRUE}]
    <3>1. s \in SUBSET U /\ s \ {CHOOSE x \in s : TRUE} \in SUBSET R
      OBVIOUS
    <3> QED
      BY <3>1 DEF Unrolls
  <2> QED
    BY <2>1
<1>3. iter = Unrolled(iter)
  <2> HIDE DEF Unrolled, r
  <2> QED
    BY <1>2
<1>4. Unrolls(iter, R, v)
  <2> HIDE DEF iter
  <2> QED
    BY <1>3, Zenon DEF Unrolls
<1> HIDE DEF iter
<1>5. \A s \in SUBSET R : iter[s] = g[s]
  BY <1>4, UnrolledUnique
<1>6. R \in SUBSET R
  OBVIOUS
<1> QED
  BY <1>1, <1>5, <1>6 DEF R

\* The sum of two sets without common elements.
LEMMA UnrolledUnion ==
    ASSUME NEW U, IsFiniteSet(U), NEW v \in [U -> Nat], NEW g \in [SUBSET U -> Nat],
           Unrolls(g, U, v), NEW A \in SUBSET U, NEW B \in SUBSET U, A \cap B = {}
    PROVE  g[A \cup B] = g[A] + g[B]
<1> DEFINE T == {n \in Nat : \A t \in SUBSET B : Cardinality(t) = n => g[A \cup t] = g[A] + g[t]}
<1>1. \A t \in SUBSET B : IsFiniteSet(t) /\ Cardinality(t) \in Nat
  BY FS_Subset, FS_CardinalityType
<1>2. g[{}] = 0 /\ g[A] \in Nat
  BY DEF Unrolls
<1>3. 0 \in T
  <2>1. ASSUME NEW t \in SUBSET B, Cardinality(t) = 0 PROVE g[A \cup t] = g[A] + g[t]
    <3>1. t = {}
      BY <1>1, <2>1, FS_EmptySet
    <3>2. A \cup t = A
      BY <3>1
    <3> QED
      BY <1>2, <3>1, <3>2
  <2> QED
    BY <2>1
<1>4. ASSUME NEW n \in T PROVE n + 1 \in T
  <2>1. ASSUME NEW t \in SUBSET B, Cardinality(t) = n + 1 PROVE g[A \cup t] = g[A] + g[t]
    <3>1. n \in Nat
      OBVIOUS
    <3>2. PICK u \in t : TRUE
      <4>1. t # {}
        BY <2>1, <3>1, FS_EmptySet
      <4> QED
        BY <4>1
    <3>3. Cardinality(t \ {u}) = n
      BY <1>1, <2>1, <3>1, <3>2, FS_RemoveElement, SMTT(30)
    <3>4. g[A \cup (t \ {u})] = g[A] + g[t \ {u}]
      BY <3>3
    <3>5. g[t] = v[u] + g[t \ {u}]
      <4>1. t \in SUBSET U /\ u \in t
        BY <3>2
      <4> QED
        BY <4>1, UnrolledRemove
    <3>6. u \in A \cup t /\ A \cup t \in SUBSET U /\ (A \cup t) \ {u} = A \cup (t \ {u})
      BY <3>2
    <3>7. g[A \cup t] = v[u] + g[A \cup (t \ {u})]
      <4>1. ASSUME NEW s \in SUBSET U, NEW w \in s PROVE g[s] = v[w] + g[s \ {w}]
        BY UnrolledRemove
      <4> QED
        BY <3>6, <4>1
    <3>8. v[u] \in Nat /\ g[t \ {u}] \in Nat
      BY <3>2
    <3> QED
      BY <1>2, <3>4, <3>5, <3>7, <3>8
  <2> QED
    BY <2>1
<1>5. T = Nat
  <2>1. T \in SUBSET Nat
    OBVIOUS
  <2> HIDE DEF T
  <2> QED
    BY <1>3, <1>4, <2>1, AllNumbers
<1>6. Cardinality(B) \in T
  BY <1>1, <1>5
<1> QED
  BY <1>6

\* What accounts hold adds up.
LEMMA SumIs ==
    ASSUME IsFiniteSet(Utxo), value \in [Utxo -> Nat]
    PROVE  /\ \A R \in SUBSET Utxo : \A a : Sum(R, a) \in Nat
           /\ \A R, T \in SUBSET Utxo : \A a :
                 R \cap T = {} => Sum(R \cup T, a) = Sum(R, a) + Sum(T, a)
           /\ \A a : Sum({}, a) = 0
<1>1. PICK g \in [SUBSET Utxo -> Nat] : Unrolls(g, Utxo, value)
  BY UnrolledExists
<1>2. ASSUME NEW P \in SUBSET Utxo, NEW Q \in SUBSET Utxo, P \cap Q = {}
      PROVE  g[P \cup Q] = g[P] + g[Q]
  <2> DEFINE v == value
             U == Utxo
  <2>1. v \in [U -> Nat] /\ IsFiniteSet(U) /\ g \in [SUBSET U -> Nat] /\ Unrolls(g, U, v)
    BY <1>1
  <2>2. P \in SUBSET U /\ Q \in SUBSET U
    OBVIOUS
  <2> HIDE DEF v, U
  <2> QED
    BY <1>2, <2>1, <2>2, UnrolledUnion
<1> DEFINE Of(R, a) == {u \in R : owner[u] = a}
<1>3. \A R \in SUBSET Utxo : \A a : Sum(R, a) = g[Of(R, a)] /\ Of(R, a) \in SUBSET Utxo
  <2>1. ASSUME NEW R \in SUBSET Utxo, NEW a
        PROVE  Sum(R, a) = g[Of(R, a)] /\ Of(R, a) \in SUBSET Utxo
    <3>1. Of(R, a) \in SUBSET Utxo
      OBVIOUS
    <3>2. Sum(R, a) = g[Of(R, a)]
      BY <1>1, TotalIs
    <3> QED
      BY <3>1, <3>2
  <2> QED
    BY <2>1
<1>4. ASSUME NEW R \in SUBSET Utxo, NEW T \in SUBSET Utxo, NEW a, R \cap T = {}
      PROVE  Sum(R \cup T, a) = Sum(R, a) + Sum(T, a)
  <2>1. Of(R \cup T, a) = Of(R, a) \cup Of(T, a) /\ Of(R, a) \cap Of(T, a) = {}
    BY <1>4
  <2>2. R \cup T \in SUBSET Utxo
    OBVIOUS
  <2> HIDE DEF Of
  <2>3. g[Of(R, a) \cup Of(T, a)] = g[Of(R, a)] + g[Of(T, a)]
    <3>1. Of(R, a) \in SUBSET Utxo /\ Of(T, a) \in SUBSET Utxo
      BY <1>3
    <3> QED
      BY <1>2, <2>1, <3>1
  <2> QED
    BY <1>3, <2>1, <2>2, <2>3
<1>5. \A a : Sum({}, a) = 0
  <2>1. \A a : Of({}, a) = {}
    OBVIOUS
  <2>2. g[{}] = 0
    BY <1>1 DEF Unrolls
  <2> HIDE DEF Of
  <2> QED
    BY <1>3, <2>1, <2>2
<1>6. \A R \in SUBSET Utxo : \A a : Sum(R, a) \in Nat
  <2>1. ASSUME NEW R \in SUBSET Utxo, NEW a PROVE Sum(R, a) \in Nat
    <3> HIDE DEF Of
    <3>1. Of(R, a) \in SUBSET Utxo /\ Sum(R, a) = g[Of(R, a)]
      BY <1>3
    <3> QED
      BY <1>1, <3>1
  <2> QED
    BY <2>1
<1> QED
  BY <1>4, <1>5, <1>6

\* The amounts of the same UTXOs are the same.
LEMMA SameSum ==
    ASSUME NEW R, NEW T, NEW a, {u \in R : owner[u] = a} = {u \in T : owner[u] = a}
    PROVE  Sum(R, a) = Sum(T, a)
BY DEF Sum

(* Words *)

\* Numbers are the same word if they differ by a multiple of the modulus.
LEMMA SameWord ==
    ASSUME NEW M \in Nat \ {0}, NEW x \in Int, NEW y \in Int
    PROVE  /\ x % M \in 0 .. M - 1
           /\ (\E k \in Int : x = y + M * k) <=> x % M = y % M
<1> DEFINE p == x \div M
           q == y \div M
           c == x % M
           d == y % M
<1>1. /\ c \in 0 .. M - 1 /\ d \in 0 .. M - 1
      /\ p \in Int /\ q \in Int
  OBVIOUS
<1>2. c = x - M * p /\ d = y - M * q
  <2>1. c = x - M * p
    OBVIOUS
  <2>2. d = y - M * q
    OBVIOUS
  <2> QED
    BY <2>1, <2>2
<1> HIDE DEF p, q, c, d
<1>3. M * p \in Int /\ M * q \in Int
  BY <1>1
<1>4. ASSUME c = d PROVE \E k \in Int : x = y + M * k
  <2>1. p - q \in Int /\ M * (p - q) = M * p - M * q
    BY <1>1
  <2>2. x = y + (M * p - M * q)
    BY <1>1, <1>2, <1>3, <1>4
  <2> QED
    BY <2>1, <2>2
<1>5. ASSUME NEW k \in Int, x = y + M * k PROVE c = d
  <2>1. (q + k) - p \in Int /\ M * ((q + k) - p) = M * q + M * k - M * p /\ M * k \in Int
    BY <1>1
  <2>2. c = d + (M * q + M * k - M * p)
    BY <1>1, <1>2, <1>3, <1>5, <2>1
  <2> DEFINE r == (q + k) - p
  <2>3. r \in Int /\ c = d + M * r
    BY <2>1, <2>2
  <2> HIDE DEF r
  <2> QED
    BY <1>1, <2>3
<1> QED
  BY <1>1, <1>4, <1>5 DEF c, d

\* The same for words of the amounts' width, in either direction.
LEMMA WordsDiffer ==
    ASSUME NEW x \in Int, NEW y \in Int, x % Modulus = y % Modulus
    PROVE  \E k \in Int : x = y + Modulus * k
BY SameWord, ModulusAssumption

\* Adding multiples of the modulus leaves a word the same.
LEMMA WordsAgree ==
    ASSUME NEW x \in Int, NEW y \in Int, NEW k \in Int, x = y + Modulus * k
    PROVE  x % Modulus = y % Modulus
BY SameWord, ModulusAssumption

\* Reading a word as a signed one leaves it the same word.
LEMMA SignedIs ==
    ASSUME NEW n \in Int
    PROVE  /\ Signed(n) \in Int /\ Signed(n) < Modulus
           /\ Signed(n) % Modulus = n % Modulus
           /\ n % Modulus < Modulus \div 2 => Signed(n) >= 0
<1>1. Modulus \in Nat \ {0} /\ Modulus \in Int
  BY ModulusAssumption
<1> DEFINE w == n % Modulus
<1>2. w \in 0 .. Modulus - 1 /\ w % Modulus = w
  <2>1. w \in 0 .. Modulus - 1
    BY <1>1
  <2> HIDE DEF w
  <2> QED
    BY <1>1, <2>1
<1>3. Signed(n) = IF w >= Modulus \div 2 THEN w - Modulus ELSE w
  BY DEF Signed
<1>4. (w - Modulus) % Modulus = w % Modulus
  <2>1. w \in Int /\ w - Modulus \in Int /\ w - Modulus = w + Modulus * (-1) /\ -1 \in Int
    BY <1>1, <1>2
  <2> HIDE DEF w
  <2> QED
    BY <1>1, <2>1, SameWord
<1>5. Signed(n) % Modulus = w
  <2> HIDE DEF w
  <2> QED
    BY <1>2, <1>3, <1>4
<1> HIDE DEF w
<1>6. Modulus \div 2 \in Int
  BY <1>1
<1>7. Signed(n) \in Int /\ Signed(n) < Modulus
  BY <1>1, <1>2, <1>3
<1>8. w < Modulus \div 2 => Signed(n) >= 0
  BY <1>2, <1>3, <1>6
<1> QED
  BY <1>5, <1>7, <1>8 DEF w

(* The index *)

\* None is no transaction id.
LEMMA NoneIsNoTx == None \notin TxId /\ TxId \subseteq Nat
BY MaxTxsAssumption DEF None, TxId

\* What is known of sums in every state of the invariant.
LEMMA Sums ==
    ASSUME Typed
    PROVE  /\ \A R \in SUBSET Utxo : \A a : Sum(R, a) \in Nat
           /\ \A R, T \in SUBSET Utxo : \A a :
                 R \cap T = {} => Sum(R \cup T, a) = Sum(R, a) + Sum(T, a)
           /\ \A a : Sum({}, a) = 0
<1>1. value \in [Utxo -> Nat]
  <2>1. Values \subseteq Nat
    BY ValuesAssumption, ModulusAssumption DEF Modulus
  <2> QED
    BY <2>1 DEF Typed
<1> QED
  BY <1>1, SumIs, UtxoAssumption

\* The UTXOs of the ledger that are unspent.
Live == {u \in Utxo : ledger[u] = "live"}

\* A step that changes none of it keeps the invariant of balances.
LEMMA BalanceStays ==
    ASSUME BalanceInv, UNCHANGED <<owner, value, unspent, ledger, balances, deltas, touched>>
    PROVE  BalanceInv'
<1>1. \A a : Sum(unspent, a)' = Sum(unspent, a)
  BY DEF Sum, MapThenSumSet, MapThenFoldSet
<1>2. \A a : Sum({u \in Utxo : ledger[u] = "live"}, a)'
                = Sum({u \in Utxo : ledger[u] = "live"}, a)
  BY DEF Sum, MapThenSumSet, MapThenFoldSet
<1> QED
  BY <1>1, <1>2 DEF BalanceInv, Changed

\* A block that leaves no batch behind.
LEMMA BalanceSettled ==
    ASSUME Typed, UNCHANGED <<owner, value>>, NEW U, U \in SUBSET Utxo,
           unspent' = U, U = {u \in Utxo : ledger'[u] = "live"},
           \A a \in Account : balances'[a] = Sum(U, a) % Modulus, NoBlock
    PROVE  BalanceInv'
<1>1. deltas' = [a \in Account |-> 0]
  BY DEF NoBlock
<1>2. \A a \in Account : (Sum(U, a) + deltas'[a]) % Modulus = Sum(U, a) % Modulus
  <2>1. \A a \in Account : Sum(U, a) \in Nat
    BY Sums
  <2>2. \A a \in Account : Sum(U, a) + deltas'[a] = Sum(U, a)
    BY <1>1, <2>1
  <2> QED
    BY <2>2
<1>3. \A a : Sum(unspent, a)' = Sum(U, a)
  BY DEF Sum, MapThenSumSet, MapThenFoldSet
<1>4. \A a : Sum({u \in Utxo : ledger[u] = "live"}, a)' = Sum(U, a)
  BY DEF Sum, MapThenSumSet, MapThenFoldSet
<1> QED
  BY <1>2, <1>3, <1>4 DEF BalanceInv

\* A fresh store satisfies the invariant.
LEMMA InitInv == Init => IInv
<1> SUFFICES ASSUME Init PROVE IInv
  OBVIOUS
<1>1. DOMAIN Empty = {} /\ Empty \in [{} -> UtxoRecord] /\ Empty \in [{} -> BOOLEAN]
  BY DEF Empty
<1>2. Typed
  BY <1>1, MaxTxsAssumption, ModulusAssumption DEF Init, Typed
<1>3. StatusInv
  BY <1>1 DEF Init, StatusInv
<1>4. HistoryInv
  BY <1>1 DEF Init, HistoryInv
<1>5. LookupsSucceed
  BY DEF Init, LookupsSucceed
<1>6. BalanceInv
  <2>1. Live = {} /\ unspent = {}
    BY DEF Init, Live
  <2>2. \A a : Sum(Live, a) = 0 /\ Sum(unspent, a) = 0
    BY <1>2, <2>1, Sums
  <2>3. 0 % Modulus = 0
    BY ModulusAssumption
  <2>4. \A a \in Account : balances[a] = 0 /\ deltas[a] = 0
    BY DEF Init
  <2>5. \A a \in Account : {u \in Live : owner[u] = a} = {u \in unspent : owner[u] = a}
    BY <2>1
  <2> QED
    BY <2>2, <2>3, <2>4, <2>5 DEF BalanceInv, Live
<1> QED
  BY <1>2, <1>3, <1>4, <1>5, <1>6 DEF IInv

\* The UTXOs a transaction spends are found, in the cache or in the store.
LEMMA SpentKnown ==
    ASSUME IInv,
           NEW C \in SUBSET {u \in Utxo : ledger[u] = "new"},
           NEW S \in SUBSET ({u \in Utxo : ledger[u] = "live"} \cup C)
    PROVE  \A u \in S : Known(u, CacheWith(C))
BY DEF IInv, Typed, StatusInv, Known, CacheWith

\* What a transaction leaves in the batch keeps the invariant.
LEMMA AddTransactionInv == IInv /\ AddTransaction => IInv'
<1> SUFFICES ASSUME IInv, AddTransaction PROVE IInv'
  OBVIOUS
<1> USE DEF IInv
<1>1. PICK C \in SUBSET {u \in Utxo : ledger[u] = "new"} :
      \E S \in SUBSET ({u \in Utxo : ledger[u] = "live"} \cup C) :
         LET cache == CacheWith(C) IN
         /\ created' = [u \in DOMAIN cache \cup S |->
                          IF u \in S
                          THEN [Record(u, cache) EXCEPT !.spending = ids]
                          ELSE cache[u]]
         /\ entries' = EntriesWith(C, S)
         /\ deltas' = [a \in Account |-> Signed(deltas[a] + Sum(C, a) - Sum(S, a))]
         /\ touched' = TouchedWith(C, S)
         /\ ledger' = [u \in Utxo |-> IF u \in S THEN "spent"
                                      ELSE IF u \in C THEN "live"
                                      ELSE ledger[u]]
  BY SpentKnown DEF AddTransaction
<1>2. PICK S \in SUBSET ({u \in Utxo : ledger[u] = "live"} \cup C) :
         LET cache == CacheWith(C) IN
         /\ created' = [u \in DOMAIN cache \cup S |->
                          IF u \in S
                          THEN [Record(u, cache) EXCEPT !.spending = ids]
                          ELSE cache[u]]
         /\ entries' = EntriesWith(C, S)
         /\ deltas' = [a \in Account |-> Signed(deltas[a] + Sum(C, a) - Sum(S, a))]
         /\ touched' = TouchedWith(C, S)
         /\ ledger' = [u \in Utxo |-> IF u \in S THEN "spent"
                                      ELSE IF u \in C THEN "live"
                                      ELSE ledger[u]]
  BY <1>1
<1>3. /\ ids \in TxId /\ ids' = ids + 1 /\ ~bailed /\ ~bailed'
      /\ UNCHANGED <<owner, value, utxos, unspent, balances, addrTxs, nextTx, settled>>
  <2>1. ~bailed /\ ids < MaxTxs /\ UNCHANGED <<chain, store, crashes>>
    BY DEF AddTransaction
  <2>2. ids' = ids + 1 /\ bailed' = bailed
    BY SpentKnown DEF AddTransaction
  <2>3. ids \in TxId
    BY <2>1, MaxTxsAssumption DEF Typed, TxId
  <2> QED
    BY <2>1, <2>2, <2>3 DEF chain, store
<1> DEFINE Old == DOMAIN created
           cache == CacheWith(C)
<1>4. /\ DOMAIN created' = Old \cup C \cup S
      /\ DOMAIN entries' = Old \cup C \cup S
  BY <1>2 DEF CacheWith, EntriesWith
<1>5. \A u \in C : u \notin DOMAIN utxos /\ u \notin Old
  BY DEF Typed, StatusInv
<1>6. ASSUME NEW u \in S
      PROVE  /\ Record(u, cache) \in UtxoRecord
             /\ u \in C => Record(u, cache).creating = ids
             /\ u \notin C => Record(u, cache) = Merged(u)
                              /\ u \in Old \cup DOMAIN utxos
                              /\ Merged(u) \in UtxoRecord
                              /\ Merged(u).spending = None
  <2>1. CASE u \in C
    BY <2>1, <1>3 DEF Record, CacheWith, UtxoRecord
  <2>2. CASE u \notin C /\ u \in Old
    BY <2>2 DEF Record, CacheWith, Merged, Typed, StatusInv
  <2>3. CASE u \notin C /\ u \notin Old
    <3>1. ledger[u] = "live" /\ settled[u] = "live" /\ u \in DOMAIN utxos
      BY <2>3 DEF Typed, StatusInv
    <3> QED
      BY <2>3, <3>1 DEF Record, CacheWith, Merged, Typed, StatusInv
  <2> QED
    BY <2>1, <2>2, <2>3
<1>7. ASSUME NEW u \in DOMAIN created'
      PROVE  /\ created'[u] \in UtxoRecord
             /\ created'[u].creating = IF u \in C THEN ids ELSE Merged(u).creating
             /\ created'[u].spending = IF u \in S THEN ids
                                       ELSE IF u \in C THEN None
                                       ELSE Merged(u).spending
  <2>1. CASE u \in S
    <3>1. created'[u] = [Record(u, cache) EXCEPT !.spending = ids]
      BY <2>1, <1>2
    <3> HIDE DEF cache
    <3> QED
      BY <2>1, <3>1, <1>6, <1>3 DEF UtxoRecord
  <2>2. CASE u \notin S /\ u \in C
    <3>1. created'[u] = [creating |-> ids, spending |-> None]
      BY <2>2, <1>2 DEF CacheWith
    <3> QED
      BY <2>2, <3>1, <1>3 DEF UtxoRecord
  <2>3. CASE u \notin S /\ u \notin C
    <3>1. u \in Old /\ created'[u] = created[u]
      BY <2>3, <1>2, <1>4 DEF CacheWith
    <3> QED
      BY <2>3, <3>1 DEF Merged, Typed
  <2> QED
    BY <2>1, <2>2, <2>3
<1>8. Typed'
  <2>1. created' \in [DOMAIN created' -> UtxoRecord]
    BY <1>7, <1>2
  <2>2. entries' \in [DOMAIN created' -> BOOLEAN]
    BY <1>2, <1>4 DEF EntriesWith, Typed
  <2>3. touched' \subseteq Account \X TxId
    BY <1>2, <1>3 DEF TouchedWith, Typed
  <2>4. ledger' \in [Utxo -> {"new", "live", "spent"}]
    BY <1>2 DEF Typed
  <2>5. ids' \in nextTx .. MaxTxs
    BY <1>3, MaxTxsAssumption DEF Typed, TxId
  <2>6. deltas' \in [Account -> Int]
    <3>1. C \in SUBSET Utxo /\ S \in SUBSET Utxo
      OBVIOUS
    <3>2. ASSUME NEW a \in Account PROVE deltas[a] + Sum(C, a) - Sum(S, a) \in Int
      <4>1. Sum(C, a) \in Nat /\ Sum(S, a) \in Nat
        BY <3>1, Sums
      <4> QED
        BY <4>1 DEF Typed
    <3>3. \A a \in Account : Signed(deltas[a] + Sum(C, a) - Sum(S, a)) \in Int
      BY <3>2, SignedIs
    <3> QED
      BY <1>2, <3>3
  <2> QED
    BY <1>3, <1>4, <2>1, <2>2, <2>3, <2>4, <2>5, <2>6 DEF Typed
<1>9. StatusInv'
  <2>1. DOMAIN utxos' \cup DOMAIN created' = {u \in Utxo : ledger'[u] # "new"}
    BY <1>2, <1>3, <1>4 DEF Typed, StatusInv
  <2>2. \A u \in Utxo \ DOMAIN created' : ledger'[u] = settled'[u]
    BY <1>2, <1>3, <1>4 DEF Typed, StatusInv
  <2>3. ASSUME NEW u \in DOMAIN created'
        PROVE  /\ created'[u].spending = None <=> ledger'[u] = "live"
               /\ entries'[u] <=> ledger'[u] = "live"
    <3>1. u \in Utxo
      BY <1>4 DEF Typed
    <3>2. CASE u \in S
      <4>1. created'[u].spending # None
        BY <3>2, <1>3, <1>7, NoneIsNoTx
      <4>2. ledger'[u] = "spent"
        BY <3>1, <3>2, <1>2
      <4>3. entries'[u] = FALSE
        BY <3>2, <1>2, <1>4 DEF EntriesWith
      <4> QED
        BY <4>1, <4>2, <4>3
    <3>3. CASE u \notin S /\ u \in C
      BY <3>1, <3>3, <1>2, <1>4, <1>7 DEF EntriesWith
    <3>4. CASE u \notin S /\ u \notin C
      <4>1. u \in Old /\ ledger'[u] = ledger[u] /\ entries'[u] = entries[u]
        BY <3>1, <3>4, <1>2, <1>4 DEF EntriesWith
      <4> QED
        BY <3>4, <4>1, <1>7 DEF Merged, StatusInv
    <3> QED
      BY <3>2, <3>3, <3>4
  <2> QED
    BY <1>3, <2>1, <2>2, <2>3 DEF StatusInv
<1>10. HistoryInv'
  <2>1. ASSUME NEW u \in DOMAIN created'
        PROVE  created'[u].creating < ids' /\ created'[u].spending < ids'
    <3>1. ids \in Nat /\ None < ids' /\ ids < ids'
      BY <1>3, NoneIsNoTx DEF None
    <3>2. CASE u \in C
      BY <3>1, <3>2, <1>7, <1>3
    <3>3. CASE u \notin C
      <4>1. u \in Old \cup DOMAIN utxos
        BY <3>3, <1>4, <1>6
      <4>2. Merged(u).creating < ids' /\ Merged(u).spending < ids'
        <5>1. CASE u \in Old
          BY <5>1, <1>3, NoneIsNoTx, SMTT(30) DEF Merged, HistoryInv, Typed, UtxoRecord, None
        <5>2. CASE u \notin Old
          BY <5>2, <4>1, <1>3, NoneIsNoTx, SMTT(30) DEF Merged, HistoryInv, Typed, UtxoRecord, None
        <5> QED
          BY <5>1, <5>2
      <4> QED
        BY <3>1, <3>3, <4>2, <1>7
    <3> QED
      BY <3>2, <3>3
  <2>2. ASSUME NEW a \in Account, NEW t \in TxId
        PROVE  <<a, t>> \in (addrTxs \cup touched)' <=>
                 \E u \in (DOMAIN utxos \cup DOMAIN created)' :
                    /\ owner'[u] = a
                    /\ t \in {Merged(u)'.creating, Merged(u)'.spending}
    <3> DEFINE Known0 == DOMAIN utxos \cup Old
               Hit0(u) == owner[u] = a /\ t \in {Merged(u).creating, Merged(u).spending}
               Hit1(u) == owner[u] = a /\ t \in {Merged(u)'.creating, Merged(u)'.spending}
    <3>1. <<a, t>> \in (addrTxs \cup touched)' <=>
            \/ <<a, t>> \in addrTxs \cup touched
            \/ t = ids /\ \E u \in C \cup S : owner[u] = a
      BY <1>2, <1>3 DEF TouchedWith
    <3>2. <<a, t>> \in addrTxs \cup touched <=> \E u \in Known0 : Hit0(u)
      BY DEF HistoryInv
    <3>3. (DOMAIN utxos \cup DOMAIN created)' = Known0 \cup C
      BY <1>3, <1>4, <1>6
    <3>4. ASSUME NEW u \in Known0 \cup C
          PROVE  Hit1(u) <=> \/ u \in Known0 /\ Hit0(u)
                             \/ t = ids /\ u \in C \cup S /\ owner[u] = a
      <4>1. CASE u \in C
        <5>1. u \notin Known0
          BY <4>1, <1>5
        <5>2. u \in DOMAIN created' /\ Merged(u)' = created'[u]
          BY <4>1, <1>4 DEF Merged
        <5>3. Merged(u)'.creating = ids /\ Merged(u)'.spending \in {ids, None}
          BY <4>1, <5>2, <1>7
        <5> QED
          BY <4>1, <5>1, <5>3, NoneIsNoTx
      <4>2. CASE u \notin C /\ u \in S
        <5>1. u \in DOMAIN created' /\ Merged(u)' = created'[u]
          BY <4>2, <1>4 DEF Merged
        <5>2. Merged(u)'.creating = Merged(u).creating /\ Merged(u)'.spending = ids
          BY <4>2, <5>1, <1>7
        <5>3. Merged(u).spending = None
          BY <4>2, <1>6
        <5> QED
          BY <4>2, <5>2, <5>3, NoneIsNoTx
      <4>3. CASE u \notin C /\ u \notin S
        <5>1. Merged(u)' = Merged(u)
          BY <4>3, <1>2, <1>3, <1>4 DEF Merged, CacheWith
        <5> QED
          BY <4>3, <5>1
      <4> QED
        BY <4>1, <4>2, <4>3
    <3>5. C \cup S \subseteq Known0 \cup C
      BY <1>6
    <3>6. (\E u \in Known0 \cup C : Hit1(u)) <=>
             \/ \E u \in Known0 : Hit0(u)
             \/ t = ids /\ \E u \in C \cup S : owner[u] = a
      <4> HIDE DEF Known0, Hit0, Hit1
      <4> QED
        BY <3>4, <3>5
    <3> QED
      BY <1>3, <3>1, <3>2, <3>3, <3>6
  <2> QED
    BY <1>3, <2>1, <2>2 DEF HistoryInv
<1>11. LookupsSucceed'
  BY <1>3 DEF LookupsSucceed
<1>12. BalanceInv'
  <2> DEFINE L == {u \in Utxo : ledger'[u] = "live"}
  <2>1. /\ L \cup S = Live \cup C /\ L \cap S = {} /\ Live \cap C = {}
        /\ L \in SUBSET Utxo /\ S \in SUBSET Utxo /\ C \in SUBSET Utxo
        /\ Live \in SUBSET Utxo /\ unspent \in SUBSET Utxo
    BY <1>2 DEF Live, Typed, StatusInv
  <2>2. deltas' = [a \in Account |-> Signed(deltas[a] + Sum(C, a) - Sum(S, a))]
    BY <1>2
  <2>3. touched' = touched \cup {<<owner[u], ids>> : u \in C \cup S} /\ balances' = balances
    BY <1>2, <1>3 DEF TouchedWith
  <2> HIDE DEF L
  <2>4. ASSUME NEW a \in Account
        PROVE  (Sum(unspent, a) + deltas'[a]) % Modulus = Sum(L, a) % Modulus
    <3> DEFINE b == Sum(unspent, a)
               l == Sum(Live, a)
               m == Sum(L, a)
               c == Sum(C, a)
               s == Sum(S, a)
               d == deltas[a]
    <3>1. b \in Nat /\ l \in Nat /\ m \in Nat /\ c \in Nat /\ s \in Nat
      BY <2>1, Sums
    <3>2. m + s = l + c
      <4>1. Sum(L \cup S, a) = m + s
        BY <2>1, Sums
      <4>2. Sum(Live \cup C, a) = l + c
        BY <2>1, Sums
      <4> QED
        BY <2>1, <4>1, <4>2
    <3>3. d \in Int /\ (b + d) % Modulus = l % Modulus
      BY DEF Typed, BalanceInv, Live
    <3>4. deltas'[a] = Signed(d + c - s)
      BY <2>2
    <3> DEFINE e == d + c - s
               f == Signed(e)
    <3>5. e \in Int /\ f \in Int /\ f % Modulus = e % Modulus
      <4>1. e \in Int
        BY <3>1, <3>3
      <4> HIDE DEF e
      <4> QED
        BY <4>1, SignedIs
    <3>6. b \in Int /\ l \in Int /\ m \in Int /\ m = l + c - s /\ b + d \in Int
      BY <3>1, <3>2, <3>3
    <3> HIDE DEF b, l, m, f
    <3>7. PICK k \in Int : b + d = l + Modulus * k
      BY <3>3, <3>6, WordsDiffer
    <3>8. PICK j \in Int : f = e + Modulus * j
      <4> HIDE DEF e
      <4> QED
        BY <3>5, WordsDiffer
    <3> HIDE DEF c, s, d
    <3>9. (b + f) % Modulus = m % Modulus
      <4>1. k + j \in Int /\ Modulus * (k + j) = Modulus * k + Modulus * j
        BY ModulusAssumption
      <4>2. Modulus * k \in Int /\ Modulus * j \in Int
        BY ModulusAssumption
      <4>3. b + f \in Int /\ b + f = m + Modulus * (k + j)
        BY <3>1, <3>3, <3>5, <3>6, <3>7, <3>8, <4>1, <4>2 DEF e
      <4> QED
        BY <3>6, <4>1, <4>3, WordsAgree
    <3> QED
      BY <3>4, <3>9 DEF b, m, f, e
  <2>5. ASSUME NEW a \in Account, \A t \in TxId : <<a, t>> \notin touched'
        PROVE  {u \in L : owner[u] = a} = {u \in unspent : owner[u] = a}
    <3>1. \A u \in C \cup S : owner[u] # a
      BY <1>3, <2>3, <2>5
    <3>2. \A t \in TxId : <<a, t>> \notin touched
      BY <2>3, <2>5
    <3>3. {u \in Live : owner[u] = a} = {u \in unspent : owner[u] = a}
      BY <3>2 DEF BalanceInv, Changed, Live
    <3> QED
      BY <2>1, <3>1, <3>3
  <2>6. \A a \in Account : balances[a] = Sum(unspent, a) % Modulus
    BY DEF BalanceInv
  <2>7. unspent' = unspent /\ UNCHANGED <<owner, value>>
    BY <1>3
  <2>8. \A a : Sum(unspent, a)' = Sum(unspent, a)
    BY <2>7 DEF Sum, MapThenSumSet, MapThenFoldSet
  <2>9. \A a : Sum({u \in Utxo : ledger[u] = "live"}, a)' = Sum(L, a)
    BY <2>7 DEF Sum, MapThenSumSet, MapThenFoldSet, L
  <2>10. \A a \in Account : a \notin Changed' => \A t \in TxId : <<a, t>> \notin touched'
    BY DEF Changed
  <2> QED
    BY <2>3, <2>4, <2>5, <2>6, <2>7, <2>8, <2>9, <2>10 DEF BalanceInv, L
<1> QED
  BY <1>8, <1>9, <1>10, <1>11, <1>12

\* The word a changed balance is updated to.
LEMMA UpdatedIs ==
    ASSUME IInv, NEW a \in Account
    PROVE  /\ Updated(a) \in Int /\ Updated(a) < Modulus
           /\ Updated(a) % Modulus = Sum(Live, a) % Modulus
           /\ Sum(Live, a) < Modulus \div 2 => Updated(a) >= 0
<1> DEFINE b == balances[a]
           d == deltas[a]
           u == Sum(unspent, a)
           l == Sum(Live, a)
           s == Signed(b)
           e == s + d
<1>1. /\ Typed /\ b \in Int /\ d \in Int /\ u \in Nat /\ l \in Nat
  <2>1. Typed /\ unspent \in SUBSET Utxo /\ Live \in SUBSET Utxo
    BY DEF IInv, StatusInv, Live
  <2>2. u \in Nat /\ l \in Nat
    BY <2>1, Sums
  <2>3. b \in 0 .. Modulus - 1 /\ d \in Int
    BY <2>1 DEF Typed
  <2> QED
    BY <2>1, <2>2, <2>3, ModulusAssumption
<1>2. b = u % Modulus /\ (u + d) % Modulus = l % Modulus
  BY DEF IInv, BalanceInv, Live
<1>3. s \in Int /\ s % Modulus = b % Modulus
  BY <1>1, SignedIs
<1>4. Updated(a) = Signed(e)
  BY DEF Updated
<1> HIDE DEF b, d, u, l, s
<1>5. b % Modulus = u % Modulus
  <2>1. b \in 0 .. Modulus - 1
    BY <1>1, <1>2, SameWord, ModulusAssumption
  <2> QED
    BY <1>2, <2>1, ModulusAssumption
<1>6. e % Modulus = l % Modulus
  <2>1. PICK k \in Int : s = u + Modulus * k
    BY <1>1, <1>3, <1>5, WordsDiffer
  <2>2. PICK j \in Int : u + d = l + Modulus * j
    <3>1. u + d \in Int /\ l \in Int
      BY <1>1
    <3> QED
      BY <1>2, <3>1, WordsDiffer
  <2>3. k + j \in Int /\ Modulus * (k + j) = Modulus * k + Modulus * j
    BY ModulusAssumption
  <2>4. Modulus * k \in Int /\ Modulus * j \in Int
    BY ModulusAssumption
  <2>5. e \in Int /\ l \in Int /\ e = l + Modulus * (k + j)
    BY <1>1, <1>3, <2>1, <2>2, <2>3, <2>4
  <2> HIDE DEF e
  <2> QED
    BY <2>3, <2>5, WordsAgree
<1>7. e \in Int
  BY <1>1, <1>3
<1> HIDE DEF e
<1>8. /\ Signed(e) \in Int /\ Signed(e) < Modulus
      /\ Signed(e) % Modulus = e % Modulus
      /\ e % Modulus < Modulus \div 2 => Signed(e) >= 0
  BY <1>7, SignedIs
<1>9. l < Modulus \div 2 => e % Modulus < Modulus \div 2
  <2>1. l < Modulus \div 2 => l \in 0 .. Modulus - 1
    BY <1>1, ModulusAssumption
  <2>2. l \in 0 .. Modulus - 1 => l % Modulus = l
    BY ModulusAssumption
  <2> QED
    BY <1>6, <2>1, <2>2
<1> QED
  BY <1>4, <1>6, <1>8, <1>9 DEF l

\* Committing the batch makes the store what store and batch were together.
LEMMA CommitBlockInv == IInv /\ CommitBlock => IInv'
<1> SUFFICES ASSUME IInv, CommitBlock PROVE IInv'
  OBVIOUS
<1> USE DEF IInv
<1>1. ~bailed /\ UNCHANGED <<owner, value>>
  BY DEF CommitBlock, chain
<1>2. CASE \E a \in Changed : Updated(a) < 0
  <2>1. UNCHANGED <<store, block>>
    BY <1>2 DEF CommitBlock
  <2>2. Typed' /\ StatusInv' /\ HistoryInv'
    BY <1>1, <2>1 DEF store, block, Typed, StatusInv, HistoryInv, Merged
  <2>3. LookupsSucceed'
    BY <1>2, <2>1 DEF LookupsSucceed, Changed, Updated, store, block
  <2>4. BalanceInv'
    <3>1. UNCHANGED <<owner, value, unspent, ledger, balances, deltas, touched>>
      BY <1>1, <2>1 DEF store, block
    <3> QED
      BY <3>1, BalanceStays
  <2> QED
    BY <2>2, <2>3, <2>4
<1>3. CASE ~ \E a \in Changed : Updated(a) < 0
  <2>1. /\ utxos' = [u \in DOMAIN utxos \cup DOMAIN created |->
                        IF u \in DOMAIN created THEN created[u] ELSE utxos[u]]
        /\ unspent' = (unspent \ {u \in DOMAIN entries : ~entries[u]})
                           \cup {u \in DOMAIN entries : entries[u]}
        /\ addrTxs' = addrTxs \cup touched
        /\ nextTx' = ids /\ settled' = ledger
        /\ created' = Empty /\ entries' = Empty /\ touched' = {}
        /\ UNCHANGED <<ids, ledger, bailed>>
    BY <1>3 DEF CommitBlock, NoBlock
  <2>2. DOMAIN Empty = {} /\ Empty \in [{} -> UtxoRecord] /\ Empty \in [{} -> BOOLEAN]
    BY DEF Empty
  <2>3. /\ DOMAIN utxos' = DOMAIN utxos \cup DOMAIN created
        /\ \A u \in DOMAIN utxos' : utxos'[u] = Merged(u)
        /\ \A u \in DOMAIN utxos' : Merged(u)' = Merged(u)
    BY <2>1, <2>2 DEF Merged
  <2>4. Typed'
    <3>1. utxos' \in [DOMAIN utxos' -> UtxoRecord]
      BY <2>1 DEF Typed
    <3>2. ids \in Nat /\ ids \in ids .. MaxTxs
      BY MaxTxsAssumption DEF Typed
    <3>3. balances' \in [Account -> 0 .. Modulus - 1]
      <4>1. balances' = [a \in Account |-> IF a \in Changed THEN Updated(a) ELSE balances[a]]
        BY <1>3 DEF CommitBlock
      <4>2. \A a \in Account : a \in Changed => Updated(a) \in 0 .. Modulus - 1
        <5>1. ASSUME NEW a \in Account, a \in Changed PROVE Updated(a) \in 0 .. Modulus - 1
          <6>1. Updated(a) \in Int /\ Updated(a) < Modulus
            BY UpdatedIs
          <6>2. ~(Updated(a) < 0)
            BY <1>3, <5>1
          <6> QED
            BY <6>1, <6>2, ModulusAssumption
        <5> QED
          BY <5>1
      <4> QED
        BY <4>1, <4>2 DEF Typed
    <3>4. deltas' \in [Account -> Int]
      BY <1>3 DEF CommitBlock, NoBlock
    <3> QED
      BY <1>1, <2>1, <2>2, <2>3, <3>1, <3>2, <3>3, <3>4 DEF Typed
  <2>5. StatusInv'
    <3>1. unspent' = {u \in Utxo : ledger[u] = "live"}
      <4>1. DOMAIN entries = DOMAIN created
        BY DEF Typed
      <4>2. \A u \in DOMAIN created : entries[u] <=> ledger[u] = "live"
        BY DEF StatusInv
      <4>3. \A u \in Utxo \ DOMAIN created : ledger[u] = settled[u]
        BY DEF StatusInv
      <4>4. unspent = {u \in Utxo : settled[u] = "live"}
        BY DEF StatusInv
      <4> QED
        BY <2>1, <4>1, <4>2, <4>3, <4>4 DEF Typed
    <3>2. \A u \in DOMAIN utxos' : utxos'[u].spending = None <=> settled'[u] = "live"
      BY <2>1, <2>3 DEF Merged, StatusInv, Typed
    <3> QED
      BY <2>1, <2>2, <2>3, <3>1, <3>2 DEF StatusInv
  <2>6. HistoryInv'
    <3>1. ASSUME NEW u \in DOMAIN utxos'
          PROVE  utxos'[u].creating < nextTx' /\ utxos'[u].spending < nextTx'
      <4>1. CASE u \in DOMAIN created
        BY <4>1, <2>1 DEF HistoryInv
      <4>2. CASE u \notin DOMAIN created
        <5>1. u \in DOMAIN utxos /\ utxos'[u] = utxos[u]
          BY <4>2, <2>1
        <5>2. utxos[u] \in UtxoRecord
          BY <5>1 DEF Typed
        <5>3. utxos[u].creating \in TxId /\ utxos[u].spending \in TxId \cup {None}
          BY <5>2 DEF UtxoRecord
        <5>4. nextTx \in Nat /\ ids \in Nat /\ nextTx <= ids
          BY MaxTxsAssumption DEF Typed
        <5>5. utxos[u].creating \in Int /\ utxos[u].spending \in Int
          <6>1. TxId \cup {None} \subseteq Int
            BY NoneIsNoTx DEF None
          <6> QED
            BY <5>3, <6>1
        <5> QED
          BY <5>1, <5>4, <5>5, <2>1 DEF HistoryInv
      <4> QED
        BY <4>1, <4>2
    <3>2. ASSUME NEW a \in Account, NEW t \in TxId
          PROVE  <<a, t>> \in addrTxs' <=>
                   \E u \in DOMAIN utxos' :
                      /\ owner'[u] = a
                      /\ t \in {utxos'[u].creating, utxos'[u].spending}
      <4>1. <<a, t>> \in addrTxs \cup touched <=>
              \E u \in DOMAIN utxos \cup DOMAIN created :
                 /\ owner[u] = a
                 /\ t \in {Merged(u).creating, Merged(u).spending}
        BY DEF HistoryInv
      <4> QED
        BY <1>1, <2>1, <2>3, <4>1
    <3>3. ASSUME NEW a \in Account, NEW t \in TxId
          PROVE  <<a, t>> \in (addrTxs \cup touched)' <=>
                   \E u \in (DOMAIN utxos \cup DOMAIN created)' :
                      /\ owner'[u] = a
                      /\ t \in {Merged(u)'.creating, Merged(u)'.spending}
      <4>1. (DOMAIN utxos \cup DOMAIN created)' = DOMAIN utxos'
              /\ (addrTxs \cup touched)' = addrTxs'
        BY <2>1, <2>2
      <4>2. \A u \in DOMAIN utxos' : Merged(u)' = utxos'[u]
        BY <2>3
      <4> QED
        BY <3>2, <4>1, <4>2
    <3> QED
      BY <2>1, <2>2, <3>1, <3>2, <3>3 DEF HistoryInv
  <2>7. LookupsSucceed'
    BY <1>1, <2>1 DEF LookupsSucceed
  <2>8. BalanceInv'
    <3>1. unspent' = Live /\ Live \in SUBSET Utxo /\ unspent \in SUBSET Utxo
          /\ Live = {u \in Utxo : ledger'[u] = "live"}
      BY <2>1, <2>5 DEF StatusInv, Live
    <3>2. NoBlock
      BY <1>3 DEF CommitBlock
    <3>3. \A a \in Account : balances'[a] = IF a \in Changed THEN Updated(a) ELSE balances[a]
      BY <1>3 DEF CommitBlock
    <3>4. ASSUME NEW a \in Account PROVE balances'[a] = Sum(Live, a) % Modulus
      <4>1. CASE a \in Changed
        <5>1. Updated(a) >= 0 /\ balances'[a] = Updated(a)
          BY <1>3, <3>3, <4>1, UpdatedIs
        <5>2. /\ Updated(a) \in 0 .. Modulus - 1
              /\ Updated(a) % Modulus = Sum(Live, a) % Modulus
          BY <5>1, UpdatedIs, ModulusAssumption
        <5>3. Updated(a) % Modulus = Updated(a)
          BY <5>2, ModulusAssumption
        <5> QED
          BY <5>1, <5>2, <5>3
      <4>2. CASE a \notin Changed
        <5>1. {u \in Live : owner[u] = a} = {u \in unspent : owner[u] = a}
          BY <4>2 DEF BalanceInv, Live
        <5>2. Sum(Live, a) = Sum(unspent, a)
          BY <5>1, SameSum
        <5> QED
          BY <3>3, <4>2, <5>2 DEF BalanceInv
      <4> QED
        BY <4>1, <4>2
    <3> QED
      BY <1>1, <3>1, <3>2, <3>4, BalanceSettled
  <2> QED
    BY <2>4, <2>5, <2>6, <2>7, <2>8
<1> QED
  BY <1>2, <1>3

\* A crash loses the batch and goes back to the store.
LEMMA CrashInv == IInv /\ Crash => IInv'
<1> SUFFICES ASSUME IInv, Crash PROVE IInv'
  OBVIOUS
<1> USE DEF IInv
<1>1. /\ UNCHANGED <<owner, value, utxos, unspent, balances, addrTxs, nextTx, settled, bailed>>
      /\ created' = Empty /\ entries' = Empty /\ touched' = {}
      /\ deltas' = [a \in Account |-> 0]
      /\ ledger' = settled /\ ids' = nextTx /\ ~bailed
  BY DEF Crash, NoBlock, chain, store
<1>2. DOMAIN Empty = {} /\ Empty \in [{} -> UtxoRecord] /\ Empty \in [{} -> BOOLEAN]
  BY DEF Empty
<1>3. Typed'
  <2>1. nextTx \in nextTx .. MaxTxs
    BY MaxTxsAssumption DEF Typed
  <2> QED
    BY <1>1, <1>2, <2>1 DEF Typed
<1>4. StatusInv'
  BY <1>1, <1>2 DEF StatusInv
<1>5. HistoryInv'
  <2>1. \A u \in DOMAIN utxos' : Merged(u)' = utxos[u]
    BY <1>1, <1>2 DEF Merged
  <2>2. (DOMAIN utxos \cup DOMAIN created)' = DOMAIN utxos
        /\ (addrTxs \cup touched)' = addrTxs
    BY <1>1, <1>2
  <2> QED
    BY <1>1, <1>2, <2>1, <2>2 DEF HistoryInv
<1>6. LookupsSucceed'
  BY <1>1 DEF LookupsSucceed
<1>7. BalanceInv'
  <2>1. unspent \in SUBSET Utxo /\ unspent = {u \in Utxo : ledger'[u] = "live"}
    BY <1>1 DEF StatusInv
  <2>2. \A a \in Account : balances'[a] = Sum(unspent, a) % Modulus
    BY <1>1 DEF BalanceInv
  <2>3. NoBlock
    BY DEF Crash
  <2> QED
    BY <1>1, <2>1, <2>2, <2>3, BalanceSettled
<1> QED
  BY <1>3, <1>4, <1>5, <1>6, <1>7

\* The invariant is inductive.
LEMMA StepInv == IInv /\ [Next]_vars => IInv'
<1>1. ASSUME IInv, UNCHANGED vars PROVE IInv'
  <2>1. BalanceInv'
    BY <1>1, BalanceStays DEF vars, chain, store, block, IInv
  <2>2. Typed' /\ StatusInv'
    BY <1>1 DEF vars, chain, store, block, IInv, Typed, StatusInv
  <2>3. HistoryInv' /\ LookupsSucceed'
    BY <1>1 DEF vars, chain, store, block, IInv, HistoryInv, Merged, LookupsSucceed,
                Changed, Updated
  <2> QED
    BY <2>1, <2>2, <2>3 DEF IInv
<1> QED
  BY <1>1, AddTransactionInv, CommitBlockInv, CrashInv DEF Next

\* The invariant implies what a reader of the store may rely on.
LEMMA InvExact == IInv => UnspentExact /\ HistoryExact
<1> SUFFICES ASSUME IInv PROVE UnspentExact /\ HistoryExact
  OBVIOUS
<1> USE DEF IInv
<1>1. UnspentExact
  BY DEF UnspentExact, StatusInv, Typed
<1>2. \A u \in DOMAIN utxos \ unspent : utxos[u].spending \in TxId
  BY DEF StatusInv, Typed, UtxoRecord
<1>3. \A u \in DOMAIN utxos : u \in unspent => utxos[u].spending = None
  BY DEF StatusInv
<1> DEFINE Named == {<<owner[u], utxos[u].creating>> : u \in DOMAIN utxos} \cup
                    {<<owner[u], utxos[u].spending>> : u \in DOMAIN utxos \ unspent}
<1>4. ASSUME NEW a \in Account, NEW t \in TxId
      PROVE  <<a, t>> \in addrTxs <=> <<a, t>> \in Named
  <2>1. <<a, t>> \in Named <=>
           \/ \E u \in DOMAIN utxos : owner[u] = a /\ utxos[u].creating = t
           \/ \E u \in DOMAIN utxos \ unspent : owner[u] = a /\ utxos[u].spending = t
    OBVIOUS
  <2> QED
    BY <2>1, <1>3, NoneIsNoTx DEF HistoryInv
<1>5. addrTxs \subseteq Account \X TxId
  BY DEF Typed
<1>6. Named \subseteq Account \X TxId
  BY <1>2 DEF Typed, UtxoRecord
<1>7. addrTxs = Named
  <2> HIDE DEF Named
  <2> QED
    BY <1>4, <1>5, <1>6
<1>8. ASSUME NEW pair \in addrTxs PROVE pair[2] < nextTx
  <2>1. PICK u \in DOMAIN utxos : \/ pair = <<owner[u], utxos[u].creating>>
                                  \/ pair = <<owner[u], utxos[u].spending>>
    BY <1>7
  <2> QED
    BY <2>1 DEF HistoryInv
<1> QED
  BY <1>1, <1>7, <1>8 DEF HistoryExact

\* So every state of the index satisfies it.
LEMMA Inductive == Spec => []IInv
<1>1. Init => IInv
  BY InitInv
<1>2. IInv /\ [Next]_vars => IInv'
  BY StepInv
<1> QED
  BY <1>1, <1>2, PTL DEF Spec

\* Whatever transactions create and spend in one block, and wherever a crash
\* falls: the unspent index is the ledger's, and no spent UTXO is ever missing.
THEOREM IndexExact == Spec => [](UnspentExact /\ LookupsSucceed)
<1>1. IInv => UnspentExact /\ LookupsSucceed
  BY InvExact DEF IInv
<1> QED
  BY <1>1, Inductive, PTL

\* The address history names exactly the transactions of the records, though
\* each is added from what the batch alone knows of the touched addresses.
THEOREM AddressHistoryExact == Spec => []HistoryExact
<1>1. IInv => HistoryExact
  BY InvExact
<1> QED
  BY <1>1, Inductive, PTL

\* Every stored balance is the sum of the account's unspent UTXOs, however
\* many blocks wrapped its delta, if the sum is an amount at all.
THEOREM BalancesStayExact ==
    Spec => []((\A a \in Account : Sum(unspent, a) < Modulus) => BalancesExact)
<1>1. IInv => ((\A a \in Account : Sum(unspent, a) < Modulus) => BalancesExact)
  <2> SUFFICES ASSUME IInv, NEW a \in Account, Sum(unspent, a) < Modulus
               PROVE  balances[a] = Sum(unspent, a)
    BY DEF BalancesExact
  <2>1. Typed /\ unspent \in SUBSET Utxo
    BY DEF IInv, StatusInv
  <2>2. Sum(unspent, a) \in 0 .. Modulus - 1
    BY <2>1, Sums, ModulusAssumption
  <2>3. Sum(unspent, a) % Modulus = Sum(unspent, a)
    BY <2>2, ModulusAssumption
  <2> QED
    BY <2>3 DEF IInv, BalanceInv
<1> QED
  BY <1>1, Inductive, PTL

\* A block fails only if it takes an account past the largest signed amount.
THEOREM BailsPastSigned == Spec => []BailsOnlyPastSigned
<1>1. IInv => BailsOnlyPastSigned
  <2> SUFFICES ASSUME IInv, bailed
               PROVE  \E a \in Account :
                         Sum({u \in Utxo : ledger[u] = "live"}, a) >= Modulus \div 2
    BY DEF BailsOnlyPastSigned
  <2>1. PICK a \in Changed : Updated(a) < 0
    BY DEF IInv, LookupsSucceed
  <2>2. a \in Account
    BY DEF Changed
  <2>3. Updated(a) \in Int /\ (Sum(Live, a) < Modulus \div 2 => Updated(a) >= 0)
    BY <2>2, UpdatedIs
  <2>4. Sum(Live, a) \in Nat /\ Modulus \div 2 \in Int
    <3>1. Typed /\ Live \in SUBSET Utxo
      BY DEF IInv, Live
    <3> QED
      BY <3>1, Sums, ModulusAssumption
  <2>5. Sum(Live, a) >= Modulus \div 2
    BY <2>1, <2>3, <2>4
  <2> QED
    BY <2>2, <2>5 DEF Live
<1> QED
  BY <1>1, Inductive, PTL

----------------------------------------------------------------------------
(* Keys: their order, and the range of those with a prefix *)

\* a is smaller than b, which is not longer: at the first byte that differs.
Below(a, b) == \E n \in 1 .. Len(b) : a[n] < b[n] /\ \A i \in 1 .. n - 1 : a[i] = b[i]

\* a has the prefix p.
Has(a, p) == \A i \in 1 .. Len(p) : a[i] = p[i]

Byte == 0 .. MaxByte

\* Bytes are numbers.
LEMMA ByteAt ==
    ASSUME NEW k \in Seq(Byte), NEW i \in 1 .. Len(k)
    PROVE  k[i] \in 0 .. MaxByte /\ k[i] \in Int
<1>1. k[i] \in Byte
  OBVIOUS
<1> QED
  BY <1>1, KeysAssumption DEF Byte

\* Beginnings are the same if their bytes are.
LEMMA SameBeginning ==
    ASSUME NEW a \in Seq(Byte), NEW b \in Seq(Byte), NEW n \in Nat, n <= Len(a), n <= Len(b)
    PROVE  SubSeq(a, 1, n) = SubSeq(b, 1, n) <=> \A i \in 1 .. n : a[i] = b[i]
<1> DEFINE x == SubSeq(a, 1, n)
           y == SubSeq(b, 1, n)
<1>1. /\ x \in Seq(Byte) /\ Len(x) = n /\ \A i \in 1 .. n : x[i] = a[i]
      /\ y \in Seq(Byte) /\ Len(y) = n /\ \A i \in 1 .. n : y[i] = b[i]
  OBVIOUS
<1> HIDE DEF x, y
<1>2. ASSUME \A i \in 1 .. n : a[i] = b[i] PROVE x = y
  BY <1>1, <1>2, SeqEqual
<1> QED
  BY <1>1, <1>2 DEF x, y

\* Being smaller, where the greater key is not longer.
LEMMA LessIs ==
    ASSUME NEW a \in Seq(Byte), NEW b \in Seq(Byte), Len(b) <= Len(a)
    PROVE  Less(a, b) <=> Below(a, b)
<1> USE DEF Byte
<1>1. ASSUME Less(a, b) PROVE Below(a, b)
  <2>1. PICK n \in 0 .. Len(a) : /\ n < Len(b) /\ SubSeq(a, 1, n) = SubSeq(b, 1, n)
                                 /\ n = Len(a) \/ a[n + 1] < b[n + 1]
    BY <1>1 DEF Less
  <2>2. \A i \in 1 .. n : a[i] = b[i]
    BY <2>1, SameBeginning
  <2>3. n + 1 \in 1 .. Len(b) /\ a[n + 1] < b[n + 1] /\ (n + 1) - 1 = n
    BY <2>1
  <2> QED
    BY <2>2, <2>3 DEF Below
<1>2. ASSUME Below(a, b) PROVE Less(a, b)
  <2>1. PICK n \in 1 .. Len(b) : a[n] < b[n] /\ \A i \in 1 .. n - 1 : a[i] = b[i]
    BY <1>2 DEF Below
  <2>2. n - 1 \in 0 .. Len(a) /\ n - 1 < Len(b) /\ (n - 1) + 1 = n /\ n - 1 \in Nat
        /\ n - 1 <= Len(a) /\ n - 1 <= Len(b)
    BY <2>1
  <2>3. SubSeq(a, 1, n - 1) = SubSeq(b, 1, n - 1)
    BY <2>1, <2>2, SameBeginning
  <2> QED
    BY <2>1, <2>2, <2>3 DEF Less
<1> QED
  BY <1>1, <1>2

\* Of the indices that differ one is the first.
LEMMA FirstOf ==
    ASSUME NEW D \in SUBSET Nat, D # {}
    PROVE  \E d \in D : \A i \in D : d <= i
<1> DEFINE R == OpToRel(<, Nat)
<1>1. PICK d \in D : \A i \in D : ~(<<i, d>> \in R)
  BY NatLessThanWellFounded, WFMin
<1>2. ASSUME NEW i \in D PROVE d <= i
  <2>1. d \in Nat /\ i \in Nat /\ ~(i < d)
    BY <1>1 DEF OpToRel
  <2> QED
    BY <2>1
<1> QED
  BY <1>2

\* Of numbers with an upper bound one is the greatest.
LEMMA GreatestOf ==
    ASSUME NEW N \in Nat, NEW D \in SUBSET (0 .. N), D # {}
    PROVE  \E d \in D : \A i \in D : i <= d
<1> DEFINE T == {N - i : i \in D}
<1>1. T \in SUBSET Nat /\ T # {}
  <2>1. \A i \in D : i \in 0 .. N /\ N - i \in Nat
    OBVIOUS
  <2> QED
    BY <2>1
<1>2. PICK t \in T : \A x \in T : t <= x
  <2> HIDE DEF T
  <2> QED
    BY <1>1, FirstOf
<1>3. PICK d \in D : t = N - d
  OBVIOUS
<1>4. ASSUME NEW i \in D PROVE i <= d
  <2>1. i \in 0 .. N /\ d \in 0 .. N /\ N - d <= N - i
    BY <1>2, <1>3
  <2> QED
    BY <2>1
<1> QED
  BY <1>4

\* Smaller is a strict order of keys of one length.
LEMMA BelowOrder ==
    ASSUME NEW a \in Seq(Byte), NEW b \in Seq(Byte), Len(a) = Len(b)
    PROVE  /\ ~Below(a, a)
           /\ ~(Below(a, b) /\ Below(b, a))
           /\ a # b => Below(a, b) \/ Below(b, a)
<1>1. ~Below(a, a)
  <2>1. \A n \in 1 .. Len(a) : a[n] \in Int
    BY ByteAt
  <2> QED
    BY <2>1 DEF Below
<1>2. ~(Below(a, b) /\ Below(b, a))
  <2> SUFFICES ASSUME Below(a, b), Below(b, a) PROVE FALSE
    OBVIOUS
  <2>1. PICK n \in 1 .. Len(b) : a[n] < b[n] /\ \A i \in 1 .. n - 1 : a[i] = b[i]
    BY DEF Below
  <2>2. PICK m \in 1 .. Len(a) : b[m] < a[m] /\ \A i \in 1 .. m - 1 : b[i] = a[i]
    BY DEF Below
  <2>3. /\ n \in 1 .. Len(a) /\ m \in 1 .. Len(b)
        /\ a[n] \in Int /\ b[n] \in Int /\ a[m] \in Int /\ b[m] \in Int
    <3>1. n \in 1 .. Len(a) /\ m \in 1 .. Len(b)
      OBVIOUS
    <3> QED
      BY <3>1, ByteAt
  <2>4. CASE n = m
    BY <2>1, <2>2, <2>3, <2>4
  <2>5. CASE n < m
    <3>1. n \in 1 .. m - 1
      BY <2>5
    <3> QED
      BY <2>1, <2>2, <2>3, <3>1
  <2>6. CASE m < n
    <3>1. m \in 1 .. n - 1
      BY <2>6
    <3> QED
      BY <2>1, <2>2, <2>3, <3>1
  <2> QED
    BY <2>4, <2>5, <2>6
<1>3. ASSUME a # b PROVE Below(a, b) \/ Below(b, a)
  <2> DEFINE D == {i \in 1 .. Len(a) : a[i] # b[i]}
  <2>1. D # {}
    <3>1. a = b \/ \E i \in 1 .. Len(a) : a[i] # b[i]
      BY SeqEqual, Zenon
    <3> QED
      BY <1>3, <3>1
  <2>2. PICK d \in D : \A i \in D : d <= i
    <3>1. D \in SUBSET Nat
      OBVIOUS
    <3> HIDE DEF D
    <3> QED
      BY <2>1, <3>1, FirstOf
  <2>3. \A i \in 1 .. d - 1 : a[i] = b[i]
    BY <2>2
  <2>4. d \in 1 .. Len(a) /\ d \in 1 .. Len(b) /\ a[d] \in Int /\ b[d] \in Int /\ a[d] # b[d]
    <3>1. d \in 1 .. Len(a) /\ d \in 1 .. Len(b) /\ a[d] # b[d]
      BY <2>2
    <3> QED
      BY <3>1, ByteAt
  <2>5. a[d] < b[d] \/ b[d] < a[d]
    BY <2>4
  <2> QED
    BY <2>3, <2>4, <2>5 DEF Below
<1> QED
  BY <1>1, <1>2, <1>3

\* And where the greatest is not longer, too.
LEMMA BelowTransitive ==
    ASSUME NEW a \in Seq(Byte), NEW b \in Seq(Byte), NEW c \in Seq(Byte),
           Len(a) = Len(b), Len(c) <= Len(b), Below(a, b), Below(b, c)
    PROVE  Below(a, c)
<1>1. PICK n \in 1 .. Len(b) : a[n] < b[n] /\ \A i \in 1 .. n - 1 : a[i] = b[i]
  BY DEF Below
<1>2. PICK m \in 1 .. Len(c) : b[m] < c[m] /\ \A i \in 1 .. m - 1 : b[i] = c[i]
  BY DEF Below
<1>3. /\ n \in 1 .. Len(a) /\ m \in 1 .. Len(b) /\ m \in 1 .. Len(a)
      /\ a[n] \in Int /\ b[n] \in Int /\ a[m] \in Int /\ b[m] \in Int /\ c[m] \in Int
      /\ \A i \in 1 .. Len(c) : c[i] \in Int
  <2>1. n \in 1 .. Len(a) /\ m \in 1 .. Len(b) /\ m \in 1 .. Len(a)
    OBVIOUS
  <2> QED
    BY <2>1, ByteAt
<1>4. CASE n < m
  <2>1. n \in 1 .. m - 1 /\ n \in 1 .. Len(c)
    BY <1>4
  <2>2. b[n] = c[n]
    BY <1>2, <2>1
  <2>3. a[n] < c[n]
    BY <1>1, <2>2
  <2>4. \A i \in 1 .. n - 1 : i \in 1 .. m - 1
    BY <1>4
  <2>5. \A i \in 1 .. n - 1 : a[i] = c[i]
    BY <1>1, <1>2, <2>4
  <2> QED
    BY <2>1, <2>3, <2>5 DEF Below
<1>5. CASE m < n
  <2>1. m \in 1 .. n - 1
    BY <1>5
  <2>2. a[m] = b[m]
    BY <1>1, <2>1
  <2>3. a[m] < c[m]
    BY <1>2, <2>2
  <2>4. \A i \in 1 .. m - 1 : i \in 1 .. n - 1
    BY <1>5
  <2>5. \A i \in 1 .. m - 1 : a[i] = c[i]
    BY <1>1, <1>2, <2>4
  <2> QED
    BY <2>3, <2>5 DEF Below
<1>6. CASE m = n
  <2>1. a[m] < b[m] /\ b[m] < c[m]
    BY <1>1, <1>2, <1>6
  <2>2. a[m] < c[m]
    BY <1>3, <2>1
  <2>3. \A i \in 1 .. m - 1 : a[i] = c[i]
    BY <1>1, <1>2, <1>6
  <2> QED
    BY <2>2, <2>3 DEF Below
<1> QED
  BY <1>4, <1>5, <1>6

\* What has a prefix is not below it.
LEMMA PrefixFirst ==
    ASSUME NEW k \in Seq(Byte), NEW p \in Seq(Byte), Len(p) <= Len(k), Has(k, p)
    PROVE  ~Below(k, p)
<1> SUFFICES ASSUME NEW n \in 1 .. Len(p), k[n] < p[n] PROVE FALSE
  BY DEF Below
<1>1. k[n] = p[n] /\ p[n] \in Int
  BY KeysAssumption DEF Has, Byte
<1> QED
  BY <1>1

\* What is below a prefix is below all that have it.
LEMMA BelowPrefix ==
    ASSUME NEW k \in Seq(Byte), NEW a \in Seq(Byte), NEW p \in Seq(Byte),
           Len(p) <= Len(a), Has(a, p), Below(k, p)
    PROVE  Below(k, a)
<1>1. PICK n \in 1 .. Len(p) : k[n] < p[n] /\ \A i \in 1 .. n - 1 : k[i] = p[i]
  BY DEF Below
<1>2. n \in 1 .. Len(a) /\ a[n] = p[n] /\ \A i \in 1 .. n - 1 : a[i] = p[i]
  BY DEF Has
<1>3. k[n] < a[n] /\ \A i \in 1 .. n - 1 : k[i] = a[i]
  BY <1>1, <1>2
<1> QED
  BY <1>2, <1>3 DEF Below

\* The end of a prefix: at one place it is by one more, and only greatest bytes
\* of the prefix come later.
LEMMA PrefixEndIs ==
    ASSUME NEW p \in Seq(Byte)
    PROVE  \/ /\ prefix_end(p) = <<>>
              /\ \A i \in 1 .. Len(p) : p[i] = MaxByte
           \/ LET e == prefix_end(p)
              IN  /\ e \in Seq(Byte) /\ Len(e) \in 1 .. Len(p)
                  /\ \A i \in 1 .. Len(e) - 1 : e[i] = p[i]
                  /\ e[Len(e)] = p[Len(e)] + 1
                  /\ \A i \in Len(e) + 1 .. Len(p) : p[i] = MaxByte
<1> DEFINE raised == {i \in DOMAIN p : p[i] # MaxByte}
           last == Max(raised)
           e == SubSeq(p, 1, last - 1) \o <<p[last] + 1>>
<1>1. CASE raised = {}
  <2>1. prefix_end(p) = <<>>
    BY <1>1 DEF prefix_end
  <2>2. \A i \in 1 .. Len(p) : p[i] = MaxByte
    BY <1>1
  <2> QED
    BY <2>1, <2>2
<1>2. CASE raised # {}
  <2>1. prefix_end(p) = e
    BY <1>2 DEF prefix_end
  <2>2. raised \in SUBSET (0 .. Len(p)) /\ Len(p) \in Nat
    OBVIOUS
  <2>3. last \in raised /\ \A i \in raised : i <= last
    <3> HIDE DEF raised
    <3>1. \E m \in raised : \A i \in raised : i <= m
      BY <1>2, <2>2, GreatestOf
    <3>2. \E m \in raised : \A i \in raised : m >= i
      BY <2>2, <3>1
    <3>3. last \in raised /\ \A i \in raised : last >= i
      BY <3>2 DEF Max
    <3> QED
      BY <2>2, <3>3
  <2>4. last \in 1 .. Len(p) /\ p[last] \in 0 .. MaxByte /\ p[last] # MaxByte
    <3> HIDE DEF last
    <3>1. last \in 1 .. Len(p) /\ p[last] # MaxByte
      BY <2>3
    <3> QED
      BY <3>1, ByteAt
  <2>5. p[last] + 1 \in Byte
    <3> HIDE DEF last, raised
    <3> QED
      BY <2>4, KeysAssumption DEF Byte
  <2>6. ASSUME NEW i \in last + 1 .. Len(p) PROVE p[i] = MaxByte
    <3>1. i \in DOMAIN p /\ ~(i <= last)
      <4> HIDE DEF last, raised
      <4> QED
        BY <2>4
    <3>2. i \notin raised
      <4> HIDE DEF last, raised
      <4> QED
        BY <2>3, <3>1
    <3> QED
      BY <3>1, <3>2
  <2> HIDE DEF last, raised
  <2>7. /\ e \in Seq(Byte) /\ Len(e) = last
        /\ \A i \in 1 .. last - 1 : e[i] = p[i]
        /\ e[last] = p[last] + 1
    <3> DEFINE x == SubSeq(p, 1, last - 1)
               y == <<p[last] + 1>>
    <3>1. x \in Seq(Byte) /\ Len(x) = last - 1 /\ \A i \in 1 .. last - 1 : x[i] = p[i]
      BY <2>4
    <3>2. y \in Seq(Byte) /\ Len(y) = 1 /\ y[1] = p[last] + 1
      BY <2>5
    <3> HIDE DEF x, y
    <3>3. /\ x \o y \in Seq(Byte) /\ Len(x \o y) = Len(x) + Len(y)
          /\ \A i \in 1 .. Len(x) + Len(y) :
                (x \o y)[i] = IF i <= Len(x) THEN x[i] ELSE y[i - Len(x)]
      BY <3>1, <3>2, ConcatProperties
    <3>4. last \in 1 .. Len(x) + Len(y) /\ ~(last <= Len(x)) /\ last - Len(x) = 1
      BY <2>4, <3>1, <3>2
    <3>5. (x \o y)[last] = p[last] + 1
      BY <3>2, <3>3, <3>4
    <3>6. \A i \in 1 .. last - 1 : (x \o y)[i] = p[i]
      BY <2>4, <3>1, <3>2, <3>3
    <3>7. Len(x \o y) = last
      BY <2>4, <3>1, <3>2, <3>3
    <3> QED
      BY <3>3, <3>5, <3>6, <3>7 DEF x, y
  <2> HIDE DEF e
  <2> QED
    BY <2>1, <2>4, <2>6, <2>7
<1> QED
  BY <1>1, <1>2

\* All that has a prefix is below its end.
LEMMA PrefixEnds ==
    ASSUME NEW k \in Seq(Byte), NEW p \in Seq(Byte), Len(p) <= Len(k), Has(k, p),
           prefix_end(p) # <<>>
    PROVE  Below(k, prefix_end(p))
<1> DEFINE e == prefix_end(p)
<1>1. /\ e \in Seq(Byte) /\ Len(e) \in 1 .. Len(p)
      /\ \A i \in 1 .. Len(e) - 1 : e[i] = p[i]
      /\ e[Len(e)] = p[Len(e)] + 1
  BY PrefixEndIs
<1> DEFINE n == Len(e)
<1> HIDE DEF e
<1>2. n \in 1 .. Len(p) /\ k[n] = p[n] /\ p[n] \in Int /\ \A i \in 1 .. n - 1 : k[i] = p[i]
  <2>1. n \in 1 .. Len(p) /\ \A i \in 1 .. Len(p) : k[i] = p[i]
    BY <1>1 DEF Has
  <2>2. p[n] \in Int
    BY <2>1, ByteAt
  <2> QED
    BY <2>1, <2>2
<1>3. k[n] < e[n] /\ n \in 1 .. Len(e)
  BY <1>1, <1>2
<1>4. \A i \in 1 .. n - 1 : k[i] = e[i]
  BY <1>1, <1>2
<1>5. Below(k, e)
  BY <1>3, <1>4 DEF Below
<1> QED
  BY <1>5 DEF e

\* What has not the prefix is below it or not below its end.
LEMMA PrefixOnly ==
    ASSUME NEW k \in Seq(Byte), NEW p \in Seq(Byte), Len(p) <= Len(k), ~Has(k, p),
           ~Below(k, p)
    PROVE  prefix_end(p) # <<>> /\ ~Below(k, prefix_end(p))
<1> DEFINE D == {i \in 1 .. Len(p) : k[i] # p[i]}
           e == prefix_end(p)
<1>1. D \in SUBSET Nat /\ D # {}
  BY DEF Has
<1>2. PICK d \in D : \A i \in D : d <= i
  <2> HIDE DEF D
  <2> QED
    BY <1>1, FirstOf
<1>3. d \in 1 .. Len(p) /\ d \in 1 .. Len(k) /\ k[d] # p[d] /\ \A i \in 1 .. d - 1 : k[i] = p[i]
  BY <1>2
<1>4. k[d] \in 0 .. MaxByte /\ p[d] \in 0 .. MaxByte
  BY <1>3, ByteAt
<1>5. p[d] < k[d] /\ p[d] # MaxByte
  <2>1. ~(k[d] < p[d])
    BY <1>3 DEF Below
  <2> QED
    BY <1>3, <1>4, <2>1, KeysAssumption
<1>6. /\ e # <<>> /\ e \in Seq(Byte) /\ Len(e) \in 1 .. Len(p)
      /\ \A i \in 1 .. Len(e) - 1 : e[i] = p[i]
      /\ e[Len(e)] = p[Len(e)] + 1
      /\ \A i \in Len(e) + 1 .. Len(p) : p[i] = MaxByte
  <2>1. ~\A i \in 1 .. Len(p) : p[i] = MaxByte
    BY <1>3, <1>5
  <2>2. /\ e \in Seq(Byte) /\ Len(e) \in 1 .. Len(p)
        /\ \A i \in 1 .. Len(e) - 1 : e[i] = p[i]
        /\ e[Len(e)] = p[Len(e)] + 1
        /\ \A i \in Len(e) + 1 .. Len(p) : p[i] = MaxByte
    BY <2>1, PrefixEndIs
  <2> HIDE DEF e
  <2>3. e # <<>>
    BY <2>2
  <2> QED
    BY <2>2, <2>3
<1> HIDE DEF e, D
<1> DEFINE l == Len(e)
<1>7. l \in 1 .. Len(p) /\ d <= l
  BY <1>3, <1>5, <1>6
<1>8. ASSUME NEW n \in 1 .. l, k[n] < e[n], \A i \in 1 .. n - 1 : k[i] = e[i] PROVE FALSE
  <2>1. CASE n < d
    <3>1. n \in 1 .. d - 1 /\ n \in 1 .. l - 1
      BY <1>3, <1>7, <2>1
    <3>2. p[n] \in Int
      BY <1>7, ByteAt
    <3>3. k[n] = p[n] /\ e[n] = p[n]
      BY <1>3, <1>6, <3>1
    <3> QED
      BY <1>8, <3>2, <3>3
  <2>2. CASE n = d /\ d < l
    <3>1. e[d] = p[d]
      BY <1>3, <1>6, <2>2
    <3> QED
      BY <1>4, <1>5, <1>8, <2>2, <3>1, KeysAssumption
  <2>3. CASE n = d /\ d = l
    <3>1. e[d] = p[d] + 1
      BY <1>6, <2>3
    <3> QED
      BY <1>4, <1>5, <1>8, <2>3, <3>1, KeysAssumption
  <2>4. CASE d < n
    <3>1. d \in 1 .. n - 1 /\ d \in 1 .. l - 1
      BY <1>3, <1>7, <2>4
    <3>2. k[d] = e[d] /\ e[d] = p[d]
      BY <1>6, <1>8, <3>1
    <3> QED
      BY <1>3, <3>2
  <2> QED
    BY <1>3, <1>7, <2>1, <2>2, <2>3, <2>4
<1>9. ~Below(k, e)
  BY <1>8 DEF Below
<1> QED
  BY <1>6, <1>9 DEF e

(* The index: where a UTXO's key is *)

\* Two byte strings, one after the other.
LEMMA Joined ==
    ASSUME NEW x \in Seq(Byte), NEW y \in Seq(Byte)
    PROVE  /\ x \o y \in Seq(Byte) /\ Len(x \o y) = Len(x) + Len(y)
           /\ \A i \in 1 .. Len(x) : (x \o y)[i] = x[i]
           /\ \A i \in 1 .. Len(y) : (x \o y)[Len(x) + i] = y[i]
<1>1. /\ x \o y \in Seq(Byte) /\ Len(x \o y) = Len(x) + Len(y)
      /\ \A i \in 1 .. Len(x) + Len(y) :
            (x \o y)[i] = IF i <= Len(x) THEN x[i] ELSE y[i - Len(x)]
  BY ConcatProperties
<1> DEFINE z == x \o y
           n == Len(x)
           m == Len(y)
<1>2. n \in Nat /\ m \in Nat
  OBVIOUS
<1>3. \A i \in 1 .. n + m : z[i] = IF i <= n THEN x[i] ELSE y[i - n]
  BY <1>1
<1> HIDE DEF z, n, m
<1>4. \A i \in 1 .. n : z[i] = x[i]
  BY <1>2, <1>3
<1>5. ASSUME NEW i \in 1 .. m PROVE z[n + i] = y[i]
  <2>1. n + i \in 1 .. n + m /\ ~(n + i <= n) /\ (n + i) - n = i
    BY <1>2
  <2> QED
    BY <1>3, <2>1
<1> QED
  BY <1>1, <1>4, <1>5 DEF z, n, m

\* A key has a prefix of two parts if it has each in its place.
LEMMA HasJoined ==
    ASSUME NEW k \in Seq(Byte), NEW x \in Seq(Byte), NEW y \in Seq(Byte)
    PROVE  Has(k, x \o y) <=> Has(k, x) /\ \A i \in 1 .. Len(y) : k[Len(x) + i] = y[i]
<1> DEFINE z == x \o y
           n == Len(x)
           m == Len(y)
<1>1. n \in Nat /\ m \in Nat /\ Len(z) = n + m
  BY Joined
<1>2. /\ \A i \in 1 .. n : z[i] = x[i]
      /\ \A i \in 1 .. m : z[n + i] = y[i]
  BY Joined
<1> HIDE DEF z, n, m
<1>3. ASSUME \A i \in 1 .. n + m : k[i] = z[i]
      PROVE  (\A i \in 1 .. n : k[i] = x[i]) /\ \A i \in 1 .. m : k[n + i] = y[i]
  <2>1. ASSUME NEW i \in 1 .. n PROVE k[i] = x[i]
    <3>1. i \in 1 .. n + m
      BY <1>1
    <3> QED
      BY <1>2, <1>3, <3>1
  <2>2. ASSUME NEW i \in 1 .. m PROVE k[n + i] = y[i]
    <3>1. n + i \in 1 .. n + m
      BY <1>1
    <3> QED
      BY <1>2, <1>3, <3>1
  <2> QED
    BY <2>1, <2>2
<1>4. ASSUME \A i \in 1 .. n : k[i] = x[i], \A i \in 1 .. m : k[n + i] = y[i],
             NEW i \in 1 .. n + m
      PROVE  k[i] = z[i]
  <2>1. CASE i <= n
    BY <1>1, <1>2, <1>4, <2>1
  <2>2. CASE n < i
    <3>1. i - n \in 1 .. m /\ n + (i - n) = i
      BY <1>1, <2>2
    <3>2. k[n + (i - n)] = y[i - n] /\ z[n + (i - n)] = y[i - n]
      BY <1>2, <1>4, <3>1
    <3> QED
      BY <3>1, <3>2
  <2> QED
    BY <1>1, <2>1, <2>2
<1> QED
  BY <1>1, <1>3, <1>4 DEF Has, z, n, m

\* A key has a UTXO's owner, its token type and its id, each of fixed length.
LEMMA KeyParts ==
    ASSUME owner \in [Utxo -> Account], NEW u \in Utxo
    PROVE  LET o == OwnerBytes[owner[u]]
               t == TokenBytes[owner[u]]
               b == UtxoBytes[u]
           IN  /\ o \in Seq(Byte) /\ t \in Seq(Byte) /\ b \in Seq(Byte) /\ Len(b) > 0
               /\ unspent_key(u) = (o \o t) \o b
               /\ unspent_key(u) \in Seq(Byte)
               /\ Len(unspent_key(u)) = Len(o) + Len(t) + Len(b)
               /\ Has(unspent_key(u), o \o t) /\ Has(unspent_key(u), o)
               /\ \A i \in 1 .. Len(t) : unspent_key(u)[Len(o) + i] = t[i]
               /\ \A i \in 1 .. Len(b) : unspent_key(u)[Len(o) + Len(t) + i] = b[i]
<1> DEFINE o == OwnerBytes[owner[u]]
           t == TokenBytes[owner[u]]
           b == UtxoBytes[u]
           k == (o \o t) \o b
<1>1. o \in Seq(Byte) /\ t \in Seq(Byte) /\ b \in Seq(Byte) /\ b # <<>>
  BY KeysAssumption DEF Byte
<1>2. unspent_key(u) = (o \o t) \o b
  BY <1>1 DEF unspent_key
<1> HIDE DEF o, t, b
<1>3. Len(b) > 0
  BY <1>1, EmptySeq
<1>4. o \o t \in Seq(Byte) /\ Len(o \o t) = Len(o) + Len(t)
  BY <1>1, Joined
<1>5. /\ k \in Seq(Byte) /\ Len(k) = Len(o \o t) + Len(b)
      /\ \A i \in 1 .. Len(o \o t) : k[i] = (o \o t)[i]
      /\ \A i \in 1 .. Len(b) : k[Len(o \o t) + i] = b[i]
  BY <1>1, <1>4, Joined
<1> HIDE DEF k
<1>6. Has(k, o \o t)
  BY <1>5 DEF Has
<1>7. Has(k, o) /\ \A i \in 1 .. Len(t) : k[Len(o) + i] = t[i]
  BY <1>1, <1>5, <1>6, HasJoined
<1>8. unspent_key(u) = k
  BY <1>2 DEF k
<1>9. Len(k) = Len(o) + Len(t) + Len(b)
  BY <1>4, <1>5
<1>10. \A i \in 1 .. Len(b) : k[Len(o) + Len(t) + i] = b[i]
  BY <1>4, <1>5
<1> QED
  BY <1>1, <1>2, <1>3, <1>5, <1>6, <1>7, <1>8, <1>9, <1>10 DEF o, t, b

\* Keys have one length, and are different for different UTXOs.
LEMMA KeysDiffer ==
    ASSUME owner \in [Utxo -> Account], NEW u \in Utxo, NEW v \in Utxo
    PROVE  /\ unspent_key(u) \in Seq(Byte) /\ Len(unspent_key(u)) = Len(unspent_key(v))
           /\ unspent_key(u) = unspent_key(v) => u = v
<1> DEFINE o == OwnerBytes[owner[u]]
           t == TokenBytes[owner[u]]
           b == UtxoBytes[u]
           c == UtxoBytes[v]
           n == Len(o) + Len(t)
<1>1. /\ Len(o) = Len(OwnerBytes[owner[v]]) /\ Len(t) = Len(TokenBytes[owner[v]])
      /\ Len(b) = Len(c) /\ (b = c => u = v)
      /\ b \in Seq(Byte) /\ c \in Seq(Byte)
  BY KeysAssumption DEF Byte
<1>2. /\ unspent_key(u) \in Seq(Byte) /\ Len(unspent_key(u)) = n + Len(b)
      /\ \A i \in 1 .. Len(b) : unspent_key(u)[n + i] = b[i]
  BY KeyParts
<1>3. /\ Len(unspent_key(v)) = n + Len(c)
      /\ \A i \in 1 .. Len(c) : unspent_key(v)[n + i] = c[i]
  <2> DEFINE p == OwnerBytes[owner[v]]
             q == TokenBytes[owner[v]]
             k == unspent_key(v)
  <2>1. Len(k) = Len(p) + Len(q) + Len(c)
    BY KeyParts
  <2>2. \A i \in 1 .. Len(c) : k[Len(p) + Len(q) + i] = c[i]
    BY KeyParts
  <2>3. Len(p) + Len(q) = n
    BY <1>1
  <2> HIDE DEF p, q, k, n, c
  <2>4. Len(k) = n + Len(c) /\ \A i \in 1 .. Len(c) : k[n + i] = c[i]
    BY <2>1, <2>2, <2>3
  <2> QED
    BY <2>4 DEF k
<1> HIDE DEF o, t, b, c, n
<1>4. ASSUME unspent_key(u) = unspent_key(v) PROVE b = c
  <2>1. \A i \in 1 .. Len(b) : b[i] = c[i]
    BY <1>1, <1>2, <1>3, <1>4
  <2> QED
    BY <1>1, <2>1, SeqEqual
<1> QED
  BY <1>1, <1>2, <1>3, <1>4

\* The index is in one order, forward or backward.
LEMMA BeforeOrder ==
    ASSUME owner \in [Utxo -> Account], NEW u \in Utxo, NEW v \in Utxo
    PROVE  /\ ~Before(u, u)
           /\ u # v => Before(u, v) \/ Before(v, u)
           /\ \A w \in Utxo : Before(u, v) /\ Before(v, w) => Before(u, w)
<1> DEFINE k(x) == unspent_key(x)
<1>1. \A x, y \in Utxo : /\ k(x) \in Seq(Byte) /\ k(y) \in Seq(Byte)
                         /\ Len(k(x)) = Len(k(y)) /\ (k(x) = k(y) => x = y)
  BY KeysDiffer
<1> HIDE DEF k
<1>2. \A x, y \in Utxo : Less(k(x), k(y)) <=> Below(k(x), k(y))
  <2> SUFFICES ASSUME NEW x \in Utxo, NEW y \in Utxo PROVE Less(k(x), k(y)) <=> Below(k(x), k(y))
    OBVIOUS
  <2>1. Len(k(y)) <= Len(k(x))
    BY <1>1
  <2> QED
    BY <1>1, <2>1, LessIs
<1>3. ~Less(k(u), k(u))
  BY <1>1, <1>2, BelowOrder
<1>4. u # v => Less(k(u), k(v)) \/ Less(k(v), k(u))
  BY <1>1, <1>2, BelowOrder
<1>5. \A x, y, z \in Utxo : Less(k(x), k(y)) /\ Less(k(y), k(z)) => Less(k(x), k(z))
  <2> SUFFICES ASSUME NEW x \in Utxo, NEW y \in Utxo, NEW z \in Utxo,
                      Less(k(x), k(y)), Less(k(y), k(z))
               PROVE  Less(k(x), k(z))
    OBVIOUS
  <2>1. Len(k(x)) = Len(k(y)) /\ Len(k(z)) <= Len(k(y))
    BY <1>1
  <2>2. Below(k(x), k(z))
    BY <1>1, <1>2, <2>1, BelowTransitive
  <2> QED
    BY <1>2, <2>2
<1>6. \A x, y \in Utxo : Before(x, y) <=> IF query.order = "asc" THEN Less(k(x), k(y))
                                          ELSE Less(k(y), k(x))
  BY DEF Before, k
<1> QED
  BY <1>3, <1>4, <1>5, <1>6

\* A UTXO's key has the prefix of a query just if the query is about the UTXO.
LEMMA Matches ==
    ASSUME owner \in [Utxo -> Account], query \in Queries, NEW u \in Utxo
    PROVE  LET p == query.owner \o query.token
           IN  /\ p \in Seq(Byte) /\ Len(p) <= Len(unspent_key(u))
               /\ Has(unspent_key(u), p) <=> u \in Asked
<1> DEFINE o == OwnerBytes[owner[u]]
           t == TokenBytes[owner[u]]
           x == query.owner
           y == query.token
           k == unspent_key(u)
<1>1. PICK a \in Account : x = OwnerBytes[a]
  BY DEF Queries
<1>2. y = <<>> \/ \E c \in Account : y = TokenBytes[c]
  BY DEF Queries
<1>3. x \in Seq(Byte) /\ Len(x) = Len(o)
  BY <1>1, KeysAssumption DEF Byte
<1>4. y \in Seq(Byte) /\ (y = <<>> \/ Len(y) = Len(t))
  <2>1. CASE y = <<>>
    BY <2>1, EmptySeq
  <2>2. CASE \E c \in Account : y = TokenBytes[c]
    BY <2>2, KeysAssumption DEF Byte
  <2> QED
    BY <1>2, <2>1, <2>2
<1>5. /\ o \in Seq(Byte) /\ t \in Seq(Byte) /\ k \in Seq(Byte)
      /\ Len(k) = Len(o) + Len(t) + Len(UtxoBytes[u]) /\ Len(UtxoBytes[u]) \in Nat
      /\ \A i \in 1 .. Len(o) : k[i] = o[i]
      /\ \A i \in 1 .. Len(t) : k[Len(o) + i] = t[i]
  <2>1. /\ o \in Seq(Byte) /\ t \in Seq(Byte) /\ k \in Seq(Byte) /\ UtxoBytes[u] \in Seq(Byte)
        /\ Len(k) = Len(o) + Len(t) + Len(UtxoBytes[u]) /\ Has(k, o)
        /\ \A i \in 1 .. Len(t) : k[Len(o) + i] = t[i]
    BY KeyParts
  <2>2. Len(UtxoBytes[u]) \in Nat
    BY <2>1
  <2> HIDE DEF o, t, k
  <2>3. \A i \in 1 .. Len(o) : k[i] = o[i]
    BY <2>1 DEF Has
  <2> QED
    BY <2>1, <2>2, <2>3
<1>6. u \in Asked <=> o = x /\ (y = <<>> \/ y = t)
  BY DEF Asked
<1> HIDE DEF o, t, x, y, k
<1>7. Len(y) \in Nat /\ Len(y) <= Len(t)
  BY <1>4, <1>5
<1>8. /\ x \o y \in Seq(Byte) /\ Len(x \o y) = Len(x) + Len(y)
      /\ Has(k, x \o y) <=> Has(k, x) /\ \A i \in 1 .. Len(y) : k[Len(x) + i] = y[i]
  <2>1. x \o y \in Seq(Byte) /\ Len(x \o y) = Len(x) + Len(y)
    BY <1>3, <1>4, Joined
  <2>2. Has(k, x \o y) <=> Has(k, x) /\ \A i \in 1 .. Len(y) : k[Len(x) + i] = y[i]
    <3>1. k \in Seq(Byte) /\ x \in Seq(Byte) /\ y \in Seq(Byte)
      BY <1>3, <1>4, <1>5
    <3> QED
      BY <3>1, HasJoined
  <2> QED
    BY <2>1, <2>2
<1>9. Len(x \o y) <= Len(k)
  <2> DEFINE z == x \o y
  <2>1. /\ Len(z) = Len(x) + Len(y) /\ Len(x) = Len(o) /\ Len(o) \in Nat /\ Len(t) \in Nat
        /\ Len(k) = Len(o) + Len(t) + Len(UtxoBytes[u]) /\ Len(UtxoBytes[u]) \in Nat
    BY <1>3, <1>5, <1>8
  <2> HIDE DEF z
  <2>2. \A a1, b1, c1, d1 \in Nat : b1 <= c1 => a1 + b1 <= a1 + c1 + d1
    OBVIOUS
  <2>3. Len(z) <= Len(k)
    BY <1>7, <2>1, <2>2
  <2> QED
    BY <2>3 DEF z
<1>10. Has(k, x) <=> o = x
  <2>1. Has(k, x) => \A i \in 1 .. Len(o) : o[i] = x[i]
    BY <1>3, <1>5 DEF Has
  <2>2. (\A i \in 1 .. Len(o) : o[i] = x[i]) => o = x
    BY <1>3, <1>5, SeqEqual
  <2>3. o = x => Has(k, x)
    BY <1>5 DEF Has
  <2> QED
    BY <2>1, <2>2, <2>3
<1>11. (\A i \in 1 .. Len(y) : k[Len(x) + i] = y[i]) <=> y = <<>> \/ y = t
  <2>1. CASE y = <<>>
    BY <2>1
  <2>2. CASE y # <<>>
    <3>1. Len(y) = Len(t) /\ Len(x) = Len(o)
      BY <1>3, <1>4, <2>2
    <3>2. ASSUME \A i \in 1 .. Len(y) : k[Len(x) + i] = y[i] PROVE y = t
      <4>1. \A i \in 1 .. Len(y) : y[i] = t[i]
        BY <1>5, <3>1, <3>2
      <4> QED
        BY <1>4, <1>5, <3>1, <4>1, SeqEqual
    <3>3. y = t => \A i \in 1 .. Len(y) : k[Len(x) + i] = y[i]
      BY <1>5, <3>1
    <3> QED
      BY <2>2, <3>2, <3>3
  <2> QED
    BY <2>1, <2>2
<1> QED
  BY <1>6, <1>8, <1>9, <1>10, <1>11 DEF x, y, k

\* The range of a page: all of the query's UTXOs that come after those of the
\* pages before.
LEMMA RangeIs ==
    ASSUME owner \in [Utxo -> Account], query \in Queries, pages \in Seq(Utxo),
           Range(pages) \subseteq Asked, At(position), NEW u \in Utxo
    PROVE  InRange(unspent_key(u)) <=>
              u \in Asked /\ (pages # <<>> => Before(Seqs!Last(pages), u))
<1> DEFINE p == query.owner \o query.token
           e == prefix_end(p)
           k == unspent_key(u)
           after == query.owner \o position
<1>1. /\ p \in Seq(Byte) /\ Len(p) <= Len(k) /\ (Has(k, p) <=> u \in Asked)
      /\ k \in Seq(Byte)
  BY Matches, KeyParts
<1>2. query.order \in {"asc", "desc"}
  BY OrdersAssumption DEF Queries
<1>3. InRange(k) <=>
         /\ IF query.order = "asc" /\ position # <<>> THEN Less(after, k) ELSE ~Less(k, p)
         /\ IF query.order = "desc" /\ position # <<>> THEN Less(k, after)
            ELSE e = <<>> \/ Less(k, e)
  BY DEF InRange
<1>4. e \in Seq(Byte) /\ Len(e) <= Len(p)
  <2> HIDE DEF p
  <2>1. \/ e = <<>>
        \/ e \in Seq(Byte) /\ Len(e) \in 1 .. Len(p)
    BY <1>1, PrefixEndIs
  <2> HIDE DEF e
  <2>2. e = <<>> => e \in Seq(Byte) /\ Len(e) = 0
    BY EmptySeq
  <2> QED
    BY <1>1, <2>1, <2>2
<1>5. pages # <<>> =>
         LET last == Seqs!Last(pages)
         IN  /\ last \in Utxo /\ last \in Asked
             /\ position # <<>> /\ after = unspent_key(last)
  <2>1. pages # <<>> => Len(pages) \in DOMAIN pages
    BY EmptySeq
  <2>2. pages # <<>> => pages[Len(pages)] \in Utxo /\ pages[Len(pages)] \in Range(pages)
    BY <2>1 DEF Range
  <2> QED
    BY <2>2 DEF At, Seqs!Last
<1>6. pages = <<>> => position = <<>>
  BY DEF At
<1> DEFINE last == Seqs!Last(pages)
           l == unspent_key(last)
<1>7. pages # <<>> => /\ l \in Seq(Byte) /\ Len(l) = Len(k) /\ Has(l, p) /\ after = l
  BY <1>5, Matches, KeysDiffer
<1>8. Before(last, u) <=> IF query.order = "asc" THEN Less(l, k) ELSE Less(k, l)
  BY DEF Before
<1> HIDE DEF p, e, k, after, l
<1>9. Less(k, p) <=> Below(k, p)
  BY <1>1, LessIs
<1>10. Less(k, e) <=> Below(k, e)
  <2>1. Len(e) <= Len(k)
    BY <1>1, <1>4
  <2> QED
    BY <1>1, <1>4, <2>1, LessIs
<1>11. pages # <<>> => (Less(k, l) <=> Below(k, l)) /\ (Less(l, k) <=> Below(l, k))
  <2>1. pages # <<>> => Len(l) <= Len(k) /\ Len(k) <= Len(l)
    BY <1>1, <1>7
  <2> QED
    BY <1>1, <1>7, <2>1, LessIs
<1>12. Has(k, p) <=> ~Below(k, p) /\ (e = <<>> \/ Below(k, e))
  <2>1. Has(k, p) => ~Below(k, p) /\ (e = <<>> \/ Below(k, e))
    BY <1>1, PrefixFirst, PrefixEnds DEF e
  <2>2. ~Has(k, p) /\ ~Below(k, p) => e # <<>> /\ ~Below(k, e)
    BY <1>1, PrefixOnly DEF e
  <2> QED
    BY <2>1, <2>2
<1>13. CASE pages = <<>>
  BY <1>1, <1>2, <1>3, <1>6, <1>9, <1>10, <1>12, <1>13 DEF k
<1>14. CASE pages # <<>>
  <2>1. Below(l, k) => ~Below(k, p)
    <3> SUFFICES ASSUME Below(l, k), Below(k, p) PROVE FALSE
      OBVIOUS
    <3>1. Len(p) <= Len(l)
      BY <1>1, <1>7, <1>14
    <3>2. Below(k, l)
      BY <1>1, <1>7, <1>14, <3>1, BelowPrefix
    <3> QED
      BY <1>1, <1>7, <1>14, <3>2, BelowOrder
  <2>2. Below(k, l) => e = <<>> \/ Below(k, e)
    <3> SUFFICES ASSUME Below(k, l), e # <<>> PROVE Below(k, e)
      OBVIOUS
    <3>1. Len(p) <= Len(l) /\ Len(e) <= Len(l) /\ Len(k) = Len(l)
      BY <1>1, <1>4, <1>7, <1>14
    <3>2. Below(l, e)
      BY <1>1, <1>7, <1>14, <3>1, PrefixEnds DEF e
    <3> QED
      BY <1>1, <1>4, <1>7, <1>14, <3>1, <3>2, BelowTransitive
  <2>3. position # <<>> /\ after = l
    BY <1>5, <1>7, <1>14
  <2>4. CASE query.order = "asc"
    BY <1>1, <1>3, <1>8, <1>9, <1>10, <1>11, <1>12, <1>14, <2>1, <2>3, <2>4 DEF k
  <2>5. CASE query.order = "desc"
    BY <1>1, <1>3, <1>8, <1>9, <1>10, <1>11, <1>12, <1>14, <2>2, <2>3, <2>5 DEF k
  <2> QED
    BY <1>2, <2>4, <2>5
<1> QED
  BY <1>13, <1>14

(* Rows and pages *)

\* One more row at the end.
LEMMA Appended ==
    ASSUME NEW c \in Seq(Utxo), NEW u \in Utxo
    PROVE  LET d == Append(c, u)
           IN  /\ d \in Seq(Utxo) /\ Len(d) = Len(c) + 1 /\ d # <<>>
               /\ \A i \in 1 .. Len(c) : d[i] = c[i]
               /\ d[Len(d)] = u /\ Seqs!Last(d) = u
               /\ Range(d) = Range(c) \cup {u}
<1> DEFINE d == Append(c, u)
           n == Len(c)
<1>1. /\ d \in Seq(Utxo) /\ Len(d) = n + 1 /\ n \in Nat
      /\ \A i \in 1 .. n : d[i] = c[i]
      /\ d[n + 1] = u /\ DOMAIN d = 1 .. n + 1 /\ DOMAIN c = 1 .. n
  OBVIOUS
<1> HIDE DEF d, n
<1>2. Range(d) = Range(c) \cup {u}
  <2>1. \A i \in 1 .. n + 1 : i \in 1 .. n \/ i = n + 1
    BY <1>1
  <2>2. \A i \in 1 .. n : i \in 1 .. n + 1
    BY <1>1
  <2>3. n + 1 \in 1 .. n + 1
    BY <1>1
  <2> QED
    BY <1>1, <2>1, <2>2, <2>3 DEF Range
<1>3. d # <<>>
  BY <1>1, EmptySeq
<1> QED
  BY <1>1, <1>2, <1>3 DEF d, n, Seqs!Last

\* The pages with the rows in hand.
LEMMA CollectedIs ==
    ASSUME NEW x \in Seq(Utxo), NEW y \in Seq(Utxo)
    PROVE  LET c == x \o y
           IN  /\ c \in Seq(Utxo) /\ Len(c) = Len(x) + Len(y)
               /\ \A i \in 1 .. Len(x) : c[i] = x[i]
               /\ \A i \in 1 .. Len(y) : c[Len(x) + i] = y[i]
               /\ Range(c) = Range(x) \cup Range(y)
               /\ y = <<>> => c = x
               /\ y # <<>> => c # <<>> /\ Seqs!Last(c) = Seqs!Last(y)
<1> DEFINE c == x \o y
           n == Len(x)
           m == Len(y)
<1>1. /\ c \in Seq(Utxo) /\ Len(c) = n + m /\ n \in Nat /\ m \in Nat
      /\ DOMAIN c = 1 .. n + m /\ DOMAIN x = 1 .. n /\ DOMAIN y = 1 .. m
      /\ \A i \in 1 .. n + m : c[i] = IF i <= n THEN x[i] ELSE y[i - n]
      /\ y = <<>> => c = x
  <2>1. /\ c \in Seq(Utxo) /\ Len(c) = Len(x) + Len(y)
        /\ \A i \in 1 .. Len(x) + Len(y) : c[i] = IF i <= Len(x) THEN x[i] ELSE y[i - Len(x)]
    BY ConcatProperties
  <2>2. y = <<>> => c = x
    BY ConcatEmptySeq
  <2>3. n \in Nat /\ m \in Nat /\ DOMAIN x = 1 .. n /\ DOMAIN y = 1 .. m
    OBVIOUS
  <2>4. DOMAIN c = 1 .. n + m
    BY <2>1
  <2> QED
    BY <2>1, <2>2, <2>3, <2>4
<1> HIDE DEF c, n, m
<1>2. \A i \in 1 .. n : i \in 1 .. n + m /\ c[i] = x[i]
  BY <1>1
<1>3. ASSUME NEW i \in 1 .. m PROVE n + i \in 1 .. n + m /\ c[n + i] = y[i]
  <2>1. n + i \in 1 .. n + m /\ ~(n + i <= n) /\ (n + i) - n = i
    BY <1>1
  <2> QED
    BY <1>1, <2>1
<1>4. \A i \in 1 .. n + m : i \in 1 .. n \/ \E j \in 1 .. m : i = n + j
  <2> SUFFICES ASSUME NEW i \in 1 .. n + m, i \notin 1 .. n PROVE \E j \in 1 .. m : i = n + j
    OBVIOUS
  <2>1. i - n \in 1 .. m /\ i = n + (i - n)
    BY <1>1
  <2> QED
    BY <2>1
<1>5. Range(c) = Range(x) \cup Range(y)
  <2>1. Range(c) = {c[i] : i \in 1 .. n + m} /\ Range(x) = {x[i] : i \in 1 .. n}
        /\ Range(y) = {y[i] : i \in 1 .. m}
    BY <1>1 DEF Range
  <2> QED
    BY <1>2, <1>3, <1>4, <2>1
<1>6. ASSUME y # <<>> PROVE c # <<>> /\ Seqs!Last(c) = Seqs!Last(y)
  <2>1. m # 0
    BY <1>6, EmptySeq DEF m
  <2>2. m \in 1 .. m /\ n + m # 0
    BY <1>1, <2>1
  <2>3. c # <<>>
    BY <1>1, <2>2, EmptySeq
  <2>4. c[n + m] = y[m]
    BY <1>3, <2>2
  <2> QED
    BY <1>1, <2>3, <2>4 DEF Seqs!Last, m
<1> QED
  BY <1>1, <1>2, <1>3, <1>5, <1>6 DEF c, n, m

\* A further row is a further row of all that was collected.
LEMMA CollectedNext ==
    ASSUME NEW x \in Seq(Utxo), NEW y \in Seq(Utxo), NEW u \in Utxo
    PROVE  x \o Append(y, u) = Append(x \o y, u)
<1> DEFINE c == x \o y
           d == x \o Append(y, u)
           e == Append(c, u)
           n == Len(x)
           m == Len(y)
<1>1. /\ Append(y, u) \in Seq(Utxo) /\ Len(Append(y, u)) = m + 1
      /\ \A i \in 1 .. m : Append(y, u)[i] = y[i]
      /\ Append(y, u)[m + 1] = u /\ n \in Nat /\ m \in Nat
  OBVIOUS
<1>2. /\ c \in Seq(Utxo) /\ Len(c) = n + m
      /\ \A i \in 1 .. n : c[i] = x[i]
  BY CollectedIs
<1>3. \A i \in 1 .. m : c[n + i] = y[i]
  BY CollectedIs
<1>4. /\ d \in Seq(Utxo) /\ Len(d) = n + (m + 1)
      /\ \A i \in 1 .. n : d[i] = x[i]
  BY <1>1, CollectedIs
<1>5. \A i \in 1 .. m + 1 : d[n + i] = Append(y, u)[i]
  BY <1>1, CollectedIs
<1>6. /\ e \in Seq(Utxo) /\ Len(e) = (n + m) + 1
      /\ \A i \in 1 .. n + m : e[i] = c[i]
      /\ e[(n + m) + 1] = u
  BY <1>2
<1> HIDE DEF c, d, e, n, m
<1>7. ASSUME NEW i \in 1 .. (n + m) + 1 PROVE d[i] = e[i]
  <2>1. CASE i <= n
    <3>1. i \in 1 .. n /\ i \in 1 .. n + m
      BY <1>1, <2>1
    <3>2. c[i] = x[i]
      BY <1>2, <3>1
    <3> QED
      BY <1>4, <1>6, <3>1, <3>2
  <2>2. CASE n < i /\ i <= n + m
    <3>1. i - n \in 1 .. m /\ i - n \in 1 .. m + 1 /\ n + (i - n) = i /\ i \in 1 .. n + m
      BY <1>1, <2>2
    <3>2. d[n + (i - n)] = Append(y, u)[i - n] /\ Append(y, u)[i - n] = y[i - n]
      BY <1>1, <1>5, <3>1
    <3>3. c[n + (i - n)] = y[i - n]
      BY <1>3, <3>1
    <3> QED
      BY <1>6, <3>1, <3>2, <3>3
  <2>3. CASE i = (n + m) + 1
    <3>1. m + 1 \in 1 .. m + 1 /\ n + (m + 1) = i
      BY <1>1, <2>3
    <3>2. d[n + (m + 1)] = u
      BY <1>1, <1>5, <3>1
    <3> QED
      BY <1>6, <2>3, <3>1, <3>2
  <2> QED
    BY <1>1, <2>1, <2>2, <2>3
<1>8. Len(d) = Len(e)
  BY <1>1, <1>4, <1>6
<1>9. d = e
  BY <1>4, <1>6, <1>7, <1>8, SeqEqual
<1> QED
  BY <1>9 DEF c, d, e

\* The rows of a full page, without the further one.
LEMMA PageOfRows ==
    ASSUME NEW y \in Seq(Utxo), NEW n \in Nat, Len(y) = n + 1
    PROVE  /\ SubSeq(y, 1, n) \in Seq(Utxo) /\ Len(SubSeq(y, 1, n)) = n
           /\ y[n + 1] \in Utxo /\ y = Append(SubSeq(y, 1, n), y[n + 1])
<1> DEFINE p == SubSeq(y, 1, n)
           z == Append(p, y[n + 1])
<1>1. p \in Seq(Utxo) /\ Len(p) = n /\ (\A i \in 1 .. n : p[i] = y[i]) /\ y[n + 1] \in Utxo
  OBVIOUS
<1> HIDE DEF p
<1>2. /\ z \in Seq(Utxo) /\ Len(z) = n + 1 /\ (\A i \in 1 .. n : z[i] = p[i])
      /\ z[n + 1] = y[n + 1]
  BY <1>1
<1> HIDE DEF z
<1>3. \A i \in 1 .. n + 1 : z[i] = y[i]
  <2>1. \A i \in 1 .. n + 1 : i \in 1 .. n \/ i = n + 1
    OBVIOUS
  <2> QED
    BY <1>1, <1>2, <2>1
<1>4. z = y
  BY <1>2, <1>3, SeqEqual
<1> QED
  BY <1>1, <1>4 DEF p, z

\* A cursor's position is what is left of a key after the owner.
LEMMA KeyTail ==
    ASSUME NEW k \in Seq(Byte), NEW o \in Seq(Byte), Has(k, o), Len(o) < Len(k)
    PROVE  LET t == SubSeq(k, Len(o) + 1, Len(k)) IN t # <<>> /\ o \o t = k
<1> DEFINE n == Len(o)
           l == Len(k)
           t == SubSeq(k, n + 1, l)
           z == o \o t
<1>1. /\ n \in Nat /\ l \in Nat /\ n < l
      /\ t \in Seq(Byte) /\ Len(t) = l - n /\ \A i \in 1 .. l - n : t[i] = k[n + i]
  <2>1. n \in Nat /\ l \in Nat /\ n < l
    OBVIOUS
  <2>2. t \in Seq(Byte) /\ Len(t) = l - n
    BY <2>1
  <2>3. \A i \in 1 .. l - n : t[i] = k[n + i]
    BY <2>1
  <2> QED
    BY <2>1, <2>2, <2>3
<1> HIDE DEF t
<1>2. /\ z \in Seq(Byte) /\ Len(z) = n + (l - n)
      /\ \A i \in 1 .. n : z[i] = o[i]
  BY <1>1, Joined
<1>3. \A i \in 1 .. l - n : z[n + i] = t[i]
  BY <1>1, Joined
<1>4. \A i \in 1 .. n : o[i] = k[i]
  BY DEF Has
<1> HIDE DEF z, n, l
<1>5. ASSUME NEW i \in 1 .. l PROVE z[i] = k[i]
  <2>1. CASE i <= n
    BY <1>1, <1>2, <1>4, <2>1
  <2>2. CASE n < i
    <3>1. i - n \in 1 .. l - n /\ n + (i - n) = i
      BY <1>1, <2>2
    <3>2. z[n + (i - n)] = t[i - n] /\ t[i - n] = k[n + (i - n)]
      BY <1>1, <1>3, <3>1
    <3> QED
      BY <3>1, <3>2
  <2> QED
    BY <1>1, <2>1, <2>2
<1>6. Len(z) = Len(k)
  BY <1>1, <1>2 DEF l
<1>7. z = k
  BY <1>2, <1>5, <1>6, SeqEqual DEF l
<1>8. t # <<>>
  BY <1>1, EmptySeq
<1> QED
  BY <1>7, <1>8 DEF z, t, n, l

(* A request: what is collected is what the query asks for *)

\* The pipeline and the requests take the steps of the index.
LEMMA ReadSteps == [ReadNext]_readVars => [Next]_vars
  BY DEF ReadNext, readVars, CrashReading, Next

\* So all that holds of the index holds while it is read.
LEMMA ReadIndexInductive == ReadSpec => []IInv
<1>1. ReadInit => IInv
  BY InitInv DEF ReadInit
<1>2. IInv /\ [ReadNext]_readVars => IInv'
  BY ReadSteps, StepInv
<1> QED
  BY <1>1, <1>2, PTL DEF ReadSpec

\* While the query and the owners stay, so does what is asked, in what order.
LEMMA SameQuery ==
    ASSUME owner' = owner, query' = query
    PROVE  /\ Asked' = Asked
           /\ \A u, v \in Utxo : Before(u, v)' <=> Before(u, v)
  BY DEF Asked, Before, unspent_key

\* What it takes for a list to be right after a step.
LEMMA ListNext ==
    ASSUME owner' = owner, query' = query, NEW c \in Seq(Utxo), Collected' = c,
           Range(c) \subseteq ever' \cap Asked,
           \A j \in 1 .. Len(c) : \A i \in 1 .. j - 1 : Before(c[i], c[j]),
           \A u \in (always' \cap Asked) \ Range(c) :
              ~Ended' /\ (c # <<>> => Before(Seqs!Last(c), u))
    PROVE  ListInv'
<1>1. Asked' = Asked /\ \A u, v \in Utxo : Before(u, v)' <=> Before(u, v)
  BY SameQuery
<1>2. c # <<>> => Seqs!Last(c) \in Utxo
  <2>1. c # <<>> => Len(c) \in 1 .. Len(c)
    BY EmptySeq
  <2> QED
    BY <2>1 DEF Seqs!Last
<1>3. \A j \in 1 .. Len(c) : \A i \in 1 .. j - 1 : Before(c[i], c[j])'
  <2>1. \A j \in 1 .. Len(c) : \A i \in 1 .. j - 1 : c[i] \in Utxo /\ c[j] \in Utxo
    OBVIOUS
  <2> QED
    BY <1>1, <2>1
<1>4. ASSUME NEW u \in (always' \cap Asked') \ Range(c)
      PROVE  ~Ended' /\ (c # <<>> => Before(Seqs!Last(c), u)')
  <2>1. u \in (always' \cap Asked) \ Range(c) /\ u \in Utxo
    BY <1>1 DEF Asked
  <2>2. ~Ended' /\ (c # <<>> => Before(Seqs!Last(c), u))
    BY <2>1
  <2>3. c # <<>> => (Before(Seqs!Last(c), u)' <=> Before(Seqs!Last(c), u))
    <3> DEFINE l == Seqs!Last(c)
    <3>1. l' = l
      BY DEF Seqs!Last
    <3> HIDE DEF l
    <3>2. l \in Utxo => (Before(l, u)' <=> Before(l, u))
      BY <1>1, <2>1, <3>1
    <3> QED
      BY <1>2, <3>2 DEF l
  <2> QED
    BY <2>2, <2>3
<1> QED
  BY <1>1, <1>3, <1>4 DEF ListInv

\* What the index adds and takes away while a request is watched.
LEMMA WatchKeeps ==
    ASSUME ReadInv, UNCHANGED <<owner, request>>,
           always' \subseteq always, ever \subseteq ever',
           DOMAIN utxos \subseteq DOMAIN utxos',
           stage # "none" => always' \subseteq unspent' /\ unspent' \subseteq ever'
    PROVE  ReadInv'
<1>1. Asked' = Asked /\ \A u, v \in Utxo : Before(u, v)' <=> Before(u, v)
  BY SameQuery DEF request
<1>2. /\ query' = query /\ stage' = stage /\ position' = position /\ rows' = rows
      /\ cursor' = cursor /\ pages' = pages /\ Collected' = Collected /\ (Ended' <=> Ended)
  BY DEF request, Collected, Ended
<1>3. RequestInv'
  <2>1. RequestInv /\ Queries' = Queries
    BY DEF ReadInv, Queries
  <2>2. \A p : At(p)' <=> At(p)
    BY <1>2 DEF At, unspent_key
  <2> QED
    BY <1>2, <2>1, <2>2 DEF RequestInv
<1>4. WatchInv'
  BY <1>2 DEF ReadInv, WatchInv
<1>5. ASSUME stage \notin {"none", "rejected"} PROVE ListInv'
  <2> DEFINE c == Collected
  <2>1. ListInv /\ pages \in Seq(Utxo) /\ rows \in Seq(Utxo)
    BY <1>5 DEF ReadInv, RequestInv
  <2>2. c \in Seq(Utxo) /\ Collected' = c
    BY <1>2, <2>1, CollectedIs DEF Collected
  <2>3. /\ Range(c) \subseteq ever' \cap Asked
        /\ \A j \in 1 .. Len(c) : \A i \in 1 .. j - 1 : Before(c[i], c[j])
        /\ \A u \in (always' \cap Asked) \ Range(c) :
              ~Ended' /\ (c # <<>> => Before(Seqs!Last(c), u))
    BY <1>2, <2>1 DEF ListInv
  <2> HIDE DEF c
  <2> QED
    BY <1>2, <2>2, <2>3, ListNext
<1> QED
  BY <1>2, <1>3, <1>4, <1>5 DEF ReadInv

\* What is ahead of the iterator.
LEMMA AheadIs ==
    ASSUME IInv, ReadInv, stage = "scan", NEW u \in unspent
    PROVE  /\ u \in Utxo
           /\ InRange(unspent_key(u)) /\ (rows # <<>> => Before(Seqs!Last(rows), u)) <=>
                 u \in Asked /\ (Collected # <<>> => Before(Seqs!Last(Collected), u))
<1>1. owner \in [Utxo -> Account] /\ u \in Utxo
  BY DEF IInv, Typed, StatusInv
<1>2. /\ query \in Queries /\ pages \in Seq(Utxo) /\ rows \in Seq(Utxo) /\ At(position)
      /\ ListInv
  BY DEF ReadInv, RequestInv
<1> DEFINE c == Collected
<1>3. /\ c \in Seq(Utxo) /\ Len(c) = Len(pages) + Len(rows)
      /\ \A i \in 1 .. Len(pages) : c[i] = pages[i]
      /\ Range(c) = Range(pages) \cup Range(rows)
      /\ rows = <<>> => c = pages
      /\ rows # <<>> => c # <<>> /\ Seqs!Last(c) = Seqs!Last(rows)
  BY <1>2, CollectedIs DEF Collected
<1>4. /\ Range(c) \subseteq Asked
      /\ \A j \in 1 .. Len(c) : \A i \in 1 .. j - 1 : Before(c[i], c[j])
  BY <1>2 DEF ListInv
<1> HIDE DEF c
<1>5. Range(pages) \subseteq Asked
  BY <1>3, <1>4
<1>6. InRange(unspent_key(u)) <=>
         u \in Asked /\ (pages # <<>> => Before(Seqs!Last(pages), u))
  BY <1>1, <1>2, <1>5, RangeIs
<1>7. CASE rows = <<>>
  BY <1>1, <1>3, <1>6, <1>7 DEF c
<1>8. CASE rows # <<>>
  <2> DEFINE p == Seqs!Last(pages)
             r == Seqs!Last(rows)
  <2>1. ASSUME pages # <<>>, Before(r, u) PROVE Before(p, u)
    <3>1. Len(pages) # 0 /\ Len(rows) # 0
      BY <1>2, <1>8, <2>1, EmptySeq
    <3>2. /\ Len(pages) \in 1 .. Len(pages) /\ Len(c) \in 1 .. Len(c)
          /\ Len(pages) \in 1 .. Len(c) - 1
      BY <1>2, <1>3, <3>1
    <3>3. c[Len(pages)] = p /\ c[Len(c)] = r
      BY <1>3, <1>8, <3>2 DEF Seqs!Last
    <3>4. p \in Utxo /\ r \in Utxo
      BY <1>3, <3>2, <3>3
    <3>5. Before(p, r)
      <4>1. Before(c[Len(pages)], c[Len(c)])
        BY <1>4, <3>2
      <4> HIDE DEF p, r
      <4> QED
        BY <3>3, <4>1
    <3> HIDE DEF p, r
    <3> QED
      BY <1>1, <2>1, <3>4, <3>5, BeforeOrder
  <2> QED
    BY <1>1, <1>3, <1>6, <1>8, <2>1 DEF c
<1> QED
  BY <1>7, <1>8

\* The first row of a first page.
LEMMA AskFirstRead == IInv /\ ReadInv /\ AskFirst /\ UNCHANGED vars => ReadInv'
<1> SUFFICES ASSUME IInv, ReadInv, AskFirst, UNCHANGED vars PROVE ReadInv'
  OBVIOUS
<1>1. /\ stage = "none" /\ stage' = "scan" /\ query' \in Queries
      /\ always' = unspent /\ ever' = unspent
      /\ UNCHANGED <<position, rows, cursor, pages>>
      /\ UNCHANGED <<owner, unspent, utxos>>
  BY DEF AskFirst, vars, chain, store
<1>2. rows = <<>> /\ pages = <<>> /\ position = <<>>
  BY <1>1 DEF ReadInv, RequestInv
<1>3. RequestInv'
  <2>1. Queries' = Queries /\ At(position)'
    BY <1>1, <1>2 DEF Queries, At
  <2> QED
    BY <1>1, <1>2, <2>1 DEF ReadInv, RequestInv
<1>4. WatchInv'
  BY <1>1 DEF ReadInv, WatchInv
<1>5. ListInv'
  <2>1. Collected' = <<>>
    BY <1>1, <1>2, EmptySeq, ConcatEmptySeq DEF Collected
  <2>2. Range(<<>>) = {} /\ Len(<<>>) = 0
    BY DEF Range
  <2>3. ~Ended'
    BY <1>1 DEF Ended
  <2> QED
    BY <2>1, <2>2, <2>3 DEF ListInv
<1> QED
  BY <1>1, <1>3, <1>4, <1>5 DEF ReadInv

\* The next page goes on where the cursor says, which is where the last ended.
LEMMA AskNextRead == IInv /\ ReadInv /\ AskNext /\ UNCHANGED vars => ReadInv'
<1> SUFFICES ASSUME IInv, ReadInv, AskNext, UNCHANGED vars PROVE ReadInv'
  OBVIOUS
<1>1. /\ stage = "more" /\ query' \in Queries /\ position' = cursor.position
      /\ stage' = IF Decodes(query') THEN "scan" ELSE "rejected"
      /\ UNCHANGED <<rows, cursor>> /\ UNCHANGED <<owner, unspent, utxos>>
      /\ IF query' = query THEN UNCHANGED <<pages, always, ever>>
         ELSE pages' = <<>> /\ always' = unspent /\ ever' = unspent
  BY DEF AskNext, vars, chain, store
<1>2. /\ rows = <<>> /\ pages # <<>> /\ pages \in Seq(Utxo) /\ At(cursor.position)
      /\ cursor.query = query /\ ListInv /\ WatchInv /\ Queries' = Queries
  BY <1>1 DEF ReadInv, RequestInv, Queries
<1>3. CASE query' = query
  <2>1. stage' = "scan" /\ UNCHANGED <<pages, always, ever>>
    BY <1>1, <1>2, <1>3 DEF Decodes
  <2>2. At(position)'
    <3>1. /\ position' # <<>>
          /\ query.owner \o position' = unspent_key(Seqs!Last(pages))
      BY <1>1, <1>2 DEF At
    <3>2. unspent_key(Seqs!Last(pages))' = unspent_key(Seqs!Last(pages))
      BY <1>1, <2>1 DEF unspent_key, Seqs!Last
    <3> QED
      BY <1>2, <1>3, <2>1, <3>1, <3>2 DEF At
  <2>3. RequestInv'
    BY <1>1, <1>2, <2>1, <2>2 DEF ReadInv, RequestInv
  <2>4. WatchInv'
    BY <1>1, <1>2, <2>1 DEF WatchInv
  <2>5. ListInv'
    <3> DEFINE c == Collected
    <3>1. c \in Seq(Utxo) /\ Collected' = c
      BY <1>1, <1>2, <2>1, EmptySeq, CollectedIs DEF Collected
    <3>2. /\ Range(c) \subseteq ever' \cap Asked
          /\ \A j \in 1 .. Len(c) : \A i \in 1 .. j - 1 : Before(c[i], c[j])
          /\ \A u \in (always' \cap Asked) \ Range(c) :
                c # <<>> => Before(Seqs!Last(c), u)
      BY <1>2, <2>1 DEF ListInv
    <3>3. ~Ended'
      BY <2>1 DEF Ended
    <3> HIDE DEF c
    <3> QED
      BY <1>1, <1>3, <3>1, <3>2, <3>3, ListNext
  <2> QED
    BY <2>1, <2>3, <2>4, <2>5 DEF ReadInv
<1>4. CASE query' # query
  <2>1. stage' = "rejected"
    BY <1>1, <1>2, <1>4 DEF Decodes
  <2>2. RequestInv'
    BY <1>1, <1>2, <1>4, <2>1, EmptySeq DEF ReadInv, RequestInv
  <2>3. WatchInv'
    BY <1>1, <1>2, <1>4, <2>1 DEF WatchInv
  <2> QED
    BY <2>1, <2>2, <2>3 DEF ReadInv
<1> QED
  BY <1>3, <1>4

\* The iterator takes the next entry, or is at the end.
LEMMA ScanRead == IInv /\ ReadInv /\ Scan /\ UNCHANGED vars => ReadInv'
<1> SUFFICES ASSUME IInv, ReadInv, Scan, UNCHANGED vars PROVE ReadInv'
  OBVIOUS
<1> DEFINE ahead == {u \in unspent : /\ InRange(unspent_key(u))
                                     /\ rows # <<>> => Before(Seqs!Last(rows), u)}
           c == Collected
<1>1. /\ stage = "scan" /\ UNCHANGED <<query, position, cursor, pages, always, ever>>
      /\ UNCHANGED <<owner, unspent, utxos>> /\ owner \in [Utxo -> Account]
  BY DEF Scan, vars, chain, store, IInv, Typed
<1>2. /\ query \in Queries /\ pages \in Seq(Utxo) /\ rows \in Seq(Utxo) /\ At(position)
      /\ Len(rows) <= Count + 1 /\ ListInv /\ WatchInv /\ Queries' = Queries
  BY <1>1 DEF ReadInv, RequestInv, Queries
<1>3. unspent \subseteq Utxo /\ unspent \subseteq DOMAIN utxos
  BY DEF IInv, StatusInv
<1>4. \A u \in unspent :
         u \in ahead <=> u \in Asked /\ (c # <<>> => Before(Seqs!Last(c), u))
  BY <1>1, AheadIs
<1>5. /\ c \in Seq(Utxo)
      /\ Range(c) \subseteq ever \cap Asked
      /\ \A j \in 1 .. Len(c) : \A i \in 1 .. j - 1 : Before(c[i], c[j])
      /\ \A u \in (always \cap Asked) \ Range(c) : c # <<>> => Before(Seqs!Last(c), u)
  BY <1>2, CollectedIs DEF ListInv, Collected
<1>6. At(position)'
  BY <1>1, <1>2 DEF At, unspent_key, Seqs!Last
<1>7. /\ Len(rows) > Count \/ ahead = {} => stage' = "records" /\ rows' = rows
      /\ ~(Len(rows) > Count \/ ahead = {}) =>
            /\ \E u \in ahead : /\ \A v \in ahead \ {u} : Before(u, v)
                                /\ rows' = Append(rows, u)
            /\ stage' = "scan"
  BY <1>1 DEF Scan
<1>8. ahead \subseteq unspent
  OBVIOUS
<1> HIDE DEF ahead, c
<1>9. always \subseteq unspent /\ unspent \subseteq ever
  BY <1>1, <1>2 DEF WatchInv
<1>10. CASE Len(rows) > Count \/ ahead = {}
  <2>1. stage' = "records" /\ rows' = rows
    BY <1>7, <1>10
  <2>2. RequestInv'
    BY <1>1, <1>2, <1>6, <2>1 DEF RequestInv
  <2>3. WatchInv'
    BY <1>1, <1>2, <2>1 DEF WatchInv
  <2>4. Collected' = c
    BY <1>1, <2>1 DEF Collected, c
  <2>5. Ended' <=> Len(rows) <= Count
    BY <2>1 DEF Ended
  <2>6. ASSUME NEW u \in (always' \cap Asked) \ Range(c)
        PROVE  ~Ended' /\ (c # <<>> => Before(Seqs!Last(c), u))
    <3>1. u \in (always \cap Asked) \ Range(c)
      BY <1>1
    <3>2. u \in unspent /\ (c # <<>> => Before(Seqs!Last(c), u))
      BY <1>5, <1>9, <3>1
    <3>3. u \in ahead
      BY <1>4, <3>1, <3>2
    <3>4. Len(rows) > Count
      BY <1>10, <3>3
    <3>5. Len(rows) \in Nat /\ Count \in Nat
      BY <1>2, CountReadAssumption
    <3> QED
      BY <2>5, <3>2, <3>4, <3>5
  <2>7. Range(c) \subseteq ever' \cap Asked
    BY <1>1, <1>5
  <2>8. ListInv'
    BY <1>1, <1>5, <2>4, <2>6, <2>7, ListNext
  <2> QED
    BY <2>2, <2>3, <2>8 DEF ReadInv
<1>11. CASE ~(Len(rows) > Count \/ ahead = {})
  <2>1. PICK u \in ahead : (\A v \in ahead \ {u} : Before(u, v)) /\ rows' = Append(rows, u)
    BY <1>7, <1>11
  <2>2. stage' = "scan"
    BY <1>7, <1>11
  <2>3. u \in unspent /\ u \in Utxo /\ u \in Asked /\ (c # <<>> => Before(Seqs!Last(c), u))
    BY <1>3, <1>4, <1>8, <2>1
  <2> DEFINE d == Append(c, u)
  <2>4. /\ d \in Seq(Utxo) /\ Len(d) = Len(c) + 1 /\ d # <<>>
        /\ \A i \in 1 .. Len(c) : d[i] = c[i]
        /\ d[Len(d)] = u /\ Seqs!Last(d) = u
        /\ Range(d) = Range(c) \cup {u}
    BY <1>5, <2>3, Appended
  <2>5. Collected' = d
    BY <1>1, <1>2, <2>1, <2>3, CollectedNext DEF Collected, c
  <2>6. RequestInv'
    <3>1. rows' \in Seq(Utxo) /\ Len(rows') = Len(rows) + 1
      BY <1>2, <2>1, <2>3
    <3>2. Len(rows') <= Count + 1
      <4>1. Len(rows) \in Nat /\ Count \in Nat /\ ~(Len(rows) > Count)
        BY <1>2, <1>11, CountReadAssumption
      <4> QED
        BY <3>1, <4>1
    <3> QED
      BY <1>1, <1>2, <1>6, <2>2, <3>1, <3>2 DEF RequestInv
  <2>7. WatchInv'
    <3>1. Range(rows') = Range(rows) \cup {u}
      BY <1>2, <2>1, <2>3, Appended
    <3>2. Range(rows') \subseteq DOMAIN utxos
      BY <1>2, <1>3, <2>3, <3>1 DEF WatchInv
    <3> QED
      BY <1>1, <1>9, <3>2 DEF WatchInv
  <2> HIDE DEF d
  <2>8. Range(d) \subseteq ever' \cap Asked
    BY <1>1, <1>5, <1>9, <2>3, <2>4
  <2>9. ASSUME NEW j \in 1 .. Len(d), NEW i \in 1 .. j - 1 PROVE Before(d[i], d[j])
    <3>1. CASE j \in 1 .. Len(c)
      <4>1. i \in 1 .. Len(c) /\ d[i] = c[i] /\ d[j] = c[j]
        BY <1>5, <2>4, <3>1
      <4> QED
        BY <1>5, <3>1, <4>1
    <3>2. CASE j = Len(c) + 1
      <4>1. i \in 1 .. Len(c) /\ d[i] = c[i] /\ d[j] = u /\ Len(c) \in 1 .. Len(c)
        BY <1>5, <2>4, <3>2
      <4>2. c # <<>> /\ Seqs!Last(c) = c[Len(c)] /\ c[Len(c)] \in Utxo /\ c[i] \in Utxo
        BY <1>5, <4>1, EmptySeq DEF Seqs!Last
      <4>3. Before(c[Len(c)], u)
        BY <2>3, <4>2
      <4>4. CASE i = Len(c)
        BY <4>1, <4>3, <4>4
      <4>5. CASE i # Len(c)
        <5>1. i \in 1 .. Len(c) - 1
          BY <4>1, <4>5
        <5>2. Before(c[i], c[Len(c)])
          BY <1>5, <4>1, <5>1
        <5>3. Before(c[i], u)
          BY <1>1, <2>3, <4>2, <4>3, <5>2, BeforeOrder
        <5> QED
          BY <4>1, <5>3
      <4> QED
        BY <4>4, <4>5
    <3>3. j \in 1 .. Len(c) \/ j = Len(c) + 1
      BY <1>5, <2>4
    <3> QED
      BY <3>1, <3>2, <3>3
  <2>10. ASSUME NEW v \in (always' \cap Asked) \ Range(d)
         PROVE  ~Ended' /\ (d # <<>> => Before(Seqs!Last(d), v))
    <3>1. v \in (always \cap Asked) \ Range(c) /\ v # u
      BY <1>1, <2>4
    <3>2. v \in unspent /\ v \in ahead
      BY <1>4, <1>5, <1>9, <3>1
    <3>3. Before(u, v)
      BY <2>1, <3>1, <3>2
    <3>4. ~Ended'
      BY <2>2 DEF Ended
    <3> QED
      BY <2>4, <3>3, <3>4
  <2>11. ListInv'
    BY <1>1, <2>4, <2>5, <2>8, <2>9, <2>10, ListNext
  <2> QED
    BY <2>6, <2>7, <2>11 DEF ReadInv
<1> QED
  BY <1>10, <1>11

\* A page ends the list, or leaves a further row for the next one.
LEMMA ReadRecordsRead == IInv /\ ReadInv /\ ReadRecords /\ UNCHANGED vars => ReadInv'
<1> SUFFICES ASSUME IInv, ReadInv, ReadRecords, UNCHANGED vars PROVE ReadInv'
  OBVIOUS
<1> DEFINE c == Collected
           page == SubSeq(rows, 1, IF Len(rows) > Count THEN Count ELSE Len(rows))
<1>1. /\ stage = "records" /\ rows' = <<>> /\ UNCHANGED <<query, position, always, ever>>
      /\ UNCHANGED <<owner, unspent, utxos>> /\ owner \in [Utxo -> Account]
  BY DEF ReadRecords, vars, chain, store, IInv, Typed
<1>2. /\ query \in Queries /\ pages \in Seq(Utxo) /\ rows \in Seq(Utxo)
      /\ Len(rows) <= Count + 1 /\ ListInv /\ WatchInv /\ Queries' = Queries
  BY <1>1 DEF ReadInv, RequestInv, Queries
<1>3. /\ c \in Seq(Utxo)
      /\ Range(c) \subseteq ever \cap Asked
      /\ \A j \in 1 .. Len(c) : \A i \in 1 .. j - 1 : Before(c[i], c[j])
      /\ \A u \in (always \cap Asked) \ Range(c) :
            ~Ended /\ (c # <<>> => Before(Seqs!Last(c), u))
  BY <1>2, CollectedIs DEF ListInv, Collected
<1>4. Len(rows) \in Nat /\ Count \in Nat \ {0}
  BY <1>2, CountReadAssumption
<1>5. WatchInv'
  <2>1. Range(<<>>) = {}
    BY DEF Range
  <2>2. stage # "none" /\ Range(rows') \subseteq DOMAIN utxos
    BY <1>1, <2>1
  <2> QED
    BY <1>1, <1>2, <2>2 DEF WatchInv
<1>6. (\E u \in Range(page) : u \notin DOMAIN utxos) \/
      /\ pages' = pages \o page
      /\ IF Len(rows) > Count
         THEN /\ stage' = "more"
              /\ cursor' = [query |-> query,
                            position |-> SubSeq(unspent_key(Seqs!Last(page)), Len(query.owner) + 1,
                                                Len(unspent_key(Seqs!Last(page))))]
         ELSE stage' = "ok" /\ UNCHANGED cursor
  BY DEF ReadRecords
<1> HIDE DEF c
<1>7. CASE ~(Len(rows) > Count)
  <2>1. page = rows
    BY <1>2, <1>7
  <2>2. ~\E u \in Range(page) : u \notin DOMAIN utxos
    BY <1>2, <2>1 DEF WatchInv
  <2>3. pages' = c /\ stage' = "ok"
    BY <1>6, <1>7, <2>1, <2>2 DEF c, Collected
  <2>4. Collected' = c
    BY <1>1, <1>3, <2>3, EmptySeq, CollectedIs DEF Collected
  <2>5. RequestInv'
    BY <1>1, <1>2, <1>3, <1>4, <2>3, EmptySeq DEF RequestInv
  <2>6. Ended
    BY <1>1, <1>4, <1>7 DEF Ended
  <2>7. Range(c) \subseteq ever' \cap Asked
    BY <1>1, <1>3
  <2>8. \A u \in (always' \cap Asked) \ Range(c) :
           ~Ended' /\ (c # <<>> => Before(Seqs!Last(c), u))
    BY <1>1, <1>3, <2>6
  <2>9. ListInv'
    BY <1>1, <1>3, <2>4, <2>7, <2>8, ListNext
  <2> QED
    BY <1>5, <2>5, <2>9 DEF ReadInv
<1>8. CASE Len(rows) > Count
  <2>1. Len(rows) = Count + 1
    BY <1>2, <1>4, <1>8
  <2>2. page = SubSeq(rows, 1, Count)
    BY <1>8
  <2> HIDE DEF page
  <2> DEFINE x == rows[Count + 1]
             p == pages \o page
  <2>3. page \in Seq(Utxo) /\ Len(page) = Count /\ x \in Utxo /\ rows = Append(page, x)
    BY <1>2, <1>4, <2>1, <2>2, PageOfRows
  <2>4. c = Append(p, x)
    <3>1. c = pages \o rows
      BY DEF c, Collected
    <3> HIDE DEF x, c
    <3>2. pages \o Append(page, x) = Append(p, x)
      BY <1>2, <2>3, CollectedNext
    <3> HIDE DEF p
    <3> QED
      BY <2>3, <3>1, <3>2
  <2>5. /\ p \in Seq(Utxo) /\ page # <<>> /\ p # <<>> /\ Seqs!Last(p) = Seqs!Last(page)
        /\ Range(p) = Range(pages) \cup Range(page)
    <3>1. page # <<>>
      BY <1>4, <2>3, EmptySeq
    <3> QED
      BY <1>2, <2>3, <3>1, CollectedIs
  <2> HIDE DEF x, p
  <2>6. /\ Len(c) = Len(p) + 1 /\ c[Len(c)] = x /\ Seqs!Last(c) = x
        /\ \A i \in 1 .. Len(p) : c[i] = p[i]
        /\ Range(c) = Range(p) \cup {x} /\ c # <<>>
    BY <2>3, <2>4, <2>5, Appended
  <2>7. Len(p) \in 1 .. Len(p) /\ Len(c) \in 1 .. Len(c) /\ Len(p) \in 1 .. Len(c) - 1
    BY <1>3, <2>5, <2>6, EmptySeq
  <2>8. Seqs!Last(p) \in Utxo /\ Seqs!Last(p) \in Asked /\ Before(Seqs!Last(p), x)
    <3>1. Seqs!Last(p) = c[Len(p)]
      BY <2>6, <2>7 DEF Seqs!Last
    <3>2. Before(c[Len(p)], c[Len(c)])
      BY <1>3, <2>7
    <3>3. c[Len(p)] \in Range(p) /\ c[Len(p)] \in Utxo
      BY <2>5, <2>6, <2>7 DEF Range
    <3> QED
      BY <1>3, <2>6, <3>1, <3>2, <3>3
  <2>9. ~\E u \in Range(page) : u \notin DOMAIN utxos
    <3>1. Range(page) \subseteq Range(rows)
      BY <2>3, Appended
    <3> QED
      BY <1>2, <3>1 DEF WatchInv
  <2> DEFINE l == unspent_key(Seqs!Last(page))
             t == SubSeq(l, Len(query.owner) + 1, Len(l))
  <2>10. pages' = p /\ stage' = "more" /\ cursor' = [query |-> query, position |-> t]
    BY <1>6, <1>8, <2>9 DEF p
  <2>11. t # <<>> /\ query.owner \o t = l
    <3>1. /\ query.owner \in Seq(Byte) /\ l \in Seq(Byte)
          /\ Has(l, query.owner) /\ Len(query.owner) < Len(l)
      <4> DEFINE u == Seqs!Last(page)
      <4>1. u \in Utxo /\ OwnerBytes[owner[u]] = query.owner
        BY <2>5, <2>8 DEF Asked
      <4>2. /\ OwnerBytes[owner[u]] \in Seq(Byte) /\ TokenBytes[owner[u]] \in Seq(Byte)
            /\ UtxoBytes[u] \in Seq(Byte) /\ Len(UtxoBytes[u]) > 0
            /\ unspent_key(u) \in Seq(Byte)
            /\ Len(unspent_key(u)) =
                  Len(OwnerBytes[owner[u]]) + Len(TokenBytes[owner[u]]) + Len(UtxoBytes[u])
            /\ Has(unspent_key(u), OwnerBytes[owner[u]])
        BY <1>1, <4>1, KeyParts
      <4> HIDE DEF u
      <4>3. Len(OwnerBytes[owner[u]]) < Len(unspent_key(u))
        <5>1. /\ Len(OwnerBytes[owner[u]]) \in Nat /\ Len(TokenBytes[owner[u]]) \in Nat
              /\ Len(UtxoBytes[u]) \in Nat
          BY <4>2
        <5>2. \A a1, b1, c1 \in Nat : c1 > 0 => a1 < a1 + b1 + c1
          OBVIOUS
        <5> QED
          BY <4>2, <5>1, <5>2
      <4> QED
        BY <4>1, <4>2, <4>3 DEF u
    <3> HIDE DEF l
    <3> QED
      BY <3>1, KeyTail
  <2>12. At(cursor.position)'
    <3>1. cursor'.position = t /\ query' = query /\ pages' = p
      BY <1>1, <2>10
    <3>2. unspent_key(Seqs!Last(pages))' = l
      <4>1. Seqs!Last(pages)' = Seqs!Last(page)
        BY <2>5, <3>1 DEF Seqs!Last
      <4> DEFINE u == Seqs!Last(page)
      <4> HIDE DEF u
      <4>2. Seqs!Last(pages)' = u
        BY <4>1 DEF u
      <4>3. unspent_key(Seqs!Last(pages))' = unspent_key(u)
        BY <1>1, <4>2 DEF unspent_key
      <4> QED
        BY <4>3 DEF u
    <3> HIDE DEF t, l
    <3> QED
      BY <2>5, <2>11, <3>1, <3>2 DEF At
  <2> HIDE DEF t, l
  <2>13. RequestInv'
    <3>1. /\ cursor'.query = query' /\ pages' = p /\ p # <<>> /\ p \in Seq(Utxo)
          /\ stage' = "more" /\ query' = query
      BY <1>1, <2>5, <2>10
    <3>2. rows' \in Seq(Utxo) /\ Len(rows') = 0
      BY <1>1, EmptySeq
    <3>3. Len(rows') <= Count + 1
      BY <1>4, <3>2
    <3> QED
      BY <1>1, <1>2, <2>12, <3>1, <3>2, <3>3 DEF RequestInv
  <2>14. Collected' = p
    BY <1>1, <2>5, <2>10, EmptySeq, CollectedIs DEF Collected
  <2>15. Range(p) \subseteq ever' \cap Asked
    BY <1>1, <1>3, <2>6
  <2>16. \A j \in 1 .. Len(p) : \A i \in 1 .. j - 1 : Before(p[i], p[j])
    <3>1. \A j \in 1 .. Len(p) : \A i \in 1 .. j - 1 :
             i \in 1 .. Len(p) /\ j \in 1 .. Len(c)
      BY <2>5, <2>6
    <3> QED
      BY <1>3, <2>6, <3>1
  <2>17. ASSUME NEW u \in (always' \cap Asked) \ Range(p)
         PROVE  ~Ended' /\ (p # <<>> => Before(Seqs!Last(p), u))
    <3>1. ~Ended'
      BY <2>10 DEF Ended
    <3>2. CASE u = x
      BY <2>8, <3>1, <3>2
    <3>3. CASE u # x
      <4>1. u \in (always \cap Asked) \ Range(c) /\ u \in Utxo
        BY <1>1, <2>6, <3>3 DEF Asked
      <4>2. Before(x, u)
        BY <1>3, <2>6, <4>1
      <4> QED
        BY <1>1, <2>3, <2>8, <3>1, <4>1, <4>2, BeforeOrder
    <3> QED
      BY <3>2, <3>3
  <2>18. ListInv'
    BY <1>1, <2>5, <2>14, <2>15, <2>16, <2>17, ListNext
  <2> QED
    BY <1>5, <2>13, <2>18 DEF ReadInv
<1> QED
  BY <1>7, <1>8

\* After an answer the client may ask for something else.
LEMMA ClearRead == Clear => ReadInv'
<1> SUFFICES ASSUME Clear PROVE ReadInv'
  OBVIOUS
<1>1. stage' = "none" /\ position' = <<>> /\ rows' = <<>> /\ pages' = <<>>
  BY DEF Clear
<1>2. Range(<<>>) = {} /\ <<>> \in Seq(Utxo) /\ Len(<<>>) = 0
  BY EmptySeq DEF Range
<1>3. RequestInv'
  BY <1>1, <1>2, CountReadAssumption DEF RequestInv
<1>4. WatchInv'
  BY <1>1, <1>2 DEF WatchInv
<1> QED
  BY <1>1, <1>3, <1>4 DEF ReadInv

\* Before the first request nothing is collected.
LEMMA ReadInitInv == ReadInit => ReadInv
<1> SUFFICES ASSUME ReadInit PROVE ReadInv
  OBVIOUS
<1>1. stage = "none" /\ position = <<>> /\ rows = <<>> /\ pages = <<>>
  BY DEF ReadInit
<1>2. Range(<<>>) = {} /\ <<>> \in Seq(Utxo) /\ Len(<<>>) = 0
  BY EmptySeq DEF Range
<1>3. RequestInv
  BY <1>1, <1>2, CountReadAssumption DEF RequestInv
<1>4. WatchInv
  BY <1>1, <1>2 DEF WatchInv
<1> QED
  BY <1>1, <1>3, <1>4 DEF ReadInv

\* Transactions of a block, commits and deaths while a request is under way.
LEMMA PipelineRead ==
    ASSUME IInv, ReadInv,
           \/ AddTransaction /\ UNCHANGED <<request, always, ever>>
           \/ /\ CommitBlock /\ UNCHANGED request
              /\ IF stage = "none" THEN UNCHANGED <<always, ever>> ELSE Watch
           \/ CrashReading
    PROVE  ReadInv'
<1>1. stage # "none" => always \subseteq unspent /\ unspent \subseteq ever
  BY DEF ReadInv, WatchInv
<1>2. CASE AddTransaction /\ UNCHANGED <<request, always, ever>>
  <2>1. UNCHANGED <<owner, utxos, unspent>>
    BY <1>2 DEF AddTransaction, chain, store
  <2> QED
    BY <1>1, <1>2, <2>1, WatchKeeps
<1>3. CASE /\ CommitBlock /\ UNCHANGED request
           /\ IF stage = "none" THEN UNCHANGED <<always, ever>> ELSE Watch
  <2>1. owner' = owner /\ DOMAIN utxos \subseteq DOMAIN utxos'
    BY <1>3 DEF CommitBlock, chain, store
  <2> QED
    BY <1>1, <1>3, <2>1, WatchKeeps DEF Watch
<1>4. CASE CrashReading
  <2>1. CASE Clear
    BY <2>1, ClearRead
  <2>2. CASE UNCHANGED <<request, always, ever>>
    <3>1. UNCHANGED <<owner, utxos, unspent>>
      BY <1>4 DEF CrashReading, Crash, chain, store
    <3> QED
      BY <1>1, <2>2, <3>1, WatchKeeps
  <2> QED
    BY <1>4, <2>1, <2>2 DEF CrashReading
<1> QED
  BY <1>2, <1>3, <1>4

\* Every step preserves the invariant.
LEMMA ReadStep == IInv /\ ReadInv /\ [ReadNext]_readVars => ReadInv'
<1> SUFFICES ASSUME IInv, ReadInv, [ReadNext]_readVars PROVE ReadInv'
  OBVIOUS
<1>1. CASE UNCHANGED readVars
  <2>1. UNCHANGED <<owner, utxos, unspent>> /\ UNCHANGED <<request, always, ever>>
    BY <1>1 DEF readVars, vars, chain, store
  <2>2. stage # "none" => always \subseteq unspent /\ unspent \subseteq ever
    BY DEF ReadInv, WatchInv
  <2> QED
    BY <2>1, <2>2, WatchKeeps
<1>2. CASE \/ AddTransaction /\ UNCHANGED <<request, always, ever>>
           \/ /\ CommitBlock /\ UNCHANGED request
              /\ IF stage = "none" THEN UNCHANGED <<always, ever>> ELSE Watch
           \/ CrashReading
  BY <1>2, PipelineRead
<1>3. CASE (AskFirst \/ AskNext \/ Scan \/ ReadRecords \/ Answered) /\ UNCHANGED vars
  BY <1>3, AskFirstRead, AskNextRead, ScanRead, ReadRecordsRead, ClearRead DEF Answered
<1> QED
  BY <1>1, <1>2, <1>3 DEF ReadNext

\* So it holds throughout.
LEMMA ReadInductive == ReadSpec => []ReadInv
<1>1. ReadInit => ReadInv
  BY ReadInitInv
<1>2. IInv /\ ReadInv /\ [ReadNext]_readVars => ReadInv'
  BY ReadStep
<1> QED
  BY <1>1, <1>2, ReadIndexInductive, PTL DEF ReadSpec

\* Following the cursors, a client gets each UTXO of its query that was unspent
\* all along, once and in key order, and none that never was, for any page
\* size and order, whatever is committed between and within the pages.
THEOREM PagesAreOfUnspent == ReadSpec => []PagesOfUnspent
<1>1. IInv /\ ReadInv => PagesOfUnspent
  <2> SUFFICES ASSUME ReadInv PROVE PagesOfUnspent
    OBVIOUS
  <2>1. stage # "failed" /\ pages \in Seq(Utxo)
    BY DEF ReadInv, RequestInv
  <2>2. ASSUME stage = "ok"
        PROVE  /\ always \cap Asked \subseteq Range(pages)
               /\ Range(pages) \subseteq ever \cap Asked
               /\ \A i \in 1 .. Len(pages) - 1 : Before(pages[i], pages[i + 1])
    <3>1. rows = <<>> /\ ListInv /\ Ended
      BY <2>2 DEF ReadInv, RequestInv, Ended
    <3>2. Collected = pages
      BY <2>1, <3>1, EmptySeq, CollectedIs DEF Collected
    <3>3. \A i \in 1 .. Len(pages) - 1 : i + 1 \in 1 .. Len(pages) /\ i \in 1 .. (i + 1) - 1
      BY <2>1
    <3> QED
      BY <3>1, <3>2, <3>3 DEF ListInv
  <2> QED
    BY <2>1, <2>2 DEF PagesOfUnspent
<1> QED
  BY <1>1, ReadIndexInductive, ReadInductive, PTL
=============================================================================
