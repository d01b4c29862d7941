---------------------------- MODULE ApiReadsProofs ----------------------------
(***************************************************************************)
(* Proofs about the store and those who read it while it is written.       *)
(* First, for any blocks of any transactions, every prefix of a batch and  *)
(* every crash: that nothing at or below the cursor is missing, that a     *)
(* contract's pointers are its first and its last successful action, and   *)
(* that no state blob is written twice.  Then, for any number of requests  *)
(* of any client while blocks are being committed: that a contract and its *)
(* state are always served, that lists are too, and that the pages of a    *)
(* list are the list at its anchor.                                        *)
(***************************************************************************)
EXTENDS ApiReads, SequenceTheorems, FiniteSetTheorems, WellFoundedInduction, TLAPS

(* Numbers *)

\* Of numbers with an upper bound one is the greatest.
LEMMA Greatest ==
    ASSUME NEW N \in Nat, NEW S \in SUBSET (0 .. N), S # {}
    PROVE  \E m \in S : \A n \in S : n <= m
<1> DEFINE T == {N - n : n \in S}
           R == OpToRel(<, Nat)
<1>1. T \subseteq Nat /\ T # {}
  <2>1. \A n \in S : n \in 0 .. N /\ N - n \in Nat
    OBVIOUS
  <2> QED
    BY <2>1
<1>2. PICK x \in T : \A y \in T : ~(<<y, x>> \in R)
  <2> HIDE DEF T
  <2> QED
    BY <1>1, NatLessThanWellFounded, WFMin
<1>3. \A y \in T : x <= y
  <2>1. SUFFICES ASSUME NEW y \in T PROVE x <= y
    OBVIOUS
  <2>2. x \in Nat /\ y \in Nat
    BY <1>1
  <2>3. y < x => <<y, x>> \in R
    BY <2>2 DEF OpToRel
  <2>4. ~(y < x)
    BY <1>2, <2>1, <2>3
  <2> QED
    BY <2>2, <2>4
<1>4. PICK m \in S : x = N - m
  OBVIOUS
<1>5. ASSUME NEW n \in S PROVE n <= m
  <2>1. N - m <= N - n
    BY <1>3, <1>4
  <2>2. n \in 0 .. N /\ m \in 0 .. N
    BY <1>4
  <2> QED
    BY <2>1, <2>2
<1> QED
  BY <1>4, <1>5

LEMMA Least ==
    ASSUME NEW S \in SUBSET Nat, S # {}
    PROVE  \E m \in S : \A n \in S : m <= n
<1> DEFINE R == OpToRel(<, Nat)
<1>1. PICK m \in S : \A y \in S : ~(<<y, m>> \in R)
  BY NatLessThanWellFounded, WFMin
<1>2. ASSUME NEW n \in S PROVE m <= n
  <2>1. n < m => <<n, m>> \in R
    BY DEF OpToRel
  <2>2. ~(n < m)
    BY <1>1, <2>1
  <2> QED
    BY <2>2
<1> QED
  BY <1>2

LEMMA MaxIs ==
    ASSUME NEW S \in SUBSET Int, NEW m \in S, \A n \in S : n <= m
    PROVE  Max(S) = m
<1>1. \A x \in S : (\A y \in S : x >= y) => x = m
  <2> SUFFICES ASSUME NEW x \in S, \A y \in S : x >= y PROVE x = m
    OBVIOUS
  <2>1. x >= m /\ x <= m /\ x \in Int /\ m \in Int
    OBVIOUS
  <2> QED
    BY <2>1
<1>2. \A y \in S : m >= y
  OBVIOUS
<1> QED
  BY <1>1, <1>2 DEF Max

LEMMA MinIs ==
    ASSUME NEW S \in SUBSET Int, NEW m \in S, \A n \in S : m <= n
    PROVE  Min(S) = m
<1>1. \A x \in S : (\A y \in S : x =< y) => x = m
  <2> SUFFICES ASSUME NEW x \in S, \A y \in S : x =< y PROVE x = m
    OBVIOUS
  <2>1. x =< m /\ m =< x /\ x \in Int /\ m \in Int
    OBVIOUS
  <2> QED
    BY <2>1
<1> QED
  BY <1>1 DEF Min

----------------------------------------------------------------------------
(* Rows made visible one after another *)

IsSeq(rows) == rows \in Seq(ToSet(rows))

LEMMA SeqFacts ==
    ASSUME NEW rows, IsSeq(rows)
    PROVE  /\ Len(rows) \in Nat /\ DOMAIN rows = 1 .. Len(rows)
           /\ \A i \in 1 .. Len(rows) : rows[i] \in ToSet(rows)
BY DEF IsSeq, ToSet

LEMMA SeqOfAny ==
    ASSUME NEW S, NEW rows \in Seq(S)
    PROVE  IsSeq(rows)
<1>1. /\ Len(rows) \in Nat /\ DOMAIN rows = 1 .. Len(rows)
      /\ rows = [i \in 1 .. Len(rows) |-> rows[i]]
  OBVIOUS
<1>2. \A i \in 1 .. Len(rows) : rows[i] \in ToSet(rows)
  BY <1>1 DEF ToSet
<1>3. rows \in [1 .. Len(rows) -> ToSet(rows)]
  BY <1>1, <1>2
<1> QED
  BY <1>1, <1>3 DEF IsSeq

LEMMA AppendSeq ==
    ASSUME NEW rows, IsSeq(rows), NEW row
    PROVE  /\ IsSeq(Append(rows, row)) /\ Len(Append(rows, row)) = Len(rows) + 1
           /\ \A i \in 1 .. Len(rows) : Append(rows, row)[i] = rows[i]
           /\ Append(rows, row)[Len(rows) + 1] = row
           /\ rows \o <<row>> = Append(rows, row)
<1> DEFINE S == ToSet(rows) \cup {row}
<1>1. rows \in Seq(S) /\ row \in S
  BY SeqMonotonic DEF IsSeq
<1> HIDE DEF S
<1>2. /\ Append(rows, row) \in Seq(S) /\ Len(Append(rows, row)) = Len(rows) + 1
      /\ \A i \in 1 .. Len(rows) : Append(rows, row)[i] = rows[i]
      /\ Append(rows, row)[Len(rows) + 1] = row
  BY <1>1, AppendProperties
<1>3. rows \o <<row>> = Append(rows, row)
  BY <1>1, AppendIsConcat
<1> QED
  BY <1>2, <1>3, SeqOfAny

LEMMA TailSeq ==
    ASSUME NEW rows, IsSeq(rows), rows # <<>>
    PROVE  /\ IsSeq(Tail(rows)) /\ Len(Tail(rows)) = Len(rows) - 1
           /\ \A i \in 1 .. Len(rows) - 1 : Tail(rows)[i] = rows[i + 1]
           /\ Head(rows) = rows[1] /\ Len(rows) \in Nat /\ Len(rows) >= 1
<1>1. /\ Tail(rows) \in Seq(ToSet(rows)) /\ Len(Tail(rows)) = Len(rows) - 1
      /\ \A i \in 1 .. Len(Tail(rows)) : Tail(rows)[i] = rows[i + 1]
  BY HeadTailProperties DEF IsSeq
<1>2. Head(rows) = rows[1] /\ Len(rows) \in Nat /\ Len(rows) >= 1
  BY EmptySeq DEF IsSeq
<1> QED
  BY <1>1, <1>2, SeqOfAny

LEMMA PrefixSeq ==
    ASSUME NEW rows, IsSeq(rows), NEW n \in 0 .. Len(rows)
    PROVE  /\ IsSeq(SubSeq(rows, 1, n)) /\ Len(SubSeq(rows, 1, n)) = n
           /\ \A i \in 1 .. n : SubSeq(rows, 1, n)[i] = rows[i]
<1>1. Len(rows) \in Nat /\ \A i \in 1 .. n : rows[i] \in ToSet(rows)
  BY SeqFacts
<1>2. /\ SubSeq(rows, 1, n) \in Seq(ToSet(rows))
      /\ Len(SubSeq(rows, 1, n)) = IF 1 <= n THEN n - 1 + 1 ELSE 0
      /\ \A i \in 1 .. n - 1 + 1 : SubSeq(rows, 1, n)[i] = rows[1 + i - 1]
  BY <1>1, SubSeqProperties
<1>3. n - 1 + 1 = n /\ \A i \in 1 .. n : 1 + i - 1 = i
  BY <1>1
<1>4. /\ Len(SubSeq(rows, 1, n)) = n
      /\ \A i \in 1 .. n : SubSeq(rows, 1, n)[i] = rows[i]
  BY <1>1, <1>2, <1>3
<1> QED
  BY <1>2, <1>4, SeqOfAny

LEMMA SameSeq ==
    ASSUME NEW s, NEW t, IsSeq(s), IsSeq(t), Len(s) = Len(t),
           \A i \in 1 .. Len(s) : s[i] = t[i]
    PROVE  s = t
<1>1. s = [i \in 1 .. Len(s) |-> s[i]] /\ t = [i \in 1 .. Len(t) |-> t[i]]
  BY DEF IsSeq
<1> QED
  BY <1>1

\* A row in its partition, the last one of its key or not.
LEMMA RowsAtAppend ==
    ASSUME NEW rows, IsSeq(rows), NEW row, NEW p, NEW k
    PROVE  /\ RowsOf(Append(rows, row), p) =
                 RowsOf(rows, p) \cup (IF row.partition = p THEN {Len(rows) + 1} ELSE {})
           /\ RowsAt(Append(rows, row), p, k) =
                 RowsAt(rows, p, k)
                    \cup (IF row.partition = p /\ row.key = k THEN {Len(rows) + 1} ELSE {})
           /\ RowsOf(rows, p) \subseteq 1 .. Len(rows) /\ RowsAt(rows, p, k) \subseteq 1 .. Len(rows)
<1>1. /\ IsSeq(Append(rows, row)) /\ Len(Append(rows, row)) = Len(rows) + 1
      /\ \A i \in 1 .. Len(rows) : Append(rows, row)[i] = rows[i]
      /\ Append(rows, row)[Len(rows) + 1] = row
  BY AppendSeq
<1>2. /\ Len(rows) \in Nat /\ DOMAIN rows = 1 .. Len(rows)
      /\ DOMAIN Append(rows, row) = 1 .. (Len(rows) + 1)
  BY <1>1, SeqFacts
<1>3. 1 .. (Len(rows) + 1) = (1 .. Len(rows)) \cup {Len(rows) + 1}
  BY <1>2
<1> DEFINE more == Append(rows, row)
<1>4. /\ DOMAIN more = (DOMAIN rows) \cup {Len(rows) + 1}
      /\ \A i \in DOMAIN rows : more[i] = rows[i]
      /\ more[Len(rows) + 1] = row
  BY <1>1, <1>2, <1>3
<1> HIDE DEF more
<1>5. RowsOf(more, p) = RowsOf(rows, p) \cup (IF row.partition = p THEN {Len(rows) + 1} ELSE {})
  BY <1>4 DEF RowsOf
<1>6. RowsAt(more, p, k) =
         RowsAt(rows, p, k)
            \cup (IF row.partition = p /\ row.key = k THEN {Len(rows) + 1} ELSE {})
  BY <1>4, <1>5 DEF RowsAt, RowsOf
<1> QED
  BY <1>2, <1>5, <1>6 DEF more, RowsOf, RowsAt

LEMMA StoreDomain ==
    ASSUME NEW s, IsStore(s)
    PROVE  DOMAIN s = Partition
<1> DEFINE f == [p \in Partition |-> s[p]]
<1>1. s = f
  BY Zenon DEF IsStore
<1>2. DOMAIN f = Partition
  OBVIOUS
<1> QED
  BY <1>1, <1>2, Zenon

LEMMA InsertRow ==
    ASSUME NEW s, IsStore(s), NEW row, row.partition \in Partition
    PROVE  /\ IsStore(Insert(s, row))
           /\ Insert(s, row)[row.partition] = Put(s[row.partition], row.key, row.value)
           /\ \A p \in Partition : p # row.partition => Insert(s, row)[p] = s[p]
           /\ DOMAIN Insert(s, row) = Partition /\ DOMAIN s = Partition
<1>1. DOMAIN s = Partition
  BY StoreDomain
<1>2. \A p \in Partition : s[p] = [k \in DOMAIN s[p] |-> s[p][k]]
  BY Zenon DEF IsStore
<1>3. SUFFICES ASSUME NEW t, t = Insert(s, row)
               PROVE  /\ IsStore(t)
                      /\ t[row.partition] = Put(s[row.partition], row.key, row.value)
                      /\ \A p \in Partition : p # row.partition => t[p] = s[p]
                      /\ DOMAIN t = Partition /\ DOMAIN s = Partition
  OBVIOUS
<1>4. t = [p \in Partition |-> IF p = row.partition
                             THEN Put(s[p], row.key, row.value) ELSE s[p]]
  BY <1>1, <1>3 DEF Insert
<1>5. ASSUME NEW p \in Partition PROVE t[p] = [k \in DOMAIN t[p] |-> t[p][k]]
  <2>1. t[p] = IF p = row.partition THEN Put(s[p], row.key, row.value) ELSE s[p]
    BY <1>4
  <2>2. CASE p = row.partition
    BY <2>1, <2>2 DEF Put
  <2>3. CASE p # row.partition
    <3>1. t[p] = s[p]
      BY <2>1, <2>3
    <3>2. s[p] = [k \in DOMAIN s[p] |-> s[p][k]]
      BY <1>2, Zenon
    <3> QED
      BY <3>1, <3>2, Zenon
  <2> QED
    BY <2>2, <2>3
<1>6. IsStore(t)
  <2>1. t = [p \in Partition |-> t[p]]
    BY <1>4
  <2>2. \A p \in Partition : t[p] = [k \in DOMAIN t[p] |-> t[p][k]]
    BY <1>5
  <2> QED
    BY <2>1, <2>2, Zenon DEF IsStore
<1> QED
  BY <1>1, <1>4, <1>6

LEMMA InsertAllAppend ==
    ASSUME NEW s, IsStore(s), NEW rows, IsSeq(rows), NEW row, row.partition \in Partition
    PROVE  InsertAll(s, Append(rows, row)) = Insert(InsertAll(s, rows), row)
<1> DEFINE more == Append(rows, row)
           n == Len(rows) + 1
           t == InsertAll(s, rows)
           keys(r, p) == {r[i].key : i \in RowsOf(r, p)}
<1>0. DOMAIN s = Partition
  BY StoreDomain
<1>1. /\ Len(rows) \in Nat /\ DOMAIN rows = 1 .. Len(rows) /\ n \in Nat
      /\ \A i \in 1 .. Len(rows) : more[i] = rows[i] /\ i < n
      /\ more[n] = row
  BY AppendSeq, SeqFacts
<1>2. \A p, k :
         /\ RowsOf(more, p) = RowsOf(rows, p) \cup (IF row.partition = p THEN {n} ELSE {})
         /\ RowsAt(more, p, k) =
               RowsAt(rows, p, k) \cup (IF row.partition = p /\ row.key = k THEN {n} ELSE {})
         /\ RowsOf(rows, p) \subseteq 1 .. Len(rows) /\ RowsAt(rows, p, k) \subseteq 1 .. Len(rows)
  BY RowsAtAppend
<1>3. ASSUME NEW p \in Partition
      PROVE  InsertAll(s, more)[p] =
               IF p = row.partition THEN Put(t[p], row.key, row.value) ELSE t[p]
  <2> DEFINE value(r, k) == IF RowsAt(r, p, k) = {} THEN s[p][k]
                            ELSE r[Max(RowsAt(r, p, k))].value
  <2>1. /\ t[p] = [k \in (DOMAIN s[p]) \cup keys(rows, p) |-> value(rows, k)]
        /\ InsertAll(s, more)[p] = [k \in (DOMAIN s[p]) \cup keys(more, p) |-> value(more, k)]
    BY <1>0 DEF InsertAll
  <2>2. keys(more, p) = keys(rows, p) \cup (IF p = row.partition THEN {row.key} ELSE {})
    BY <1>1, <1>2
  <2>3. ASSUME NEW k
        PROVE  value(more, k) = IF p = row.partition /\ k = row.key THEN row.value
                                ELSE value(rows, k)
    <3>1. CASE p = row.partition /\ k = row.key
      <4>1. /\ RowsAt(more, p, k) = RowsAt(rows, p, k) \cup {n}
            /\ RowsAt(rows, p, k) \subseteq 1 .. Len(rows)
        BY <1>2, <3>1
      <4>2. /\ RowsAt(more, p, k) \subseteq Int /\ n \in RowsAt(more, p, k)
            /\ \A i \in RowsAt(more, p, k) : i <= n
        BY <4>1, <1>1
      <4>3. Max(RowsAt(more, p, k)) = n
        BY <4>2, MaxIs
      <4> QED
        BY <4>2, <4>3, <3>1, <1>1
    <3>2. CASE ~(p = row.partition /\ k = row.key)
      <4>1. RowsAt(more, p, k) = RowsAt(rows, p, k) /\ RowsAt(rows, p, k) \subseteq 1 .. Len(rows)
        <5>1. (IF row.partition = p /\ row.key = k THEN {n} ELSE {}) = {}
          BY <3>2
        <5>2. \A S : S \cup {} = S
          OBVIOUS
        <5> HIDE DEF more, n
        <5> QED
          BY <1>2, <5>1, <5>2
      <4>2. RowsAt(rows, p, k) # {} => Max(RowsAt(rows, p, k)) \in RowsAt(rows, p, k)
        <5> SUFFICES ASSUME RowsAt(rows, p, k) # {}
                     PROVE  Max(RowsAt(rows, p, k)) \in RowsAt(rows, p, k)
          OBVIOUS
        <5>1. RowsAt(rows, p, k) \in SUBSET (0 .. Len(rows))
          BY <4>1, <1>1
        <5>2. PICK m \in RowsAt(rows, p, k) : \A i \in RowsAt(rows, p, k) : i <= m
          BY <5>1, <1>1, Greatest
        <5>3. Max(RowsAt(rows, p, k)) = m
          BY <5>1, <5>2, MaxIs
        <5> QED
          BY <5>2, <5>3
      <4>3. RowsAt(rows, p, k) # {} =>
               more[Max(RowsAt(rows, p, k))] = rows[Max(RowsAt(rows, p, k))]
        BY <4>1, <4>2, <1>1
      <4> QED
        BY <4>1, <4>3, <3>2
    <3> QED
      BY <3>1, <3>2
  <2> HIDE DEF value, keys, more, t
  <2>4. CASE p = row.partition
    <3>1. (DOMAIN s[p]) \cup keys(more, p) = (DOMAIN t[p]) \cup {row.key}
      BY <2>1, <2>2, <2>4
    <3>2. InsertAll(s, more)[p] =
            [k \in (DOMAIN t[p]) \cup {row.key} |->
                IF k = row.key THEN row.value ELSE t[p][k]]
      <4>1. \A k \in (DOMAIN t[p]) \cup {row.key} :
               value(more, k) = IF k = row.key THEN row.value ELSE t[p][k]
        BY <2>1, <2>3, <2>4
      <4> QED
        BY <2>1, <3>1, <4>1
    <3> QED
      BY <3>2, <2>4 DEF Put
  <2>5. CASE p # row.partition
    <3>1. \A k \in (DOMAIN s[p]) \cup keys(rows, p) : value(more, k) = value(rows, k)
      BY <2>3, <2>5
    <3>2. keys(more, p) = keys(rows, p)
      BY <2>2, <2>5
    <3> QED
      BY <2>1, <2>5, <3>1, <3>2
  <2> QED
    BY <2>4, <2>5
<1>4. DOMAIN t = Partition /\ DOMAIN InsertAll(s, more) = Partition
  BY <1>0 DEF InsertAll
<1>5. Insert(t, row) = [p \in Partition |-> IF p = row.partition
                                           THEN Put(t[p], row.key, row.value) ELSE t[p]]
  BY <1>4 DEF Insert
<1>6. InsertAll(s, more) = [p \in Partition |-> InsertAll(s, more)[p]]
  BY <1>0 DEF InsertAll
<1> HIDE DEF t, more
<1> QED
  BY <1>3, <1>5, <1>6 DEF t, more

LEMMA InsertAllEmpty ==
    ASSUME NEW s, IsStore(s)
    PROVE  InsertAll(s, <<>>) = s
<1>1. DOMAIN s = Partition /\ s = [p \in Partition |-> s[p]]
  BY StoreDomain, Zenon DEF IsStore
<1>2. \A p, k : RowsOf(<<>>, p) = {} /\ RowsAt(<<>>, p, k) = {}
  BY DEF RowsOf, RowsAt
<1>3. ASSUME NEW p \in Partition PROVE InsertAll(s, <<>>)[p] = s[p]
  <2>1. InsertAll(s, <<>>)[p] =
          [k \in (DOMAIN s[p]) \cup {<<>>[i].key : i \in RowsOf(<<>>, p)} |->
              IF RowsAt(<<>>, p, k) = {} THEN s[p][k]
              ELSE <<>>[Max(RowsAt(<<>>, p, k))].value]
    BY <1>1 DEF InsertAll
  <2>2. (DOMAIN s[p]) \cup {<<>>[i].key : i \in RowsOf(<<>>, p)} = DOMAIN s[p]
    BY <1>2
  <2>3. InsertAll(s, <<>>)[p] = [k \in DOMAIN s[p] |-> s[p][k]]
    BY <1>2, <2>1, <2>2
  <2>4. s[p] = [k \in DOMAIN s[p] |-> s[p][k]]
    BY Zenon DEF IsStore
  <2> QED
    BY <2>3, <2>4, Zenon
<1>4. InsertAll(s, <<>>) = [p \in Partition |-> InsertAll(s, <<>>)[p]]
  BY <1>1 DEF InsertAll
<1>5. [p \in Partition |-> InsertAll(s, <<>>)[p]] = [p \in Partition |-> s[p]]
  BY <1>3
<1> QED
  BY <1>1, <1>4, <1>5, Zenon

LEMMA RowsAtTail ==
    ASSUME NEW rows, IsSeq(rows), rows # <<>>, NEW p, NEW k
    PROVE  /\ RowsOf(rows, p) = {i + 1 : i \in RowsOf(Tail(rows), p)}
                                   \cup (IF Head(rows).partition = p THEN {1} ELSE {})
           /\ RowsAt(rows, p, k) =
                 {i + 1 : i \in RowsAt(Tail(rows), p, k)}
                    \cup (IF Head(rows).partition = p /\ Head(rows).key = k THEN {1} ELSE {})
           /\ RowsAt(Tail(rows), p, k) \subseteq 1 .. (Len(rows) - 1)
           /\ RowsOf(Tail(rows), p) \subseteq 1 .. (Len(rows) - 1)
<1> DEFINE t == Tail(rows)
<1>1. /\ IsSeq(t) /\ Len(t) = Len(rows) - 1 /\ Len(rows) \in Nat /\ Len(rows) >= 1
      /\ \A i \in 1 .. Len(rows) - 1 : t[i] = rows[i + 1]
      /\ Head(rows) = rows[1]
  BY TailSeq
<1>2. DOMAIN rows = 1 .. Len(rows) /\ DOMAIN t = 1 .. Len(rows) - 1
  BY <1>1, SeqFacts
<1> HIDE DEF t
<1>3. 1 .. Len(rows) = {1} \cup {i + 1 : i \in 1 .. Len(rows) - 1}
  <2>1. ASSUME NEW i \in 1 .. Len(rows)
        PROVE  i = 1 \/ (i - 1 \in 1 .. Len(rows) - 1 /\ i = (i - 1) + 1)
    BY <1>1
  <2>2. ASSUME NEW i \in 1 .. Len(rows) - 1 PROVE i + 1 \in 1 .. Len(rows)
    BY <1>1
  <2>3. 1 \in 1 .. Len(rows)
    BY <1>1
  <2> QED
    BY <2>1, <2>2, <2>3
<1>4. RowsOf(rows, p) = {i + 1 : i \in RowsOf(t, p)}
                          \cup (IF Head(rows).partition = p THEN {1} ELSE {})
  <2> DEFINE later == {i + 1 : i \in RowsOf(t, p)}
  <2>1. \A j : j \in later <=> \E i \in 1 .. Len(rows) - 1 : j = i + 1 /\ rows[j].partition = p
    BY <1>1, <1>2 DEF RowsOf
  <2>2. \A j : j \in RowsOf(rows, p) <=>
                 \/ j = 1 /\ rows[1].partition = p
                 \/ \E i \in 1 .. Len(rows) - 1 : j = i + 1 /\ rows[j].partition = p
    BY <1>2, <1>3 DEF RowsOf
  <2> HIDE DEF later
  <2> QED
    BY <1>1, <2>1, <2>2 DEF later
<1>5. RowsAt(rows, p, k) =
         {i + 1 : i \in RowsAt(t, p, k)}
            \cup (IF Head(rows).partition = p /\ Head(rows).key = k THEN {1} ELSE {})
  <2>1. \A i \in RowsOf(t, p) : t[i] = rows[i + 1]
    BY <1>1, <1>2 DEF RowsOf
  <2> QED
    BY <1>1, <1>4, <2>1 DEF RowsAt
<1> QED
  BY <1>2, <1>4, <1>5 DEF t, RowsOf, RowsAt

LEMMA InsertAllHead ==
    ASSUME NEW s, IsStore(s), NEW rows, IsSeq(rows), rows # <<>>,
           Head(rows).partition \in Partition
    PROVE  InsertAll(Insert(s, Head(rows)), Tail(rows)) = InsertAll(s, rows)
<1> DEFINE t == Insert(s, Head(rows))
           rest == Tail(rows)
           n == Len(rows) - 1
           keys(r, p) == {r[i].key : i \in RowsOf(r, p)}
<1>0. /\ DOMAIN s = Partition /\ DOMAIN t = Partition
      /\ t[Head(rows).partition] =
            Put(s[Head(rows).partition], Head(rows).key, Head(rows).value)
      /\ \A p \in Partition : p # Head(rows).partition => t[p] = s[p]
  BY InsertRow
<1>1. /\ Len(rows) \in Nat /\ Len(rows) >= 1 /\ n \in Nat
      /\ \A i \in 1 .. n : rest[i] = rows[i + 1]
      /\ Head(rows) = rows[1]
  BY TailSeq
<1>2. \A p, k :
         /\ RowsOf(rows, p) = {i + 1 : i \in RowsOf(rest, p)}
                                 \cup (IF Head(rows).partition = p THEN {1} ELSE {})
         /\ RowsAt(rows, p, k) =
               {i + 1 : i \in RowsAt(rest, p, k)}
                  \cup (IF Head(rows).partition = p /\ Head(rows).key = k THEN {1} ELSE {})
         /\ RowsAt(rest, p, k) \subseteq 1 .. n
         /\ RowsOf(rest, p) \subseteq 1 .. n
  BY RowsAtTail
<1> HIDE DEF t, rest, n
<1>3. ASSUME NEW p \in Partition PROVE InsertAll(t, rest)[p] = InsertAll(s, rows)[p]
  <2> DEFINE value(f, r, k) == IF RowsAt(r, p, k) = {} THEN f[p][k]
                               ELSE r[Max(RowsAt(r, p, k))].value
  <2>1. /\ InsertAll(t, rest)[p] =
              [k \in (DOMAIN t[p]) \cup keys(rest, p) |-> value(t, rest, k)]
        /\ InsertAll(s, rows)[p] =
              [k \in (DOMAIN s[p]) \cup keys(rows, p) |-> value(s, rows, k)]
    BY <1>0 DEF InsertAll
  <2>2. keys(rows, p) = keys(rest, p)
                          \cup (IF p = Head(rows).partition THEN {Head(rows).key} ELSE {})
    <3>1. \A i \in RowsOf(rest, p) : rest[i] = rows[i + 1]
      BY <1>1, <1>2
    <3>2. keys(rest, p) = {rows[j].key : j \in {i + 1 : i \in RowsOf(rest, p)}}
      BY <3>1
    <3>3. RowsOf(rows, p) = {i + 1 : i \in RowsOf(rest, p)}
                             \cup (IF Head(rows).partition = p THEN {1} ELSE {})
      BY <1>2
    <3>4. CASE Head(rows).partition = p
      <4>1. RowsOf(rows, p) = {i + 1 : i \in RowsOf(rest, p)} \cup {1}
        BY <3>3, <3>4
      <4>2. keys(rows, p) = {rows[j].key : j \in {i + 1 : i \in RowsOf(rest, p)}}
                              \cup {rows[1].key}
        BY <4>1
      <4> QED
        BY <1>1, <3>2, <3>4, <4>2
    <3>5. CASE Head(rows).partition # p
      <4>1. RowsOf(rows, p) = {i + 1 : i \in RowsOf(rest, p)}
        BY <3>3, <3>5
      <4> QED
        BY <3>2, <3>5, <4>1
    <3> QED
      BY <3>4, <3>5
  <2>3. DOMAIN t[p] = (DOMAIN s[p])
                         \cup (IF p = Head(rows).partition THEN {Head(rows).key} ELSE {})
    BY <1>0 DEF Put
  <2>4. (DOMAIN t[p]) \cup keys(rest, p) = (DOMAIN s[p]) \cup keys(rows, p)
    BY <2>2, <2>3
  <2>5. ASSUME NEW k \in (DOMAIN s[p]) \cup keys(rows, p)
        PROVE  value(t, rest, k) = value(s, rows, k)
    <3> DEFINE A == RowsAt(rest, p, k)
               B == RowsAt(rows, p, k)
               head == IF Head(rows).partition = p /\ Head(rows).key = k THEN {1} ELSE {}
    <3>1. B = {i + 1 : i \in A} \cup head /\ A \subseteq 1 .. n
      BY <1>2
    <3> HIDE DEF A, B
    <3>2. CASE A # {}
      <4>1. A \in SUBSET (0 .. n)
        BY <3>1, <1>1
      <4>2. PICK m \in A : \A i \in A : i <= m
        BY <3>2, <4>1, <1>1, Greatest
      <4>3. Max(A) = m
        BY <4>1, <4>2, MaxIs
      <4>4. m \in 1 .. n /\ m + 1 \in B
        BY <3>1, <4>2
      <4>5. B \subseteq Int /\ \A i \in B : i <= m + 1
        BY <3>1, <4>2, <4>4
      <4>6. Max(B) = m + 1
        BY <4>4, <4>5, MaxIs
      <4>7. rest[m] = rows[m + 1]
        BY <1>1, <4>4
      <4> QED
        BY <3>2, <4>3, <4>4, <4>6, <4>7 DEF A, B
    <3>3. CASE A = {} /\ Head(rows).partition = p /\ Head(rows).key = k
      <4>1. B = {1}
        BY <3>1, <3>3
      <4>2. Max(B) = 1
        <5>1. B \in SUBSET Int /\ 1 \in B /\ \A i \in B : i <= 1
          BY <4>1
        <5> QED
          BY <5>1, MaxIs
      <4>3. t[p][k] = Head(rows).value
        BY <1>0, <3>3 DEF Put
      <4> QED
        BY <1>1, <3>3, <4>1, <4>2, <4>3 DEF A, B
    <3>4. CASE A = {} /\ ~(Head(rows).partition = p /\ Head(rows).key = k)
      <4>1. B = {}
        BY <3>1, <3>4
      <4>2. k \in DOMAIN t[p]
        BY <2>2, <2>3, <2>4, <3>1, <3>4, <1>2 DEF A, RowsAt
      <4>3. t[p][k] = s[p][k]
        BY <1>0, <3>4, <4>2 DEF Put
      <4> QED
        BY <3>4, <4>1, <4>3 DEF A, B
    <3> QED
      BY <3>2, <3>3, <3>4
  <2> HIDE DEF value, keys
  <2> QED
    BY <2>1, <2>4, <2>5
<1>4. /\ InsertAll(t, rest) = [p \in Partition |-> InsertAll(t, rest)[p]]
      /\ InsertAll(s, rows) = [p \in Partition |-> InsertAll(s, rows)[p]]
  BY <1>0 DEF InsertAll
<1> QED
  BY <1>3, <1>4 DEF t, rest

----------------------------------------------------------------------------
(* Orderly batches *)

LEMMA OrderlyAppend ==
    ASSUME NEW s, IsStore(s), NEW rows, IsSeq(rows), NEW row,
           AllOrderly(s, rows), Orderly(InsertAll(s, rows), row)
    PROVE  /\ IsSeq(Append(rows, row)) /\ AllOrderly(s, Append(rows, row))
           /\ InsertAll(s, Append(rows, row)) = Insert(InsertAll(s, rows), row)
<1> DEFINE more == Append(rows, row)
<1>1. /\ IsSeq(more) /\ Len(more) = Len(rows) + 1 /\ Len(rows) \in Nat
      /\ \A i \in 1 .. Len(rows) : more[i] = rows[i]
      /\ more[Len(rows) + 1] = row
      /\ DOMAIN rows = 1 .. Len(rows) /\ DOMAIN more = 1 .. (Len(rows) + 1)
  BY AppendSeq, SeqFacts
<1> HIDE DEF more
<1>2. ASSUME NEW n \in 0 .. Len(rows) PROVE SubSeq(more, 1, n) = SubSeq(rows, 1, n)
  <2>1. n \in 0 .. Len(more)
    BY <1>1
  <2>2. /\ IsSeq(SubSeq(rows, 1, n)) /\ Len(SubSeq(rows, 1, n)) = n
        /\ \A i \in 1 .. n : SubSeq(rows, 1, n)[i] = rows[i]
    BY PrefixSeq
  <2>3. /\ IsSeq(SubSeq(more, 1, n)) /\ Len(SubSeq(more, 1, n)) = n
        /\ \A i \in 1 .. n : SubSeq(more, 1, n)[i] = more[i]
    BY <1>1, <2>1, PrefixSeq
  <2>4. \A i \in 1 .. n : SubSeq(more, 1, n)[i] = SubSeq(rows, 1, n)[i]
    BY <1>1, <2>2, <2>3
  <2> QED
    BY <2>2, <2>3, <2>4, SameSeq
<1>3. SubSeq(rows, 1, Len(rows)) = rows
  BY SubSeqFull DEF IsSeq
<1>4. ASSUME NEW i \in DOMAIN more
      PROVE  Orderly(InsertAll(s, SubSeq(more, 1, i - 1)), more[i])
  <2>1. CASE i = Len(rows) + 1
    <3>1. SubSeq(more, 1, i - 1) = rows /\ more[i] = row
      <4>1. i - 1 = Len(rows) /\ Len(rows) \in 0 .. Len(rows)
        BY <1>1, <2>1
      <4>2. SubSeq(more, 1, i - 1) = SubSeq(rows, 1, Len(rows))
        BY <1>2, <4>1
      <4> QED
        BY <1>1, <1>3, <2>1, <4>2
    <3> QED
      BY <3>1
  <2>2. CASE i \in 1 .. Len(rows)
    <3>1. i - 1 \in 0 .. Len(rows) /\ i \in DOMAIN rows
      BY <1>1, <2>2
    <3>2. SubSeq(more, 1, i - 1) = SubSeq(rows, 1, i - 1) /\ more[i] = rows[i]
      BY <1>1, <1>2, <2>2, <3>1
    <3>3. Orderly(InsertAll(s, SubSeq(rows, 1, i - 1)), rows[i])
      BY <3>1 DEF AllOrderly
    <3> QED
      BY <3>2, <3>3
  <2> QED
    BY <1>1, <2>1, <2>2
<1>5. row.partition \in Partition
  BY DEF Orderly
<1> QED
  BY <1>1, <1>4, <1>5, InsertAllAppend DEF AllOrderly, more

LEMMA OrderlyHead ==
    ASSUME NEW s, IsStore(s), NEW rows, IsSeq(rows), rows # <<>>, AllOrderly(s, rows)
    PROVE  /\ Orderly(s, Head(rows)) /\ AllOrderly(Insert(s, Head(rows)), Tail(rows))
           /\ InsertAll(Insert(s, Head(rows)), Tail(rows)) = InsertAll(s, rows)
<1> DEFINE rest == Tail(rows)
           n == Len(rows) - 1
<1>1. /\ IsSeq(rest) /\ Len(rest) = n /\ Len(rows) = n + 1 /\ n \in Nat
      /\ \A i \in 1 .. n : rest[i] = rows[i + 1]
      /\ Head(rows) = rows[1]
      /\ DOMAIN rest = 1 .. n /\ DOMAIN rows = 1 .. (n + 1)
  <2>1. /\ IsSeq(rest) /\ Len(rest) = n /\ Len(rows) \in Nat /\ Len(rows) >= 1
        /\ \A i \in 1 .. n : rest[i] = rows[i + 1]
        /\ Head(rows) = rows[1]
    BY TailSeq
  <2>2. DOMAIN rest = 1 .. Len(rest) /\ DOMAIN rows = 1 .. Len(rows)
    BY <2>1, SeqFacts
  <2> QED
    BY <2>1, <2>2
<1>2. Orderly(s, Head(rows))
  <2>1. SubSeq(rows, 1, 1 - 1) = <<>>
    BY SubSeqEmpty
  <2>2. 1 \in DOMAIN rows
    BY <1>1
  <2>3. Orderly(InsertAll(s, SubSeq(rows, 1, 1 - 1)), rows[1])
    BY <2>2 DEF AllOrderly
  <2> QED
    BY <1>1, <2>1, <2>3, InsertAllEmpty
<1>3. Head(rows).partition \in Partition
  BY <1>2 DEF Orderly
<1> HIDE DEF rest, n
<1>4. ASSUME NEW i \in 1 .. n
      PROVE  Orderly(InsertAll(Insert(s, Head(rows)), SubSeq(rest, 1, i - 1)), rest[i])
  <2> DEFINE first == SubSeq(rows, 1, i)
  <2>1. i \in 0 .. Len(rows) /\ i - 1 \in 0 .. Len(rest) /\ i \in Nat /\ i >= 1
        /\ i + 1 \in DOMAIN rows /\ (i + 1) - 1 = i
    BY <1>1
  <2>2. IsSeq(first) /\ Len(first) = i /\ \A j \in 1 .. i : first[j] = rows[j]
    BY <2>1, PrefixSeq
  <2> HIDE DEF first
  <2>3. first # <<>>
    BY <2>1, <2>2, EmptySeq
  <2>4. /\ IsSeq(Tail(first)) /\ Len(Tail(first)) = i - 1
        /\ \A j \in 1 .. i - 1 : Tail(first)[j] = first[j + 1]
        /\ Head(first) = first[1]
    BY <2>2, <2>3, TailSeq
  <2>5. /\ IsSeq(SubSeq(rest, 1, i - 1)) /\ Len(SubSeq(rest, 1, i - 1)) = i - 1
        /\ \A j \in 1 .. i - 1 : SubSeq(rest, 1, i - 1)[j] = rest[j]
    BY <1>1, <2>1, PrefixSeq
  <2>6. Tail(first) = SubSeq(rest, 1, i - 1)
    <3>1. ASSUME NEW j \in 1 .. i - 1 PROVE Tail(first)[j] = SubSeq(rest, 1, i - 1)[j]
      <4>1. j + 1 \in 1 .. i /\ j \in 1 .. n
        BY <1>1, <2>1
      <4> QED
        BY <4>1, <1>1, <2>2, <2>4, <2>5
    <3> QED
      BY <2>4, <2>5, <3>1, SameSeq
  <2>7. Head(first) = Head(rows)
    BY <1>1, <2>1, <2>2, <2>4
  <2>8. InsertAll(Insert(s, Head(rows)), SubSeq(rest, 1, i - 1)) = InsertAll(s, first)
    BY <1>3, <2>2, <2>3, <2>6, <2>7, InsertAllHead
  <2>9. Orderly(InsertAll(s, SubSeq(rows, 1, (i + 1) - 1)), rows[i + 1])
    BY <2>1 DEF AllOrderly
  <2> QED
    BY <1>1, <2>1, <2>8, <2>9 DEF first
<1>5. AllOrderly(Insert(s, Head(rows)), rest)
  BY <1>1, <1>4 DEF AllOrderly
<1> QED
  BY <1>2, <1>3, <1>5, InsertAllHead DEF rest

LEMMA OrderlySound ==
    ASSUME NEW s, Sound(s), NEW rows, IsSeq(rows), AllOrderly(s, rows)
    PROVE  Sound(InsertAll(s, rows))
<1>1. IsStore(s)
  BY DEF Sound
<1>2. CASE rows = <<>>
  BY <1>1, <1>2, InsertAllEmpty
<1>3. CASE rows # <<>>
  <2> DEFINE n == Len(rows)
             front == SubSeq(rows, 1, n - 1)
  <2>1. n \in Nat /\ n >= 1 /\ DOMAIN rows = 1 .. n
    BY <1>3, TailSeq, SeqFacts
  <2>2. n - 1 \in 0 .. Len(rows) /\ n \in DOMAIN rows /\ (n - 1) + 1 = n
    BY <2>1
  <2> HIDE DEF n
  <2>3. IsSeq(front) /\ Len(front) = n - 1 /\ \A i \in 1 .. n - 1 : front[i] = rows[i]
    BY <2>2, PrefixSeq
  <2>4. Orderly(InsertAll(s, front), rows[n])
    BY <2>2 DEF AllOrderly
  <2> HIDE DEF front
  <2>5. /\ IsSeq(Append(front, rows[n])) /\ Len(Append(front, rows[n])) = n
        /\ \A i \in 1 .. n - 1 : Append(front, rows[n])[i] = front[i]
        /\ Append(front, rows[n])[n] = rows[n]
    BY <2>2, <2>3, AppendSeq
  <2>6. \A i \in 1 .. n : Append(front, rows[n])[i] = rows[i]
    BY <2>1, <2>3, <2>5
  <2>7. Append(front, rows[n]) = rows
    BY <2>5, <2>6, SameSeq DEF n
  <2> DEFINE last == rows[n]
  <2>8. last.partition \in Partition
    BY <2>4 DEF Orderly
  <2>9. InsertAll(s, rows) = Insert(InsertAll(s, front), last)
    <3> HIDE DEF last
    <3>1. InsertAll(s, Append(front, last)) = Insert(InsertAll(s, front), last)
      BY <1>1, <2>3, <2>8, InsertAllAppend
    <3> QED
      BY <2>7, <3>1 DEF last
  <2> QED
    BY <2>4, <2>9 DEF Orderly
<1> QED
  BY <1>2, <1>3

----------------------------------------------------------------------------
(* What keeps a store sound *)

\* t holds the rows of s, its cursor, and nothing that contradicts them.
Grows(s, t) ==
    /\ IsStore(t) /\ LastOf(t) = LastOf(s)
    /\ \A p \in Partition : DOMAIN s[p] \subseteq DOMAIN t[p]
    /\ \A k \in DOMAIN s.txs : t.txs[k] = s.txs[k]
    /\ \A k \in DOMAIN s.blocks : t.blocks[k] = s.blocks[k]
    /\ \A k \in DOMAIN s.contract_actions : t.contract_actions[k] = s.contract_actions[k]
    /\ \A k \in DOMAIN s.ledger_events : t.ledger_events[k] = s.ledger_events[k]
    /\ \A k \in (DOMAIN t.txs) \ DOMAIN s.txs :
          /\ k \in 0 .. MaxTxs - 1 /\ t.txs[k].height \in Nat
          /\ t.txs[k].height \notin DOMAIN s.blocks
    /\ \A b \in (DOMAIN t.blocks) \ DOMAIN s.blocks :
          TxsOf(t.blocks[b]) = {k \in DOMAIN t.txs : t.txs[k].height = b}
    /\ \A k \in (DOMAIN t.contract_actions) \ DOMAIN s.contract_actions :
          /\ k \in 0 .. MaxTxs - 1 /\ t.contract_actions[k].height \in Nat
          /\ t.contract_actions[k].height > LastOf(s)
    /\ \A k \in (DOMAIN t.contract_actions_by_addr) \ DOMAIN s.contract_actions_by_addr :
          k[2] \in DOMAIN t.contract_actions /\ t.contract_actions[k[2]].addr = k[1]
    /\ \A a \in DOMAIN t.contracts :
          \/ a \in DOMAIN s.contracts /\ t.contracts[a] = s.contracts[a]
          \/ LET latest == t.contracts[a].latest IN
             /\ latest \in DOMAIN t.contract_actions
             /\ t.contract_actions[latest].state # Failed
             /\ t.contract_actions[latest].state \in DOMAIN t.contract_states
    /\ \A k \in (DOMAIN t.ledger_events) \ DOMAIN s.ledger_events :
          /\ k \in 0 .. MaxTxs - 1 /\ t.ledger_events[k].height \in Nat
          /\ t.ledger_events[k].height > LastOf(s)
          /\ <<t.ledger_events[k].addr, k>> \in DOMAIN t.events_by_contract
    /\ \A k \in DOMAIN t.events_by_contract :
          \/ k \in DOMAIN s.events_by_contract /\ k[2] \in DOMAIN s.ledger_events
          \/ k[2] \in DOMAIN t.ledger_events => t.ledger_events[k[2]].addr = k[1]
    /\ \A k \in (DOMAIN t.addr_txs) \ DOMAIN s.addr_txs :
          k[2] \in DOMAIN t.txs /\ t.txs[k[2]].owner = k[1]

LEMMA PartitionNames ==
    /\ "txs_by_hash" \in Partition /\ "contract_actions" \in Partition
    /\ "contract_actions_by_addr" \in Partition /\ "contract_states" \in Partition
    /\ "contracts" \in Partition /\ "events_by_contract" \in Partition
    /\ "ledger_events" \in Partition /\ "txs" \in Partition
    /\ "addr_txs" \in Partition /\ "blocks" \in Partition /\ "meta" \in Partition
BY DEF Partition

LEMMA FiledKept ==
    ASSUME NEW s, NEW t, Grows(s, t), NEW k \in DOMAIN s.txs, Filed(s, k)
    PROVE  Filed(t, k)
BY PartitionNames DEF Grows, Filed, Has

LEMMA WholeKept ==
    ASSUME NEW s, NEW t, Grows(s, t), NEW h \in Nat, Whole(s, h),
           h = 0 \/ h - 1 \in DOMAIN s.blocks
    PROVE  Whole(t, h)
<1>1. h \in DOMAIN s.blocks /\ t.blocks[h] = s.blocks[h] /\ h \in DOMAIN t.blocks
  BY PartitionNames DEF Whole, Has, Grows
<1>2. h = 0 \/ t.blocks[h - 1] = s.blocks[h - 1]
  BY DEF Grows
<1>3. t.blocks[h].first = IF h = 0 THEN 0
                          ELSE t.blocks[h - 1].first + t.blocks[h - 1].count
  BY <1>1, <1>2 DEF Whole
<1>4. ASSUME NEW k \in TxsOf(t.blocks[h])
      PROVE  /\ k \in DOMAIN t.txs /\ t.txs[k].height = h /\ Filed(t, k)
             /\ t.txs[k].owner # None => <<t.txs[k].owner, k>> \in DOMAIN t.addr_txs
  <2>1. /\ k \in DOMAIN s.txs /\ s.txs[k].height = h /\ Filed(s, k)
        /\ s.txs[k].owner # None => <<s.txs[k].owner, k>> \in DOMAIN s.addr_txs
    BY <1>1 DEF Whole, Has
  <2>2. /\ DOMAIN s.txs \subseteq DOMAIN t.txs /\ DOMAIN s.addr_txs \subseteq DOMAIN t.addr_txs
        /\ t.txs[k] = s.txs[k]
    BY <2>1, PartitionNames DEF Grows
  <2>3. Filed(t, k)
    BY <2>1, FiledKept
  <2> QED
    BY <2>1, <2>2, <2>3
<1> QED
  BY <1>1, <1>3, <1>4 DEF Whole, Has

\* The rows a grown store has are sound.
LEMMA GrowsSound ==
    ASSUME NEW s, Sound(s), NEW t, Grows(s, t)
    PROVE  Sound(t)
<1>0. IsStore(t) /\ LastOf(t) = LastOf(s) /\ LastOf(s) \in Nat \cup {None}
  BY DEF Grows, Sound
<1>1. \A h \in 0 .. LastOf(t) : Whole(t, h)
  <2> SUFFICES ASSUME NEW h \in 0 .. LastOf(s) PROVE Whole(t, h)
    BY <1>0
  <2>1. h \in Nat /\ Whole(s, h)
    BY <1>0 DEF Sound, None
  <2>2. h = 0 \/ h - 1 \in DOMAIN s.blocks
    <3>1. h # 0 => h - 1 \in 0 .. LastOf(s)
      BY <1>0, <2>1 DEF None
    <3> QED
      BY <3>1 DEF Sound, Whole, Has
  <2> QED
    BY <2>1, <2>2, WholeKept
<1>2. \A k \in DOMAIN t.txs : k \in 0 .. MaxTxs - 1 /\ t.txs[k].height \in Nat
  BY DEF Grows, Sound
<1>3. ASSUME NEW b \in DOMAIN t.blocks
      PROVE  TxsOf(t.blocks[b]) = {k \in DOMAIN t.txs : t.txs[k].height = b}
  <2>1. CASE b \in DOMAIN s.blocks
    <3>1. TxsOf(t.blocks[b]) = {k \in DOMAIN s.txs : s.txs[k].height = b}
      BY <2>1 DEF Grows, Sound
    <3>2. DOMAIN s.txs \subseteq DOMAIN t.txs /\ \A k \in DOMAIN s.txs : t.txs[k] = s.txs[k]
      BY PartitionNames DEF Grows
    <3>3. \A k \in (DOMAIN t.txs) \ DOMAIN s.txs : t.txs[k].height # b
      BY <2>1 DEF Grows
    <3> QED
      BY <3>1, <3>2, <3>3
  <2>2. CASE b \notin DOMAIN s.blocks
    BY <2>2 DEF Grows
  <2> QED
    BY <2>1, <2>2
<1>4. ASSUME NEW i \in DOMAIN t.contract_actions
      PROVE  LET action == t.contract_actions[i] IN
             /\ i \in 0 .. MaxTxs - 1 /\ action.height \in Nat
             /\ action.height <= LastOf(t) =>
                   /\ action.tx \in DOMAIN t.txs
                   /\ <<action.addr, i>> \in DOMAIN t.contract_actions_by_addr
  <2>1. CASE i \in DOMAIN s.contract_actions
    <3>1. LET action == s.contract_actions[i] IN
             /\ i \in 0 .. MaxTxs - 1 /\ action.height \in Nat
             /\ action.height <= LastOf(s) =>
                   /\ action.tx \in DOMAIN s.txs
                   /\ <<action.addr, i>> \in DOMAIN s.contract_actions_by_addr
      BY <2>1 DEF Sound, Has
    <3>2. /\ t.contract_actions[i] = s.contract_actions[i]
          /\ DOMAIN s.txs \subseteq DOMAIN t.txs
          /\ DOMAIN s.contract_actions_by_addr \subseteq DOMAIN t.contract_actions_by_addr
      BY <2>1, PartitionNames DEF Grows
    <3> QED
      BY <1>0, <3>1, <3>2
  <2>2. CASE i \notin DOMAIN s.contract_actions
    <3>1. /\ i \in 0 .. MaxTxs - 1 /\ t.contract_actions[i].height \in Nat
          /\ t.contract_actions[i].height > LastOf(s)
      BY <2>2 DEF Grows
    <3>2. ~(t.contract_actions[i].height <= LastOf(t))
      BY <1>0, <3>1 DEF None
    <3> QED
      BY <3>1, <3>2
  <2> QED
    BY <2>1, <2>2
<1>5. ASSUME NEW k \in DOMAIN t.contract_actions_by_addr
      PROVE  k[2] \in DOMAIN t.contract_actions /\ t.contract_actions[k[2]].addr = k[1]
  BY PartitionNames DEF Grows, Sound, Has
<1>6. ASSUME NEW a \in DOMAIN t.contracts
      PROVE  LET latest == t.contracts[a].latest IN
             /\ latest \in DOMAIN t.contract_actions
             /\ t.contract_actions[latest].state # Failed
             /\ t.contract_actions[latest].state \in DOMAIN t.contract_states
  <2>1. CASE a \in DOMAIN s.contracts /\ t.contracts[a] = s.contracts[a]
    BY <2>1, PartitionNames DEF Grows, Sound, Has
  <2> QED
    BY <2>1 DEF Grows
<1>7. ASSUME NEW i \in DOMAIN t.ledger_events
      PROVE  LET event == t.ledger_events[i] IN
             /\ i \in 0 .. MaxTxs - 1 /\ event.height \in Nat
             /\ <<event.addr, i>> \in DOMAIN t.events_by_contract
             /\ event.height <= LastOf(t) => event.tx \in DOMAIN t.txs
  <2>1. CASE i \in DOMAIN s.ledger_events
    <3>1. LET event == s.ledger_events[i] IN
             /\ i \in 0 .. MaxTxs - 1 /\ event.height \in Nat
             /\ <<event.addr, i>> \in DOMAIN s.events_by_contract
             /\ event.height <= LastOf(s) => event.tx \in DOMAIN s.txs
      BY <2>1 DEF Sound, Has
    <3>2. /\ t.ledger_events[i] = s.ledger_events[i]
          /\ DOMAIN s.txs \subseteq DOMAIN t.txs
          /\ DOMAIN s.events_by_contract \subseteq DOMAIN t.events_by_contract
      BY <2>1, PartitionNames DEF Grows
    <3> QED
      BY <1>0, <3>1, <3>2
  <2>2. CASE i \notin DOMAIN s.ledger_events
    <3>1. /\ i \in 0 .. MaxTxs - 1 /\ t.ledger_events[i].height \in Nat
          /\ t.ledger_events[i].height > LastOf(s)
          /\ <<t.ledger_events[i].addr, i>> \in DOMAIN t.events_by_contract
      BY <2>2 DEF Grows
    <3>2. ~(t.ledger_events[i].height <= LastOf(t))
      BY <1>0, <3>1 DEF None
    <3> QED
      BY <3>1, <3>2
  <2> QED
    BY <2>1, <2>2
<1>8. ASSUME NEW k \in DOMAIN t.events_by_contract, k[2] \in DOMAIN t.ledger_events
      PROVE  t.ledger_events[k[2]].addr = k[1]
  <2>1. CASE k \in DOMAIN s.events_by_contract /\ k[2] \in DOMAIN s.ledger_events
    BY <2>1 DEF Grows, Sound, Has
  <2> QED
    BY <1>8, <2>1 DEF Grows
<1>9. ASSUME NEW k \in DOMAIN t.addr_txs
      PROVE  k[2] \in DOMAIN t.txs /\ t.txs[k[2]].owner = k[1]
  BY PartitionNames DEF Grows, Sound, Has
<1> QED
  BY <1>0, <1>1, <1>2, <1>3, <1>4, <1>5, <1>6, <1>7, <1>8, <1>9 DEF Sound, Has

LEMMA InsertParts ==
    ASSUME NEW s, IsStore(s), NEW p \in Partition, NEW k, NEW v,
           NEW t, t = Insert(s, Row(p, k, v))
    PROVE  /\ IsStore(t)
           /\ DOMAIN t[p] = (DOMAIN s[p]) \cup {k} /\ t[p][k] = v
           /\ \A x \in DOMAIN s[p] : x # k => t[p][x] = s[p][x]
           /\ \A q \in Partition : q # p => t[q] = s[q]
           /\ p # "meta" => t.meta = s.meta /\ LastOf(t) = LastOf(s)
<1> DEFINE row == Row(p, k, v)
<1>1. row.partition = p /\ row.key = k /\ row.value = v
  BY DEF Row
<1> HIDE DEF row
<1>2. /\ IsStore(t) /\ t[p] = Put(s[p], k, v)
      /\ \A q \in Partition : q # p => t[q] = s[q]
  BY <1>1, InsertRow DEF row
<1>3. p # "meta" => t.meta = s.meta
  BY <1>2, PartitionNames
<1>4. p # "meta" => LastOf(t) = LastOf(s)
  BY <1>3 DEF LastOf, Meta, Has
<1> QED
  BY <1>2, <1>3, <1>4 DEF Put

\* A row outside meta is orderly if the store grows by it.
LEMMA GrowthOrderly ==
    ASSUME NEW s, Sound(s), NEW p \in Partition \ {"meta"}, NEW k, NEW v,
           Grows(s, Insert(s, Row(p, k, v))),
           p \in Heights \cup {"contract_states", "blocks"} => k \notin DOMAIN s[p],
           p \in Heights => v.height > LastOf(s),
           p = "txs" => v.height \notin DOMAIN s.blocks
    PROVE  Orderly(s, Row(p, k, v))
<1> DEFINE row == Row(p, k, v)
           t == Insert(s, row)
<1>1. row.partition = p /\ row.key = k /\ row.value = v
  BY DEF Row
<1>2. IsStore(s) /\ LastOf(s) \in Int
  BY DEF Sound, None
<1>3. Sound(t)
  BY GrowsSound
<1>4. LastOf(t) = LastOf(s)
  BY DEF Grows
<1>5. LastOf(t) >= LastOf(s)
  BY <1>2, <1>4
<1> HIDE DEF row, t
<1>6. Sound(Insert(s, row)) /\ LastOf(Insert(s, row)) >= LastOf(s)
  BY <1>3, <1>5 DEF t
<1>7. Orderly(s, row)
  BY <1>1, <1>6 DEF Orderly
<1> QED
  BY <1>7 DEF row

LEMMA HashOrderly ==
    ASSUME NEW s, Sound(s), NEW k, NEW v
    PROVE  Orderly(s, Row("txs_by_hash", k, v))
<1>1. SUFFICES ASSUME NEW t, t = Insert(s, Row("txs_by_hash", k, v)) PROVE Grows(s, t)
  BY GrowthOrderly, PartitionNames DEF Heights
<1>2. IsStore(s)
  BY DEF Sound
<1>3. /\ IsStore(t) /\ LastOf(t) = LastOf(s)
      /\ DOMAIN t.txs_by_hash = (DOMAIN s.txs_by_hash) \cup {k}
      /\ \A q \in Partition : q # "txs_by_hash" => t[q] = s[q]
  BY <1>1, <1>2, InsertParts, PartitionNames
<1> QED
  BY <1>3, PartitionNames DEF Grows, Sound, Has

LEMMA ActionOrderly ==
    ASSUME NEW s, Sound(s), NEW i \in 0 .. MaxTxs - 1, i \notin DOMAIN s.contract_actions,
           NEW action, action.height \in Nat, action.height > LastOf(s)
    PROVE  Orderly(s, Row("contract_actions", i, action))
<1>1. SUFFICES ASSUME NEW t, t = Insert(s, Row("contract_actions", i, action)) PROVE Grows(s, t)
  BY GrowthOrderly, PartitionNames DEF Heights
<1>2. IsStore(s)
  BY DEF Sound
<1>3. /\ IsStore(t) /\ LastOf(t) = LastOf(s)
      /\ DOMAIN t.contract_actions = (DOMAIN s.contract_actions) \cup {i}
      /\ t.contract_actions[i] = action
      /\ \A x \in DOMAIN s.contract_actions : x # i => t.contract_actions[x] = s.contract_actions[x]
      /\ \A q \in Partition : q # "contract_actions" => t[q] = s[q]
  BY <1>1, <1>2, InsertParts, PartitionNames
<1> QED
  BY <1>3, PartitionNames DEF Grows, Sound, Has

LEMMA AddrOrderly ==
    ASSUME NEW s, Sound(s), NEW a, NEW i \in DOMAIN s.contract_actions,
           s.contract_actions[i].addr = a
    PROVE  Orderly(s, Row("contract_actions_by_addr", <<a, i>>, Entry))
<1>1. SUFFICES ASSUME NEW t, t = Insert(s, Row("contract_actions_by_addr", <<a, i>>, Entry))
               PROVE  Grows(s, t)
  BY GrowthOrderly, PartitionNames DEF Heights
<1>2. IsStore(s)
  BY DEF Sound
<1>3. /\ IsStore(t) /\ LastOf(t) = LastOf(s)
      /\ DOMAIN t.contract_actions_by_addr = (DOMAIN s.contract_actions_by_addr) \cup {<<a, i>>}
      /\ \A q \in Partition : q # "contract_actions_by_addr" => t[q] = s[q]
  BY <1>1, <1>2, InsertParts, PartitionNames
<1> QED
  BY <1>3, PartitionNames DEF Grows, Sound, Has

LEMMA BlobOrderly ==
    ASSUME NEW s, Sound(s), NEW state, state \notin DOMAIN s.contract_states
    PROVE  Orderly(s, Row("contract_states", state, Entry))
<1>1. SUFFICES ASSUME NEW t, t = Insert(s, Row("contract_states", state, Entry)) PROVE Grows(s, t)
  BY GrowthOrderly, PartitionNames DEF Heights
<1>2. IsStore(s)
  BY DEF Sound
<1>3. /\ IsStore(t) /\ LastOf(t) = LastOf(s)
      /\ DOMAIN t.contract_states = (DOMAIN s.contract_states) \cup {state}
      /\ \A q \in Partition : q # "contract_states" => t[q] = s[q]
  BY <1>1, <1>2, InsertParts, PartitionNames
<1> QED
  BY <1>3, PartitionNames DEF Grows, Sound, Has

LEMMA PointerOrderly ==
    ASSUME NEW s, Sound(s), NEW a, NEW v, v.latest \in DOMAIN s.contract_actions,
           s.contract_actions[v.latest].state # Failed,
           s.contract_actions[v.latest].state \in DOMAIN s.contract_states
    PROVE  Orderly(s, Row("contracts", a, v))
<1>1. SUFFICES ASSUME NEW t, t = Insert(s, Row("contracts", a, v)) PROVE Grows(s, t)
  BY GrowthOrderly, PartitionNames DEF Heights
<1>2. IsStore(s)
  BY DEF Sound
<1>3. /\ IsStore(t) /\ LastOf(t) = LastOf(s)
      /\ DOMAIN t.contracts = (DOMAIN s.contracts) \cup {a} /\ t.contracts[a] = v
      /\ \A x \in DOMAIN s.contracts : x # a => t.contracts[x] = s.contracts[x]
      /\ \A q \in Partition : q # "contracts" => t[q] = s[q]
  BY <1>1, <1>2, InsertParts, PartitionNames
<1> QED
  BY <1>3, PartitionNames DEF Grows, Sound, Has

LEMMA EventIndexOrderly ==
    ASSUME NEW s, Sound(s), NEW a, NEW i, i \notin DOMAIN s.ledger_events
    PROVE  Orderly(s, Row("events_by_contract", <<a, i>>, Entry))
<1>1. SUFFICES ASSUME NEW t, t = Insert(s, Row("events_by_contract", <<a, i>>, Entry))
               PROVE  Grows(s, t)
  BY GrowthOrderly, PartitionNames DEF Heights
<1>2. IsStore(s)
  BY DEF Sound
<1>3. /\ IsStore(t) /\ LastOf(t) = LastOf(s)
      /\ DOMAIN t.events_by_contract = (DOMAIN s.events_by_contract) \cup {<<a, i>>}
      /\ \A q \in Partition : q # "events_by_contract" => t[q] = s[q]
  BY <1>1, <1>2, InsertParts, PartitionNames
<1> QED
  BY <1>3, PartitionNames DEF Grows, Sound, Has

LEMMA EventOrderly ==
    ASSUME NEW s, Sound(s), NEW i \in 0 .. MaxTxs - 1, i \notin DOMAIN s.ledger_events,
           NEW event, event.height \in Nat, event.height > LastOf(s),
           <<event.addr, i>> \in DOMAIN s.events_by_contract,
           \A k \in DOMAIN s.events_by_contract : k[2] = i => k[1] = event.addr
    PROVE  Orderly(s, Row("ledger_events", i, event))
<1>1. SUFFICES ASSUME NEW t, t = Insert(s, Row("ledger_events", i, event)) PROVE Grows(s, t)
  BY GrowthOrderly, PartitionNames DEF Heights
<1>2. IsStore(s)
  BY DEF Sound
<1>3. /\ IsStore(t) /\ LastOf(t) = LastOf(s)
      /\ DOMAIN t.ledger_events = (DOMAIN s.ledger_events) \cup {i}
      /\ t.ledger_events[i] = event
      /\ \A x \in DOMAIN s.ledger_events : x # i => t.ledger_events[x] = s.ledger_events[x]
      /\ \A q \in Partition : q # "ledger_events" => t[q] = s[q]
  BY <1>1, <1>2, InsertParts, PartitionNames
<1> QED
  BY <1>3, PartitionNames DEF Grows, Sound, Has

LEMMA TxOrderly ==
    ASSUME NEW s, Sound(s), NEW i \in 0 .. MaxTxs - 1, i \notin DOMAIN s.txs,
           NEW tx, tx.height \in Nat, tx.height > LastOf(s), tx.height \notin DOMAIN s.blocks
    PROVE  Orderly(s, Row("txs", i, tx))
<1>1. SUFFICES ASSUME NEW t, t = Insert(s, Row("txs", i, tx)) PROVE Grows(s, t)
  BY GrowthOrderly, PartitionNames DEF Heights
<1>2. IsStore(s)
  BY DEF Sound
<1>3. /\ IsStore(t) /\ LastOf(t) = LastOf(s)
      /\ DOMAIN t.txs = (DOMAIN s.txs) \cup {i} /\ t.txs[i] = tx
      /\ \A x \in DOMAIN s.txs : x # i => t.txs[x] = s.txs[x]
      /\ \A q \in Partition : q # "txs" => t[q] = s[q]
  BY <1>1, <1>2, InsertParts, PartitionNames
<1> QED
  BY <1>3, PartitionNames DEF Grows, Sound, Has

LEMMA HistoryOrderly ==
    ASSUME NEW s, Sound(s), NEW o, NEW i \in DOMAIN s.txs, s.txs[i].owner = o
    PROVE  Orderly(s, Row("addr_txs", <<o, i>>, Entry))
<1>1. SUFFICES ASSUME NEW t, t = Insert(s, Row("addr_txs", <<o, i>>, Entry)) PROVE Grows(s, t)
  BY GrowthOrderly, PartitionNames DEF Heights
<1>2. IsStore(s)
  BY DEF Sound
<1>3. /\ IsStore(t) /\ LastOf(t) = LastOf(s)
      /\ DOMAIN t.addr_txs = (DOMAIN s.addr_txs) \cup {<<o, i>>}
      /\ \A q \in Partition : q # "addr_txs" => t[q] = s[q]
  BY <1>1, <1>2, InsertParts, PartitionNames
<1> QED
  BY <1>3, PartitionNames DEF Grows, Sound, Has

LEMMA BlockOrderly ==
    ASSUME NEW s, Sound(s), NEW b, b \notin DOMAIN s.blocks, NEW block,
           TxsOf(block) = {k \in DOMAIN s.txs : s.txs[k].height = b}
    PROVE  Orderly(s, Row("blocks", b, block))
<1>1. SUFFICES ASSUME NEW t, t = Insert(s, Row("blocks", b, block)) PROVE Grows(s, t)
  BY GrowthOrderly, PartitionNames DEF Heights
<1>2. IsStore(s)
  BY DEF Sound
<1>3. /\ IsStore(t) /\ LastOf(t) = LastOf(s)
      /\ DOMAIN t.blocks = (DOMAIN s.blocks) \cup {b} /\ t.blocks[b] = block
      /\ \A x \in DOMAIN s.blocks : x # b => t.blocks[x] = s.blocks[x]
      /\ \A q \in Partition : q # "blocks" => t[q] = s[q]
  BY <1>1, <1>2, InsertParts, PartitionNames
<1> QED
  BY <1>3, PartitionNames DEF Grows, Sound, Has

\* Other meta rows than the cursor change nothing a reader relies on.
LEMMA MetaOrderly ==
    ASSUME NEW s, Sound(s), NEW k, k # "last_indexed_height", NEW v
    PROVE  Orderly(s, Row("meta", k, v))
<1> DEFINE row == Row("meta", k, v)
<1>1. row.partition = "meta" /\ row.key = k /\ row.value = v
  BY DEF Row
<1>2. SUFFICES ASSUME NEW t, t = Insert(s, row) PROVE Sound(t) /\ LastOf(t) = LastOf(s)
  <2>1. Sound(Insert(s, row)) /\ LastOf(Insert(s, row)) = LastOf(s)
    BY <1>2
  <2>2. LastOf(Insert(s, row)) >= LastOf(s)
    BY <2>1 DEF Sound, None
  <2> HIDE DEF row
  <2>3. Orderly(s, row)
    BY <1>1, <2>1, <2>2, PartitionNames DEF Orderly, Heights
  <2> QED
    BY <2>3 DEF row
<1>3. IsStore(s)
  BY DEF Sound
<1>4. /\ IsStore(t)
      /\ DOMAIN t.meta = (DOMAIN s.meta) \cup {k}
      /\ \A x \in DOMAIN s.meta : x # k => t.meta[x] = s.meta[x]
      /\ \A q \in Partition : q # "meta" => t[q] = s[q]
  BY <1>2, <1>3, InsertParts, PartitionNames
<1>5. LastOf(t) = LastOf(s)
  BY <1>4 DEF LastOf, Meta, Has
<1>6. Grows(s, t)
  BY <1>4, <1>5, PartitionNames DEF Grows, Sound, Has
<1> QED
  BY <1>5, <1>6, GrowsSound

\* The cursor may move to the next block once all of it is there.
LEMMA CursorOrderly ==
    ASSUME NEW s, Sound(s), NEW h \in Nat, h = LastOf(s) + 1, Whole(s, h),
           \A i \in DOMAIN s.contract_actions :
              /\ s.contract_actions[i].tx \in DOMAIN s.txs
              /\ <<s.contract_actions[i].addr, i>> \in DOMAIN s.contract_actions_by_addr,
           \A i \in DOMAIN s.ledger_events : s.ledger_events[i].tx \in DOMAIN s.txs
    PROVE  Orderly(s, Row("meta", "last_indexed_height", h))
<1> DEFINE row == Row("meta", "last_indexed_height", h)
<1>1. row.partition = "meta" /\ row.key = "last_indexed_height" /\ row.value = h
  BY DEF Row
<1>2. SUFFICES ASSUME NEW t, t = Insert(s, row) PROVE Sound(t) /\ LastOf(t) = h
  <2>1. Sound(Insert(s, row)) /\ LastOf(Insert(s, row)) = h
    BY <1>2
  <2>2. LastOf(s) \in Int
    BY DEF Sound, None
  <2>3. LastOf(Insert(s, row)) >= LastOf(s)
    BY <2>1, <2>2
  <2> HIDE DEF row
  <2>4. Orderly(s, row)
    BY <1>1, <2>1, <2>3, PartitionNames DEF Orderly, Heights
  <2> QED
    BY <2>4 DEF row
<1>3. IsStore(s) /\ LastOf(s) \in Int
  BY DEF Sound, None
<1>4. /\ IsStore(t)
      /\ "last_indexed_height" \in DOMAIN t.meta /\ t.meta["last_indexed_height"] = h
      /\ \A q \in Partition : q # "meta" => t[q] = s[q]
  BY <1>2, <1>3, InsertParts, PartitionNames
<1>5. LastOf(t) = h
  BY <1>4 DEF LastOf, Meta, Has
<1>6. /\ t.txs_by_hash = s.txs_by_hash /\ t.contract_actions = s.contract_actions
      /\ t.contract_actions_by_addr = s.contract_actions_by_addr
      /\ t.contract_states = s.contract_states /\ t.contracts = s.contracts
      /\ t.events_by_contract = s.events_by_contract /\ t.ledger_events = s.ledger_events
      /\ t.txs = s.txs /\ t.addr_txs = s.addr_txs /\ t.blocks = s.blocks
  BY <1>4, PartitionNames
<1>7. \A x : Whole(t, x) <=> Whole(s, x)
  BY <1>6 DEF Whole, Filed, Has
<1>8. \A x \in 0 .. h : Whole(t, x)
  <2>1. \A x \in 0 .. h : x = h \/ x \in 0 .. LastOf(s)
    BY <1>3
  <2>2. \A x \in 0 .. LastOf(s) : Whole(s, x)
    BY DEF Sound
  <2> QED
    BY <1>7, <2>1, <2>2
<1>9. Sound(t)
  BY <1>4, <1>5, <1>6, <1>8 DEF Sound, Has
<1> QED
  BY <1>5, <1>9

----------------------------------------------------------------------------
(* A transaction added to the batch *)

\* s is what a reader sees once all of rows are visible.
Stage(rows, s) ==
    /\ IsSeq(rows) /\ AllOrderly(store, rows)
    /\ InsertAll(store, rows) = s /\ Sound(s)

LEMMA StageNext ==
    ASSUME Sound(store), NEW rows, NEW s, Stage(rows, s), NEW row, Orderly(s, row)
    PROVE  Stage(rows \o <<row>>, Insert(s, row)) /\ IsSeq(rows \o <<row>>)
<1>1. IsStore(store) /\ IsSeq(rows) /\ AllOrderly(store, rows)
      /\ Orderly(InsertAll(store, rows), row)
  BY DEF Sound, Stage
<1>2. rows \o <<row>> = Append(rows, row)
  BY <1>1, AppendSeq
<1>3. /\ IsSeq(Append(rows, row)) /\ AllOrderly(store, Append(rows, row))
      /\ InsertAll(store, Append(rows, row)) = Insert(InsertAll(store, rows), row)
  BY <1>1, OrderlyAppend
<1>4. Sound(Insert(s, row)) /\ InsertAll(store, rows) = s
  BY DEF Orderly, Stage
<1> QED
  BY <1>2, <1>3, <1>4 DEF Stage

LEMMA Tuples ==
    /\ IsSeq(<<>>) /\ \A a : IsSeq(<<a>>)
    /\ \A a, b : IsSeq(<<a, b>>)
<1>1. <<>> \in Seq({})
  OBVIOUS
<1>2. ASSUME NEW a PROVE IsSeq(<<a>>)
  <2>1. <<a>> \in Seq({a})
    OBVIOUS
  <2> QED
    BY <2>1, SeqOfAny
<1>3. ASSUME NEW a, NEW b PROVE IsSeq(<<a, b>>)
  <2>1. <<a, b>> \in Seq({a, b})
    OBVIOUS
  <2> QED
    BY <2>1, SeqOfAny
<1> QED
  BY <1>1, <1>2, <1>3, SeqOfAny

LEMMA ConcatAssoc ==
    ASSUME NEW r, NEW x, NEW y, IsSeq(r), IsSeq(x), IsSeq(y)
    PROVE  IsSeq(r \o x) /\ r \o (x \o y) = (r \o x) \o y
<1> DEFINE S == ToSet(r) \cup ToSet(x) \cup ToSet(y)
<1>1. r \in Seq(S) /\ x \in Seq(S) /\ y \in Seq(S)
  BY SeqMonotonic DEF IsSeq
<1> HIDE DEF S
<1>2. r \o x \in Seq(S)
  BY <1>1
<1>3. r \o (x \o y) = (r \o x) \o y
  BY <1>1, ConcatAssociative
<1> QED
  BY <1>2, <1>3, SeqOfAny

LEMMA ConcatEmpty == \A r : IsSeq(r) => r \o <<>> = r
<1> SUFFICES ASSUME NEW r, IsSeq(r) PROVE r \o <<>> = r
  OBVIOUS
<1>1. r \in Seq(ToSet(r))
  BY DEF IsSeq
<1> QED
  BY <1>1, ConcatEmptySeq

LEMMA ConcatPair ==
    ASSUME NEW r, IsSeq(r), NEW a, NEW b
    PROVE  r \o <<a, b>> = (r \o <<a>>) \o <<b>>
<1> DEFINE x == <<a>>
           y == <<b>>
           z == <<a, b>>
<1>1. IsSeq(x) /\ IsSeq(y) /\ IsSeq(z)
  BY Tuples
<1>2. z = x \o y
  <2>1. Len(x) = 1 /\ x[1] = a /\ Len(z) = 2 /\ z[1] = a /\ z[2] = b
    OBVIOUS
  <2> HIDE DEF x, z
  <2>2. /\ x \o y = Append(x, b) /\ IsSeq(Append(x, b)) /\ Len(Append(x, b)) = 2
        /\ Append(x, b)[1] = a /\ Append(x, b)[2] = b
    BY <1>1, <2>1, AppendSeq
  <2>3. \A i \in 1 .. 2 : z[i] = Append(x, b)[i]
    <3>1. \A i \in 1 .. 2 : i = 1 \/ i = 2
      OBVIOUS
    <3> QED
      BY <2>1, <2>2, <3>1
  <2>4. z = Append(x, b)
    BY <1>1, <2>1, <2>2, <2>3, SameSeq
  <2> QED
    BY <2>2, <2>4
<1> HIDE DEF x, y, z
<1>3. r \o z = (r \o x) \o y
  <2>1. r \o (x \o y) = (r \o x) \o y
    BY <1>1, ConcatAssoc
  <2> QED
    BY <1>2, <2>1, Zenon
<1> QED
  BY <1>3 DEF x, y, z

LEMMA InsertPut ==
    ASSUME NEW s, Sound(s), NEW p \in Partition, NEW k, NEW v
    PROVE  /\ Insert(s, Row(p, k, v))[p] = Put(s[p], k, v)
           /\ \A q \in Partition : q # p => Insert(s, Row(p, k, v))[q] = s[q]
<1> DEFINE row == Row(p, k, v)
<1>1. row.partition = p /\ row.key = k /\ row.value = v
  BY DEF Row
<1> HIDE DEF row
<1>2. /\ Insert(s, row)[p] = Put(s[p], k, v)
      /\ \A q \in Partition : q # p => Insert(s, row)[q] = s[q]
  BY <1>1, InsertRow DEF Sound
<1> QED
  BY <1>2 DEF row

ActionOf(t, h) == [addr |-> t.addr, state |-> t.state, tx |-> ids.tx, height |-> h]
PointerOf(t) == [deploy |-> IF Has(WithCaches, "contracts", t.addr)
                            THEN WithCaches.contracts[t.addr].deploy ELSE ids.action,
                 latest |-> ids.action]

\* f is s with the action of t.
ActionAdded(s, f, t, h) ==
    /\ f.contract_actions = Put(s.contract_actions, ids.action, ActionOf(t, h))
    /\ f.contract_actions_by_addr =
          Put(s.contract_actions_by_addr, <<t.addr, ids.action>>, Entry)
    /\ DOMAIN f.contract_states =
          (DOMAIN s.contract_states) \cup (IF t.state = Failed THEN {} ELSE {t.state})
    /\ f.contracts = IF t.state = Failed THEN s.contracts
                     ELSE Put(s.contracts, t.addr, PointerOf(t))
    /\ f.txs_by_hash = s.txs_by_hash /\ f.events_by_contract = s.events_by_contract
    /\ f.ledger_events = s.ledger_events /\ f.txs = s.txs /\ f.addr_txs = s.addr_txs
    /\ f.blocks = s.blocks /\ f.meta = s.meta

LEMMA BlobStage ==
    ASSUME Sound(store), NEW t, NEW rows, NEW s, Stage(rows, s),
           s.contract_states = WithCaches.contract_states
    PROVE  /\ IsSeq(BlobRows(t))
           /\ \E f : /\ Stage(rows \o BlobRows(t), f)
                     /\ DOMAIN f.contract_states = (DOMAIN s.contract_states)
                           \cup (IF t.state = Failed THEN {} ELSE {t.state})
                     /\ \A q \in Partition : q # "contract_states" => f[q] = s[q]
<1> DEFINE row == Row("contract_states", t.state, Entry)
           f == Insert(s, row)
<1>0. Sound(s) /\ IsSeq(rows)
  BY DEF Stage
<1>1. CASE t.state # Failed /\ t.state \notin DOMAIN s.contract_states
  <2>1. BlobRows(t) = <<row>>
    BY <1>1 DEF BlobRows, Has
  <2>2. Orderly(s, row)
    BY <1>0, <1>1, BlobOrderly
  <2>3. /\ f.contract_states = Put(s.contract_states, t.state, Entry)
        /\ \A q \in Partition : q # "contract_states" => f[q] = s[q]
    BY <1>0, InsertPut, PartitionNames
  <2> HIDE DEF row
  <2>4. Stage(rows \o <<row>>, f)
    BY <2>2, StageNext
  <2>5. DOMAIN f.contract_states = (DOMAIN s.contract_states) \cup {t.state}
    BY <2>3 DEF Put
  <2> HIDE DEF f
  <2> QED
    BY <1>1, <2>1, <2>3, <2>4, <2>5, Tuples
<1>2. CASE ~(t.state # Failed /\ t.state \notin DOMAIN s.contract_states)
  <2>1. BlobRows(t) = <<>>
    BY <1>2 DEF BlobRows, Has
  <2>2. rows \o <<>> = rows
    BY <1>0, ConcatEmpty
  <2>3. DOMAIN s.contract_states = (DOMAIN s.contract_states)
                          \cup (IF t.state = Failed THEN {} ELSE {t.state})
    BY <1>2
  <2> QED
    BY <2>1, <2>2, <2>3, Tuples
<1> QED
  BY <1>1, <1>2

LEMMA PointerStage ==
    ASSUME Sound(store), NEW t, NEW rows, NEW s, Stage(rows, s),
           s.contracts = WithCaches.contracts,
           ids.action \in DOMAIN s.contract_actions,
           s.contract_actions[ids.action].state = t.state,
           t.state # Failed => t.state \in DOMAIN s.contract_states
    PROVE  /\ IsSeq(PointerRows(t))
           /\ \E f : /\ Stage(rows \o PointerRows(t), f)
                     /\ f.contracts = IF t.state = Failed THEN s.contracts
                                      ELSE Put(s.contracts, t.addr, PointerOf(t))
                     /\ \A q \in Partition : q # "contracts" => f[q] = s[q]
<1> DEFINE row == Row("contracts", t.addr, PointerOf(t))
           f == Insert(s, row)
<1>0. Sound(s) /\ IsSeq(rows)
  BY DEF Stage
<1>1. CASE t.state # Failed
  <2>1. PointerRows(t) = <<row>>
    BY <1>1 DEF PointerRows, PointerOf
  <2>2. PointerOf(t).latest = ids.action
    BY DEF PointerOf
  <2>3. Orderly(s, row)
    BY <1>0, <1>1, <2>2, PointerOrderly
  <2>4. /\ f.contracts = Put(s.contracts, t.addr, PointerOf(t))
        /\ \A q \in Partition : q # "contracts" => f[q] = s[q]
    BY <1>0, InsertPut, PartitionNames
  <2> HIDE DEF row
  <2>5. Stage(rows \o <<row>>, f)
    BY <2>3, StageNext
  <2> HIDE DEF f
  <2>6. IsSeq(PointerRows(t))
    BY <2>1, Tuples
  <2>7. /\ Stage(rows \o PointerRows(t), f)
        /\ f.contracts = IF t.state = Failed THEN s.contracts
                         ELSE Put(s.contracts, t.addr, PointerOf(t))
        /\ \A q \in Partition : q # "contracts" => f[q] = s[q]
    BY <1>1, <2>1, <2>4, <2>5
  <2> QED
    BY <2>6, <2>7
<1>2. CASE t.state = Failed
  <2>1. PointerRows(t) = <<>>
    BY <1>2 DEF PointerRows
  <2>2. rows \o <<>> = rows
    BY <1>0, ConcatEmpty
  <2> QED
    BY <1>2, <2>1, <2>2, Tuples
<1> QED
  BY <1>1, <1>2

LEMMA ActionStage ==
    ASSUME Sound(store), NEW t, t.addr # None, NEW h \in Nat,
           NEW rows, NEW s, Stage(rows, s), h > LastOf(s),
           ids.action \in 0 .. MaxTxs - 1, ids.action \notin DOMAIN s.contract_actions,
           s.contract_states = WithCaches.contract_states,
           s.contracts = WithCaches.contracts
    PROVE  /\ IsSeq(ActionRows(t, h))
           /\ \E f : Stage(rows \o ActionRows(t, h), f) /\ ActionAdded(s, f, t, h)
<1> DEFINE r1 == Row("contract_actions", ids.action, ActionOf(t, h))
           r2 == Row("contract_actions_by_addr", <<t.addr, ids.action>>, Entry)
           s1 == Insert(s, r1)
           s2 == Insert(s1, r2)
           two == (rows \o <<r1>>) \o <<r2>>
<1>1. Sound(s) /\ IsSeq(rows)
  BY DEF Stage
<1>2. ActionOf(t, h).height = h /\ ActionOf(t, h).addr = t.addr /\ ActionOf(t, h).state = t.state
  BY DEF ActionOf
<1>3. Orderly(s, r1)
  BY <1>1, <1>2, ActionOrderly
<1>4. /\ s1.contract_actions = Put(s.contract_actions, ids.action, ActionOf(t, h))
      /\ \A q \in Partition : q # "contract_actions" => s1[q] = s[q]
  BY <1>1, InsertPut, PartitionNames
<1>5. Stage(rows \o <<r1>>, s1) /\ IsSeq(rows \o <<r1>>)
  <2> HIDE DEF r1
  <2> QED
    BY <1>3, StageNext
<1>6. Sound(s1)
  BY <1>5 DEF Stage
<1> HIDE DEF s1
<1>7. /\ ids.action \in DOMAIN s1.contract_actions
      /\ s1.contract_actions[ids.action] = ActionOf(t, h)
  BY <1>4 DEF Put
<1>8. Orderly(s1, r2)
  BY <1>2, <1>6, <1>7, AddrOrderly
<1>9. /\ s2.contract_actions_by_addr =
            Put(s1.contract_actions_by_addr, <<t.addr, ids.action>>, Entry)
      /\ \A q \in Partition : q # "contract_actions_by_addr" => s2[q] = s1[q]
  BY <1>6, InsertPut, PartitionNames
<1> HIDE DEF r1, r2
<1>10. Stage(two, s2) /\ IsSeq(two)
  BY <1>5, <1>8, StageNext
<1>11. ActionRows(t, h) = (<<r1, r2>> \o BlobRows(t)) \o PointerRows(t)
  BY DEF ActionRows, r1, r2, ActionOf
<1>12. two = rows \o <<r1, r2>>
  BY <1>1, ConcatPair
<1> HIDE DEF s2, two
<1>13. /\ s2.contract_actions_by_addr =
             Put(s.contract_actions_by_addr, <<t.addr, ids.action>>, Entry)
       /\ s2.contract_actions = Put(s.contract_actions, ids.action, ActionOf(t, h))
       /\ s2.contract_states = s.contract_states /\ s2.contracts = s.contracts
       /\ s2.txs_by_hash = s.txs_by_hash /\ s2.events_by_contract = s.events_by_contract
       /\ s2.ledger_events = s.ledger_events /\ s2.txs = s.txs
       /\ s2.addr_txs = s.addr_txs /\ s2.blocks = s.blocks /\ s2.meta = s.meta
  BY <1>4, <1>9, PartitionNames
<1>14. IsSeq(BlobRows(t))
  BY <1>10, <1>13, BlobStage
<1>15. PICK s3 :
          /\ Stage(two \o BlobRows(t), s3)
          /\ DOMAIN s3.contract_states = (DOMAIN s2.contract_states)
                \cup (IF t.state = Failed THEN {} ELSE {t.state})
          /\ \A q \in Partition : q # "contract_states" => s3[q] = s2[q]
  BY <1>10, <1>13, BlobStage
<1>16. s3.contract_actions = s2.contract_actions /\ s3.contracts = s2.contracts
  BY <1>15, PartitionNames
<1>17. /\ ids.action \in DOMAIN s3.contract_actions
       /\ s3.contract_actions[ids.action].state = t.state
       /\ s3.contracts = WithCaches.contracts
       /\ t.state # Failed => t.state \in DOMAIN s3.contract_states
  BY <1>2, <1>7, <1>4, <1>13, <1>15, <1>16
<1>18. IsSeq(PointerRows(t))
  BY <1>15, <1>17, PointerStage
<1>19. PICK f :
          /\ Stage((two \o BlobRows(t)) \o PointerRows(t), f)
          /\ f.contracts = IF t.state = Failed THEN s3.contracts
                           ELSE Put(s3.contracts, t.addr, PointerOf(t))
          /\ \A q \in Partition : q # "contracts" => f[q] = s3[q]
  BY <1>15, <1>17, PointerStage
<1>20. ActionAdded(s, f, t, h)
  <2>1. /\ f.txs_by_hash = s.txs_by_hash /\ f.events_by_contract = s.events_by_contract
        /\ f.ledger_events = s.ledger_events /\ f.txs = s.txs /\ f.addr_txs = s.addr_txs
        /\ f.blocks = s.blocks /\ f.meta = s.meta
        /\ f.contract_actions = Put(s.contract_actions, ids.action, ActionOf(t, h))
        /\ f.contract_actions_by_addr =
              Put(s.contract_actions_by_addr, <<t.addr, ids.action>>, Entry)
        /\ f.contract_states = s3.contract_states
    BY <1>13, <1>15, <1>19, PartitionNames
  <2>2. DOMAIN f.contract_states =
          (DOMAIN s.contract_states) \cup (IF t.state = Failed THEN {} ELSE {t.state})
    BY <1>13, <1>15, <2>1
  <2>3. f.contracts = IF t.state = Failed THEN s.contracts
                      ELSE Put(s.contracts, t.addr, PointerOf(t))
    BY <1>13, <1>16, <1>19
  <2> QED
    BY <2>1, <2>2, <2>3 DEF ActionAdded
<1>21. /\ rows \o ActionRows(t, h) = (two \o BlobRows(t)) \o PointerRows(t)
       /\ IsSeq(ActionRows(t, h))
  <2> DEFINE pair == <<r1, r2>>
             blob == BlobRows(t)
             pointer == PointerRows(t)
  <2>1. IsSeq(pair) /\ IsSeq(blob) /\ IsSeq(pointer)
    BY <1>14, <1>18, Tuples
  <2>2. two = rows \o pair
    BY <1>12
  <2>3. ActionRows(t, h) = (pair \o blob) \o pointer
    BY <1>11
  <2> HIDE DEF pair, blob, pointer
  <2>4. IsSeq(pair \o blob) /\ IsSeq((pair \o blob) \o pointer)
    BY <2>1, ConcatAssoc
  <2>5. rows \o ((pair \o blob) \o pointer) = (rows \o (pair \o blob)) \o pointer
    BY <1>1, <2>1, <2>4, ConcatAssoc
  <2>6. rows \o (pair \o blob) = (rows \o pair) \o blob
    BY <1>1, <2>1, ConcatAssoc
  <2> QED
    BY <2>2, <2>3, <2>4, <2>5, <2>6 DEF blob, pointer
<1> QED
  BY <1>19, <1>20, <1>21

EventOf(t, h) == [addr |-> t.addr, tx |-> ids.tx, height |-> h]

EventAdded(s, f, t, h) ==
    /\ f.events_by_contract = Put(s.events_by_contract, <<t.addr, ids.event>>, Entry)
    /\ f.ledger_events = Put(s.ledger_events, ids.event, EventOf(t, h))
    /\ \A q \in Partition \ {"events_by_contract", "ledger_events"} : f[q] = s[q]

LEMMA EventStage ==
    ASSUME Sound(store), NEW t, t.emits, NEW h \in Nat,
           NEW rows, NEW s, Stage(rows, s), h > LastOf(s),
           ids.event \in 0 .. MaxTxs - 1, ids.event \notin DOMAIN s.ledger_events,
           \A k \in DOMAIN s.events_by_contract : k[2] \in DOMAIN s.ledger_events
    PROVE  \E f : Stage(rows \o EventRows(t, h), f) /\ EventAdded(s, f, t, h)
<1> DEFINE r1 == Row("events_by_contract", <<t.addr, ids.event>>, Entry)
           r2 == Row("ledger_events", ids.event, EventOf(t, h))
           s1 == Insert(s, r1)
           s2 == Insert(s1, r2)
           two == (rows \o <<r1>>) \o <<r2>>
<1>1. Sound(s) /\ IsSeq(rows)
  BY DEF Stage
<1>2. EventOf(t, h).height = h /\ EventOf(t, h).addr = t.addr
  BY DEF EventOf
<1>3. Orderly(s, r1)
  BY <1>1, EventIndexOrderly
<1>4. /\ s1.events_by_contract = Put(s.events_by_contract, <<t.addr, ids.event>>, Entry)
      /\ \A q \in Partition : q # "events_by_contract" => s1[q] = s[q]
  BY <1>1, InsertPut, PartitionNames
<1>5. Stage(rows \o <<r1>>, s1) /\ IsSeq(rows \o <<r1>>)
  <2> HIDE DEF r1
  <2> QED
    BY <1>3, StageNext
<1>6. Sound(s1)
  BY <1>5 DEF Stage
<1> HIDE DEF s1
<1>7. /\ <<t.addr, ids.event>> \in DOMAIN s1.events_by_contract
      /\ \A k \in DOMAIN s1.events_by_contract : k[2] = ids.event => k[1] = t.addr
      /\ s1.ledger_events = s.ledger_events /\ s1.meta = s.meta
  BY <1>4, PartitionNames DEF Put
<1>8. LastOf(s1) = LastOf(s)
  BY <1>7 DEF LastOf, Meta, Has
<1>9. Orderly(s1, r2)
  BY <1>2, <1>6, <1>7, <1>8, EventOrderly
<1>10. /\ s2.ledger_events = Put(s1.ledger_events, ids.event, EventOf(t, h))
       /\ \A q \in Partition : q # "ledger_events" => s2[q] = s1[q]
  BY <1>6, InsertPut, PartitionNames
<1> HIDE DEF r1, r2
<1>11. Stage(two, s2)
  BY <1>5, <1>9, StageNext
<1>12. EventRows(t, h) = <<r1, r2>>
  BY DEF EventRows, r1, r2, EventOf
<1>13. two = rows \o <<r1, r2>>
  BY <1>1, ConcatPair
<1> HIDE DEF s2, two
<1>14. EventAdded(s, s2, t, h)
  BY <1>4, <1>7, <1>10, PartitionNames DEF EventAdded
<1> QED
  BY <1>11, <1>12, <1>13, <1>14
TxOf(t, h) == [hash |-> t.hash, height |-> h, owner |-> t.owner,
               actions |-> IF t.addr = None THEN {} ELSE {ids.action},
               events |-> IF t.emits THEN {ids.event} ELSE {}]

\* f is s with t and all it brings.
TxAdded(s, f, t, h) ==
    /\ f.txs_by_hash = Put(s.txs_by_hash, <<t.hash, ids.tx>>, Entry)
    /\ f.txs = Put(s.txs, ids.tx, TxOf(t, h))
    /\ f.addr_txs = s.addr_txs /\ f.blocks = s.blocks /\ f.meta = s.meta
    /\ t.addr = None => /\ f.contract_actions = s.contract_actions
                        /\ f.contract_actions_by_addr = s.contract_actions_by_addr
                        /\ DOMAIN f.contract_states = DOMAIN s.contract_states
                        /\ f.contracts = s.contracts
    /\ t.addr # None =>
          /\ f.contract_actions = Put(s.contract_actions, ids.action, ActionOf(t, h))
          /\ f.contract_actions_by_addr =
                Put(s.contract_actions_by_addr, <<t.addr, ids.action>>, Entry)
          /\ DOMAIN f.contract_states =
                (DOMAIN s.contract_states) \cup (IF t.state = Failed THEN {} ELSE {t.state})
          /\ f.contracts = IF t.state = Failed THEN s.contracts
                           ELSE Put(s.contracts, t.addr, PointerOf(t))
    /\ ~t.emits => /\ f.events_by_contract = s.events_by_contract
                   /\ f.ledger_events = s.ledger_events
    /\ t.emits => /\ f.events_by_contract =
                        Put(s.events_by_contract, <<t.addr, ids.event>>, Entry)
                  /\ f.ledger_events = Put(s.ledger_events, ids.event, EventOf(t, h))

RowsOfTx(t, h) ==
    batch
       \o <<Row("txs_by_hash", <<t.hash, ids.tx>>, Entry)>>
       \o ActionRows(t, h) \o EventRows(t, h)
       \o <<Row("txs", ids.tx, TxOf(t, h))>>

LEMMA LinkedIds ==
    ASSUME NEW s, NEW n, Linked(s, n), n.tx < MaxTxs
    PROVE  /\ n.tx \in 0 .. MaxTxs - 1 /\ n.action \in 0 .. MaxTxs - 1
           /\ n.event \in 0 .. MaxTxs - 1
           /\ n.tx \notin DOMAIN s.txs /\ n.action \notin DOMAIN s.contract_actions
           /\ n.event \notin DOMAIN s.ledger_events
           /\ LastOf(s) + 1 \in Nat /\ LastOf(s) + 1 > LastOf(s)
           /\ LastOf(s) + 1 \notin DOMAIN s.blocks
           /\ \A k \in DOMAIN s.events_by_contract : k[2] \in DOMAIN s.ledger_events
<1>1. /\ n.tx \in 0 .. MaxTxs /\ n.action \in 0 .. n.tx /\ n.event \in 0 .. n.tx
      /\ DOMAIN s.txs = 0 .. n.tx - 1
      /\ DOMAIN s.contract_actions = 0 .. n.action - 1
      /\ DOMAIN s.ledger_events = 0 .. n.event - 1
      /\ DOMAIN s.blocks = 0 .. LastOf(s)
      /\ LastOf(s) \in Nat \cup {None}
  BY DEF Linked
<1>2. \A k \in DOMAIN s.events_by_contract : k[2] \in DOMAIN s.ledger_events
  BY DEF Linked, Has
<1>3. LastOf(s) \in Int /\ LastOf(s) + 1 \in Nat
  BY <1>1 DEF None
<1> QED
  BY <1>1, <1>2, <1>3, BoundsAssumption

LEMMA TxStage ==
    ASSUME Sound(store), NEW s, s = WithCaches, Stage(batch, s), Linked(s, ids),
           ids.tx < MaxTxs, NEW t, NEW h, h = LastOf(s) + 1
    PROVE  \E f : Stage(RowsOfTx(t, h), f) /\ TxAdded(s, f, t, h)
<1> DEFINE r1 == Row("txs_by_hash", <<t.hash, ids.tx>>, Entry)
           r4 == Row("txs", ids.tx, TxOf(t, h))
           s1 == Insert(s, r1)
           rows1 == batch \o <<r1>>
           rows2 == rows1 \o ActionRows(t, h)
           rows3 == rows2 \o EventRows(t, h)
<1>1. /\ ids.tx \in 0 .. MaxTxs - 1 /\ ids.action \in 0 .. MaxTxs - 1
      /\ ids.event \in 0 .. MaxTxs - 1
      /\ ids.tx \notin DOMAIN s.txs /\ ids.action \notin DOMAIN s.contract_actions
      /\ ids.event \notin DOMAIN s.ledger_events
      /\ h \in Nat /\ h > LastOf(s) /\ h \notin DOMAIN s.blocks
      /\ \A k \in DOMAIN s.events_by_contract : k[2] \in DOMAIN s.ledger_events
  BY LinkedIds
<1>2. Sound(s) /\ IsSeq(batch)
  BY DEF Stage
<1>3. Orderly(s, r1)
  BY <1>2, HashOrderly
<1>4. /\ s1.txs_by_hash = Put(s.txs_by_hash, <<t.hash, ids.tx>>, Entry)
      /\ \A q \in Partition : q # "txs_by_hash" => s1[q] = s[q]
  BY <1>2, InsertPut, PartitionNames
<1> HIDE DEF r1
<1>5. Stage(rows1, s1) /\ IsSeq(rows1)
  BY <1>3, StageNext
<1> HIDE DEF s1, rows1
<1>6. /\ s1.contract_actions = s.contract_actions
      /\ s1.contract_actions_by_addr = s.contract_actions_by_addr
      /\ s1.contract_states = s.contract_states /\ s1.contracts = s.contracts
      /\ s1.events_by_contract = s.events_by_contract
      /\ s1.ledger_events = s.ledger_events /\ s1.txs = s.txs
      /\ s1.addr_txs = s.addr_txs /\ s1.blocks = s.blocks /\ s1.meta = s.meta
  BY <1>4, PartitionNames
<1>7. LastOf(s1) = LastOf(s)
  BY <1>6 DEF LastOf, Meta, Has
<1>8. /\ h > LastOf(s1) /\ ids.action \notin DOMAIN s1.contract_actions
      /\ s1.contract_states = WithCaches.contract_states
      /\ s1.contracts = WithCaches.contracts
  BY <1>1, <1>6, <1>7
<1>9. \E f : /\ Stage(rows2, f)
             /\ f.txs_by_hash = s1.txs_by_hash
             /\ f.events_by_contract = s1.events_by_contract
             /\ f.ledger_events = s1.ledger_events /\ f.txs = s1.txs
             /\ f.addr_txs = s1.addr_txs /\ f.blocks = s1.blocks /\ f.meta = s1.meta
             /\ t.addr = None =>
                   /\ f.contract_actions = s1.contract_actions
                   /\ f.contract_actions_by_addr = s1.contract_actions_by_addr
                   /\ DOMAIN f.contract_states = DOMAIN s1.contract_states
                   /\ f.contracts = s1.contracts
             /\ t.addr # None => ActionAdded(s1, f, t, h)
  <2>1. CASE t.addr = None
    <3>1. ActionRows(t, h) = <<>>
      BY <2>1 DEF ActionRows
    <3>2. rows2 = rows1
      BY <1>5, <3>1, ConcatEmpty
    <3> HIDE DEF rows2
    <3> QED
      BY <1>5, <2>1, <3>2
  <2>2. CASE t.addr # None
    <3>1. PICK f : Stage(rows2, f) /\ ActionAdded(s1, f, t, h)
      BY <1>1, <1>5, <1>8, <2>2, ActionStage
    <3> HIDE DEF rows2
    <3> QED
      BY <2>2, <3>1 DEF ActionAdded
  <2> QED
    BY <2>1, <2>2
<1> HIDE DEF rows2
<1>10. PICK s2 :
          /\ Stage(rows2, s2)
          /\ s2.txs_by_hash = s1.txs_by_hash
          /\ s2.events_by_contract = s1.events_by_contract
          /\ s2.ledger_events = s1.ledger_events /\ s2.txs = s1.txs
          /\ s2.addr_txs = s1.addr_txs /\ s2.blocks = s1.blocks /\ s2.meta = s1.meta
          /\ t.addr = None =>
                /\ s2.contract_actions = s1.contract_actions
                /\ s2.contract_actions_by_addr = s1.contract_actions_by_addr
                /\ DOMAIN s2.contract_states = DOMAIN s1.contract_states
                /\ s2.contracts = s1.contracts
          /\ t.addr # None => ActionAdded(s1, s2, t, h)
  BY <1>9
<1>11. LastOf(s2) = LastOf(s)
  BY <1>6, <1>10 DEF LastOf, Meta, Has
<1>12. IsSeq(rows2)
  BY <1>10 DEF Stage
<1>13. \E f : /\ Stage(rows3, f)
              /\ \A q \in Partition \ {"events_by_contract", "ledger_events"} : f[q] = s2[q]
              /\ ~t.emits => /\ f.events_by_contract = s2.events_by_contract
                             /\ f.ledger_events = s2.ledger_events
              /\ t.emits => EventAdded(s2, f, t, h)
  <2>1. CASE ~t.emits
    <3>1. EventRows(t, h) = <<>>
      BY <2>1 DEF EventRows
    <3>2. rows3 = rows2
      BY <1>12, <3>1, ConcatEmpty
    <3> HIDE DEF rows3
    <3> QED
      BY <1>10, <2>1, <3>2
  <2>2. CASE t.emits
    <3>1. /\ h > LastOf(s2) /\ ids.event \notin DOMAIN s2.ledger_events
          /\ \A k \in DOMAIN s2.events_by_contract : k[2] \in DOMAIN s2.ledger_events
      BY <1>1, <1>6, <1>10, <1>11
    <3>2. PICK f : Stage(rows3, f) /\ EventAdded(s2, f, t, h)
      BY <1>1, <1>10, <2>2, <3>1, EventStage
    <3> HIDE DEF rows3
    <3> QED
      BY <2>2, <3>2 DEF EventAdded
  <2> QED
    BY <2>1, <2>2
<1> HIDE DEF rows3
<1>14. PICK s3 :
          /\ Stage(rows3, s3)
          /\ \A q \in Partition \ {"events_by_contract", "ledger_events"} : s3[q] = s2[q]
          /\ ~t.emits => /\ s3.events_by_contract = s2.events_by_contract
                         /\ s3.ledger_events = s2.ledger_events
          /\ t.emits => EventAdded(s2, s3, t, h)
  BY <1>13
<1>15. /\ s3.contract_actions = s2.contract_actions
       /\ s3.contract_actions_by_addr = s2.contract_actions_by_addr
       /\ s3.contract_states = s2.contract_states /\ s3.contracts = s2.contracts
       /\ s3.txs_by_hash = s2.txs_by_hash /\ s3.txs = s2.txs
       /\ s3.addr_txs = s2.addr_txs /\ s3.blocks = s2.blocks /\ s3.meta = s2.meta
  BY <1>14, PartitionNames
<1>16. Sound(s3) /\ LastOf(s3) = LastOf(s)
  BY <1>11, <1>14, <1>15 DEF Stage, LastOf, Meta, Has
<1> DEFINE f == Insert(s3, r4)
<1>17. /\ f.txs = Put(s3.txs, ids.tx, TxOf(t, h))
       /\ \A q \in Partition : q # "txs" => f[q] = s3[q]
  BY <1>16, InsertPut, PartitionNames
<1>18. Orderly(s3, r4)
  <2>1. TxOf(t, h).height = h
    BY DEF TxOf
  <2>2. /\ h > LastOf(s3) /\ ids.tx \notin DOMAIN s3.txs /\ h \notin DOMAIN s3.blocks
    BY <1>1, <1>6, <1>10, <1>15, <1>16
  <2> QED
    BY <1>1, <1>16, <2>1, <2>2, TxOrderly
<1> HIDE DEF r4
<1>19. Stage(rows3 \o <<r4>>, f)
  BY <1>14, <1>18, StageNext
<1> HIDE DEF f
<1>20. RowsOfTx(t, h) = rows3 \o <<r4>>
  BY DEF RowsOfTx, rows3, rows2, rows1, r1, r4
<1>21. /\ f.contract_actions = s3.contract_actions
       /\ f.contract_actions_by_addr = s3.contract_actions_by_addr
       /\ f.contract_states = s3.contract_states /\ f.contracts = s3.contracts
       /\ f.txs_by_hash = s3.txs_by_hash
       /\ f.events_by_contract = s3.events_by_contract
       /\ f.ledger_events = s3.ledger_events
       /\ f.addr_txs = s3.addr_txs /\ f.blocks = s3.blocks /\ f.meta = s3.meta
  BY <1>17, PartitionNames
<1>22. TxAdded(s, f, t, h)
  <2>1. /\ f.txs_by_hash = Put(s.txs_by_hash, <<t.hash, ids.tx>>, Entry)
        /\ f.txs = Put(s.txs, ids.tx, TxOf(t, h))
        /\ f.addr_txs = s.addr_txs /\ f.blocks = s.blocks /\ f.meta = s.meta
    BY <1>4, <1>6, <1>10, <1>15, <1>17, <1>21
  <2>2. t.addr = None => /\ f.contract_actions = s.contract_actions
                         /\ f.contract_actions_by_addr = s.contract_actions_by_addr
                         /\ DOMAIN f.contract_states = DOMAIN s.contract_states
                         /\ f.contracts = s.contracts
    BY <1>6, <1>10, <1>15, <1>21
  <2>3. t.addr # None =>
          /\ f.contract_actions = Put(s.contract_actions, ids.action, ActionOf(t, h))
          /\ f.contract_actions_by_addr =
                Put(s.contract_actions_by_addr, <<t.addr, ids.action>>, Entry)
          /\ DOMAIN f.contract_states =
                (DOMAIN s.contract_states) \cup (IF t.state = Failed THEN {} ELSE {t.state})
          /\ f.contracts = IF t.state = Failed THEN s.contracts
                           ELSE Put(s.contracts, t.addr, PointerOf(t))
    BY <1>6, <1>10, <1>15, <1>21 DEF ActionAdded
  <2>4. ~t.emits => /\ f.events_by_contract = s.events_by_contract
                    /\ f.ledger_events = s.ledger_events
    BY <1>6, <1>10, <1>14, <1>21
  <2>5. t.emits => /\ f.events_by_contract =
                        Put(s.events_by_contract, <<t.addr, ids.event>>, Entry)
                   /\ f.ledger_events = Put(s.ledger_events, ids.event, EventOf(t, h))
    BY <1>6, <1>10, <1>14, <1>21 DEF EventAdded
  <2> QED
    BY <2>1, <2>2, <2>3, <2>4, <2>5 DEF TxAdded
<1> QED
  BY <1>19, <1>20, <1>22

LEMMA LinkedCursor ==
    ASSUME NEW s, NEW n, Linked(s, n)
    PROVE  /\ StoredIds(s).tx \in 0 .. n.tx
           /\ LastOf(s) + 1 = 0 => StoredIds(s).tx = 0
           /\ LastOf(s) + 1 # 0 =>
                 StoredIds(s).tx = s.blocks[(LastOf(s) + 1) - 1].first
                                      + s.blocks[(LastOf(s) + 1) - 1].count
<1> SUFFICES ASSUME NEW h, h = LastOf(s) + 1, NEW id, id = StoredIds(s).tx
             PROVE  /\ id \in 0 .. n.tx
                    /\ h = 0 => id = 0
                    /\ h # 0 => id = s.blocks[h - 1].first + s.blocks[h - 1].count
  OBVIOUS
<1>1. id \in 0 .. n.tx /\ id = IF h = 0 THEN 0 ELSE s.blocks[h - 1].first + s.blocks[h - 1].count
  BY DEF Linked
<1> QED
  BY <1>1

LEMMA TransactionParts ==
    ASSUME NEW t \in Transaction
    PROVE  /\ t.addr \in Addr \cup {None}
           /\ t.emits \in BOOLEAN /\ t.emits => t.addr \in Addr
           /\ t.addr # None => t.addr \in Addr /\ t.owner = None
BY NoneAssumption DEF Transaction

\* Pointers after the contract's next action.
LEMMA PointersMove ==
    ASSUME NEW s, s = WithCaches, PointersOf(s), ids.action \in Nat,
           DOMAIN s.contract_actions = 0 .. ids.action - 1,
           NEW t, t.addr \in Addr, NEW h, NEW f,
           f.contract_actions = Put(s.contract_actions, ids.action, ActionOf(t, h)),
           f.contracts = IF t.state = Failed THEN s.contracts
                         ELSE Put(s.contracts, t.addr, PointerOf(t))
    PROVE  PointersOf(f)
<1> DEFINE id == ids.action
<1>1. /\ DOMAIN f.contract_actions = (DOMAIN s.contract_actions) \cup {id}
      /\ f.contract_actions[id] = ActionOf(t, h)
      /\ \A i \in DOMAIN s.contract_actions : f.contract_actions[i] = s.contract_actions[i]
  BY DEF Put
<1>2. ActionOf(t, h).addr = t.addr /\ ActionOf(t, h).state = t.state
  BY DEF ActionOf
<1>3. \A a : Succeeded(f, a) = Succeeded(s, a)
                  \cup (IF a = t.addr /\ t.state # Failed THEN {id} ELSE {})
  <2> SUFFICES ASSUME NEW a
               PROVE  Succeeded(f, a) = Succeeded(s, a)
                         \cup (IF a = t.addr /\ t.state # Failed THEN {id} ELSE {})
    OBVIOUS
  <2> HIDE DEF id
  <2>1. CASE a = t.addr /\ t.state # Failed
    BY <1>1, <1>2, <2>1 DEF Succeeded
  <2>2. CASE ~(a = t.addr /\ t.state # Failed)
    BY <1>1, <1>2, <2>2 DEF Succeeded
  <2> QED
    BY <2>1, <2>2
<1>4. \A a : Succeeded(s, a) \subseteq 0 .. id - 1
  BY DEF Succeeded
<1>5. /\ DOMAIN s.contracts = {a \in Addr : Succeeded(s, a) # {}}
      /\ \A a \in DOMAIN s.contracts :
            s.contracts[a] = [deploy |-> Min(Succeeded(s, a)),
                              latest |-> Max(Succeeded(s, a))]
  BY DEF PointersOf
<1>6. CASE t.state = Failed
  <2>1. \A a : Succeeded(f, a) = Succeeded(s, a)
    BY <1>3, <1>6
  <2>2. f.contracts = s.contracts
    BY <1>6
  <2> QED
    BY <1>5, <2>1, <2>2 DEF PointersOf
<1>7. CASE t.state # Failed
  <2>1. /\ \A a : a # t.addr => Succeeded(f, a) = Succeeded(s, a)
        /\ Succeeded(f, t.addr) = Succeeded(s, t.addr) \cup {id}
    BY <1>3, <1>7
  <2>2. /\ DOMAIN f.contracts = (DOMAIN s.contracts) \cup {t.addr}
        /\ f.contracts[t.addr] = PointerOf(t)
        /\ \A a \in DOMAIN s.contracts : a # t.addr => f.contracts[a] = s.contracts[a]
    BY <1>7 DEF Put
  <2>3. DOMAIN f.contracts = {a \in Addr : Succeeded(f, a) # {}}
    BY <1>5, <2>1, <2>2
  <2>4. \A a \in DOMAIN f.contracts : a # t.addr =>
           f.contracts[a] = [deploy |-> Min(Succeeded(f, a)),
                             latest |-> Max(Succeeded(f, a))]
    <3> SUFFICES ASSUME NEW a \in DOMAIN f.contracts, a # t.addr
                 PROVE  f.contracts[a] = [deploy |-> Min(Succeeded(f, a)),
                                          latest |-> Max(Succeeded(f, a))]
      OBVIOUS
    <3>1. a \in DOMAIN s.contracts /\ f.contracts[a] = s.contracts[a]
      BY <2>2
    <3>2. Succeeded(f, a) = Succeeded(s, a)
      BY <2>1
    <3> QED
      BY <1>5, <3>1, <3>2
  <2> DEFINE S == Succeeded(s, t.addr)
             T == Succeeded(f, t.addr)
  <2>5. /\ T = S \cup {id} /\ S \subseteq 0 .. id - 1
        /\ T \in SUBSET Int /\ S \in SUBSET Nat /\ id \in T
        /\ \A i \in S : i < id
    BY <1>4, <2>1
  <2>6. t.addr \in DOMAIN s.contracts <=> S # {}
    BY <1>5
  <2>7. t.addr \in DOMAIN s.contracts => s.contracts[t.addr].deploy = Min(S)
    <3> SUFFICES ASSUME t.addr \in DOMAIN s.contracts
                 PROVE  s.contracts[t.addr].deploy = Min(S)
      OBVIOUS
    <3>1. s.contracts[t.addr] = [deploy |-> Min(S), latest |-> Max(S)]
      BY <1>5
    <3> HIDE DEF S
    <3> QED
      BY <3>1
  <2> HIDE DEF S, T, id
  <2>8. Max(T) = id
    <3>1. \A i \in T : i <= id
      BY <2>5
    <3> QED
      BY <2>5, <3>1, MaxIs
  <2>9. CASE S = {}
    <3>1. Min(T) = id
      <4>1. \A i \in T : id <= i
        BY <2>5, <2>9
      <4> QED
        BY <2>5, <4>1, MinIs
    <3>2. PointerOf(t) = [deploy |-> id, latest |-> id]
      BY <2>6, <2>9 DEF PointerOf, Has, id
    <3> QED
      BY <2>2, <2>3, <2>4, <2>8, <3>1, <3>2 DEF PointersOf, T
  <2>10. CASE S # {}
    <3>1. PICK m \in S : \A i \in S : m <= i
      BY <2>5, <2>10, Least
    <3>2. Min(S) = m
      BY <2>5, <3>1, MinIs
    <3>3. m \in T /\ \A i \in T : m <= i
      BY <2>5, <3>1
    <3>4. Min(T) = m
      BY <2>5, <3>3, MinIs
    <3>5. PointerOf(t) = [deploy |-> m, latest |-> id]
      BY <2>6, <2>7, <2>10, <3>2 DEF PointerOf, Has, id
    <3> QED
      BY <2>2, <2>3, <2>4, <2>8, <3>4, <3>5 DEF PointersOf, T
  <2> QED
    BY <2>9, <2>10
<1> QED
  BY <1>6, <1>7

IdsAfter(t) == [tx     |-> ids.tx + 1,
                action |-> ids.action + IF t.addr = None THEN 0 ELSE 1,
                event  |-> ids.event + IF t.emits THEN 1 ELSE 0]

\* What is linked stays so by one more transaction.
LEMMA TxLinked ==
    ASSUME NEW s, s = WithCaches, Linked(s, ids), ids.tx < MaxTxs,
           NEW t \in Transaction, NEW h, h = LastOf(s) + 1,
           NEW f, IsStore(f), TxAdded(s, f, t, h)
    PROVE  Linked(f, IdsAfter(t)) /\ f.meta = s.meta
<1> DEFINE n == IdsAfter(t)
<1>0. /\ t.addr \in Addr \cup {None}
      /\ t.emits \in BOOLEAN /\ t.emits => t.addr \in Addr
      /\ t.addr # None => t.addr \in Addr /\ t.owner = None
  BY TransactionParts
<1>1. /\ ids.tx \in 0 .. MaxTxs - 1 /\ ids.action \in 0 .. ids.tx /\ ids.event \in 0 .. ids.tx
      /\ DOMAIN s.txs = 0 .. ids.tx - 1
      /\ DOMAIN s.contract_actions = 0 .. ids.action - 1
      /\ DOMAIN s.ledger_events = 0 .. ids.event - 1
      /\ DOMAIN s.blocks = 0 .. LastOf(s)
      /\ LastOf(s) \in Nat \cup {None} /\ h \in Nat
  BY LinkedIds DEF Linked
<1>2. /\ n = [tx |-> n.tx, action |-> n.action, event |-> n.event] /\ n.tx = ids.tx + 1
      /\ n.action = ids.action + (IF t.addr = None THEN 0 ELSE 1)
      /\ n.event = ids.event + (IF t.emits THEN 1 ELSE 0)
  BY DEF IdsAfter
<1> HIDE DEF n
<1>3. /\ n.tx \in 0 .. MaxTxs /\ n.action \in 0 .. n.tx /\ n.event \in 0 .. n.tx
  <2>1. ids.tx + 1 \in 0 .. MaxTxs
    BY <1>1, BoundsAssumption
  <2>2. ids.action \in 0 .. ids.tx + 1 /\ ids.action + 1 \in 0 .. ids.tx + 1
    BY <1>1
  <2>3. ids.event \in 0 .. ids.tx + 1 /\ ids.event + 1 \in 0 .. ids.tx + 1
    BY <1>1
  <2>4. n.action \in {ids.action, ids.action + 1} /\ n.event \in {ids.event, ids.event + 1}
    BY <1>1, <1>2
  <2> QED
    BY <1>2, <2>1, <2>2, <2>3, <2>4
<1>4. f.meta = s.meta /\ f.blocks = s.blocks
  BY DEF TxAdded
<1>5. LastOf(f) = LastOf(s) /\ StoredIds(f) = StoredIds(s)
  BY <1>4 DEF LastOf, StoredIds, Meta, Has
<1>6. /\ DOMAIN f.txs = (DOMAIN s.txs) \cup {ids.tx} /\ f.txs[ids.tx] = TxOf(t, h)
      /\ \A k \in DOMAIN s.txs : f.txs[k] = s.txs[k]
  BY <1>1 DEF TxAdded, Put
<1>7. DOMAIN f.txs = 0 .. n.tx - 1
  BY <1>1, <1>2, <1>6
<1>8. /\ DOMAIN f.contract_actions = (DOMAIN s.contract_actions)
                \cup (IF t.addr = None THEN {} ELSE {ids.action})
      /\ t.addr # None => f.contract_actions[ids.action] = ActionOf(t, h)
      /\ \A k \in DOMAIN s.contract_actions : f.contract_actions[k] = s.contract_actions[k]
  <2>1. CASE t.addr = None
    BY <2>1 DEF TxAdded
  <2>2. CASE t.addr # None
    BY <1>1, <2>2 DEF TxAdded, Put
  <2> QED
    BY <2>1, <2>2
<1>9. DOMAIN f.contract_actions = 0 .. n.action - 1
  BY <1>1, <1>2, <1>8
<1>10. /\ DOMAIN f.ledger_events = (DOMAIN s.ledger_events)
                \cup (IF t.emits THEN {ids.event} ELSE {})
       /\ t.emits => f.ledger_events[ids.event] = EventOf(t, h)
       /\ \A k \in DOMAIN s.ledger_events : f.ledger_events[k] = s.ledger_events[k]
  <2>1. CASE ~t.emits
    BY <2>1 DEF TxAdded
  <2>2. CASE t.emits
    BY <1>1, <2>2 DEF TxAdded, Put
  <2> QED
    BY <2>1, <2>2
<1>11. DOMAIN f.ledger_events = 0 .. n.event - 1
  BY <1>1, <1>2, <1>10
<1>12. /\ DOMAIN f.txs_by_hash = (DOMAIN s.txs_by_hash) \cup {<<t.hash, ids.tx>>}
       /\ DOMAIN s.contract_actions_by_addr \subseteq DOMAIN f.contract_actions_by_addr
       /\ t.addr # None => <<t.addr, ids.action>> \in DOMAIN f.contract_actions_by_addr
       /\ DOMAIN s.contract_states \subseteq DOMAIN f.contract_states
       /\ t.addr # None /\ t.state # Failed => t.state \in DOMAIN f.contract_states
       /\ DOMAIN f.events_by_contract = (DOMAIN s.events_by_contract)
                \cup (IF t.emits THEN {<<t.addr, ids.event>>} ELSE {})
  <2>1. DOMAIN f.txs_by_hash = (DOMAIN s.txs_by_hash) \cup {<<t.hash, ids.tx>>}
    BY DEF TxAdded, Put
  <2>2. /\ DOMAIN s.contract_actions_by_addr \subseteq DOMAIN f.contract_actions_by_addr
        /\ t.addr # None => <<t.addr, ids.action>> \in DOMAIN f.contract_actions_by_addr
    BY DEF TxAdded, Put
  <2>3. /\ DOMAIN s.contract_states \subseteq DOMAIN f.contract_states
        /\ t.addr # None /\ t.state # Failed => t.state \in DOMAIN f.contract_states
    BY DEF TxAdded
  <2>4. DOMAIN f.events_by_contract = (DOMAIN s.events_by_contract)
                \cup (IF t.emits THEN {<<t.addr, ids.event>>} ELSE {})
    <3>1. CASE t.emits
      BY <3>1 DEF TxAdded, Put
    <3>2. CASE ~t.emits
      BY <3>2 DEF TxAdded
    <3> QED
      BY <3>1, <3>2
  <2> QED
    BY <2>1, <2>2, <2>3, <2>4
<1>13. ASSUME NEW k \in DOMAIN f.txs
       PROVE  /\ f.txs[k].height \in 0 .. h
              /\ f.txs[k].height = h <=> k >= StoredIds(s).tx
              /\ Filed(f, k)
  <2>1. CASE k = ids.tx
    <3>1. /\ f.txs[k].height = h /\ f.txs[k].hash = t.hash
          /\ f.txs[k].actions = (IF t.addr = None THEN {} ELSE {ids.action})
          /\ f.txs[k].events = (IF t.emits THEN {ids.event} ELSE {})
      BY <1>6, <2>1 DEF TxOf
    <3>2. k >= StoredIds(s).tx
      BY <1>1, <2>1 DEF Linked
    <3>3. Has(f, "txs_by_hash", <<f.txs[k].hash, k>>)
      BY <1>12, <2>1, <3>1 DEF Has
    <3>4. ASSUME NEW a \in f.txs[k].actions
          PROVE  Has(f, "contract_actions", a) /\ f.contract_actions[a].tx = k
      <4>1. t.addr # None /\ a = ids.action
        BY <3>1
      <4>2. ActionOf(t, h).tx = ids.tx
        BY DEF ActionOf
      <4> QED
        BY <1>8, <2>1, <4>1, <4>2 DEF Has
    <3>5. ASSUME NEW e \in f.txs[k].events
          PROVE  Has(f, "ledger_events", e) /\ f.ledger_events[e].tx = k
      <4>1. t.emits /\ e = ids.event
        BY <3>1
      <4>2. EventOf(t, h).tx = ids.tx
        BY DEF EventOf
      <4> QED
        BY <1>10, <2>1, <4>1, <4>2 DEF Has
    <3> QED
      BY <1>1, <3>1, <3>2, <3>3, <3>4, <3>5 DEF Filed
  <2>2. CASE k \in DOMAIN s.txs
    <3>1. /\ s.txs[k].height \in 0 .. h
          /\ s.txs[k].height = h <=> k >= StoredIds(s).tx
          /\ Filed(s, k)
      BY <2>2 DEF Linked
    <3>2. f.txs[k] = s.txs[k]
      BY <1>6, <2>2
    <3>3. Filed(f, k)
      BY <1>8, <1>10, <1>12, <3>1, <3>2 DEF Filed, Has
    <3> QED
      BY <3>1, <3>2, <3>3
  <2> QED
    BY <1>6, <2>1, <2>2
<1>14. ASSUME NEW i \in DOMAIN f.contract_actions
       PROVE  LET action == f.contract_actions[i] IN
              /\ action.tx \in DOMAIN f.txs /\ action.height = f.txs[action.tx].height
              /\ <<action.addr, i>> \in DOMAIN f.contract_actions_by_addr
              /\ action.state = Failed \/ action.state \in DOMAIN f.contract_states
  <2>1. CASE t.addr # None /\ i = ids.action
    <3>1. /\ f.contract_actions[i].tx = ids.tx /\ f.contract_actions[i].height = h
          /\ f.contract_actions[i].addr = t.addr /\ f.contract_actions[i].state = t.state
      BY <1>8, <2>1 DEF ActionOf
    <3>2. f.txs[ids.tx].height = h
      BY <1>6 DEF TxOf
    <3> QED
      BY <1>6, <1>12, <2>1, <3>1, <3>2
  <2>2. CASE i \in DOMAIN s.contract_actions
    <3>1. LET action == s.contract_actions[i] IN
          /\ action.tx \in DOMAIN s.txs /\ action.height = s.txs[action.tx].height
          /\ <<action.addr, i>> \in DOMAIN s.contract_actions_by_addr
          /\ action.state = Failed \/ action.state \in DOMAIN s.contract_states
      BY <2>2 DEF Linked, Has
    <3> QED
      BY <1>6, <1>8, <1>12, <2>2, <3>1
  <2> QED
    BY <1>8, <2>1, <2>2
<1>15. ASSUME NEW i \in DOMAIN f.ledger_events
       PROVE  LET event == f.ledger_events[i] IN
              /\ event.tx \in DOMAIN f.txs /\ event.height = f.txs[event.tx].height
              /\ <<event.addr, i>> \in DOMAIN f.events_by_contract
  <2>1. CASE t.emits /\ i = ids.event
    <3>1. /\ f.ledger_events[i].tx = ids.tx /\ f.ledger_events[i].height = h
          /\ f.ledger_events[i].addr = t.addr
      BY <1>10, <2>1 DEF EventOf
    <3>2. f.txs[ids.tx].height = h
      BY <1>6 DEF TxOf
    <3> QED
      BY <1>6, <1>12, <2>1, <3>1, <3>2
  <2>2. CASE i \in DOMAIN s.ledger_events
    <3>1. LET event == s.ledger_events[i] IN
          /\ event.tx \in DOMAIN s.txs /\ event.height = s.txs[event.tx].height
          /\ <<event.addr, i>> \in DOMAIN s.events_by_contract
      BY <2>2 DEF Linked, Has
    <3> QED
      BY <1>6, <1>10, <1>12, <2>2, <3>1
  <2> QED
    BY <1>10, <2>1, <2>2
<1>16. \A k \in DOMAIN f.events_by_contract : k[2] \in DOMAIN f.ledger_events
  <2> SUFFICES ASSUME NEW k \in DOMAIN f.events_by_contract
               PROVE  k[2] \in DOMAIN f.ledger_events
    OBVIOUS
  <2>1. CASE k \in DOMAIN s.events_by_contract
    BY <1>10, <2>1 DEF Linked, Has
  <2>2. CASE t.emits /\ k = <<t.addr, ids.event>>
    BY <1>10, <2>2
  <2> QED
    BY <1>12, <2>1, <2>2
<1>17. PointersOf(f)
  <2>0. PointersOf(s)
    BY DEF Linked
  <2>1. CASE t.addr = None
    <3>1. f.contract_actions = s.contract_actions /\ f.contracts = s.contracts
      BY <2>1 DEF TxAdded
    <3> QED
      BY <2>0, <3>1 DEF PointersOf, Succeeded
  <2>2. CASE t.addr # None
    <3>1. /\ f.contract_actions = Put(s.contract_actions, ids.action, ActionOf(t, h))
          /\ f.contracts = IF t.state = Failed THEN s.contracts
                           ELSE Put(s.contracts, t.addr, PointerOf(t))
      BY <2>2 DEF TxAdded
    <3>2. ids.action \in Nat /\ t.addr \in Addr
      BY <1>0, <1>1, <2>2
    <3> QED
      BY <1>1, <2>0, <3>1, <3>2, PointersMove
  <2> QED
    BY <2>1, <2>2
<1>18. /\ StoredIds(f).tx \in 0 .. n.tx
       /\ StoredIds(f).tx = IF LastOf(f) + 1 = 0 THEN 0
                            ELSE f.blocks[(LastOf(f) + 1) - 1].first + f.blocks[(LastOf(f) + 1) - 1].count
       /\ DOMAIN f.blocks = 0 .. LastOf(f) /\ LastOf(f) \in Nat \cup {None}
  <2>1. StoredIds(s).tx \in 0 .. ids.tx
    BY LinkedCursor
  <2>2. StoredIds(s).tx \in 0 .. n.tx
    BY <1>1, <1>2, <2>1
  <2>3. CASE LastOf(s) + 1 = 0
    <3>1. StoredIds(s).tx = 0
      BY <2>3, LinkedCursor
    <3> QED
      BY <1>1, <1>4, <1>5, <2>2, <2>3, <3>1
  <2>4. CASE LastOf(s) + 1 # 0
    <3>1. StoredIds(s).tx = s.blocks[(LastOf(s) + 1) - 1].first + s.blocks[(LastOf(s) + 1) - 1].count
      BY <2>4, LinkedCursor
    <3> QED
      BY <1>1, <1>4, <1>5, <2>2, <2>4, <3>1
  <2> QED
    BY <2>3, <2>4
<1>19. Linked(f, n)
  <2> DEFINE high == LastOf(f) + 1
  <2>1. high = h
    BY <1>5
  <2>2. /\ \A k \in DOMAIN f.txs :
              /\ f.txs[k].height \in 0 .. high
              /\ f.txs[k].height = high <=> k >= StoredIds(f).tx
              /\ Filed(f, k)
        /\ StoredIds(f).tx = IF high = 0 THEN 0
                             ELSE f.blocks[high - 1].first + f.blocks[high - 1].count
    <3>1. \A k \in DOMAIN f.txs :
              /\ f.txs[k].height \in 0 .. high
              /\ f.txs[k].height = high <=> k >= StoredIds(f).tx
              /\ Filed(f, k)
      BY <1>5, <1>13, <2>1
    <3>2. StoredIds(f).tx = IF high = 0 THEN 0
                             ELSE f.blocks[high - 1].first + f.blocks[high - 1].count
      BY <1>18, Zenon
    <3> QED
      BY <3>1, <3>2, Zenon
  <2>3. \A i \in DOMAIN f.contract_actions :
              LET action == f.contract_actions[i] IN
              /\ action.tx \in DOMAIN f.txs /\ action.height = f.txs[action.tx].height
              /\ Has(f, "contract_actions_by_addr", <<action.addr, i>>)
              /\ action.state = Failed \/ Has(f, "contract_states", action.state)
    BY <1>14 DEF Has
  <2>4. /\ \A i \in DOMAIN f.ledger_events :
              LET event == f.ledger_events[i] IN
              /\ event.tx \in DOMAIN f.txs /\ event.height = f.txs[event.tx].height
              /\ Has(f, "events_by_contract", <<event.addr, i>>)
        /\ \A k \in DOMAIN f.events_by_contract : Has(f, "ledger_events", k[2])
    BY <1>15, <1>16 DEF Has
  <2> QED
    BY <1>2, <1>3, <1>7, <1>9, <1>11, <1>17, <1>18, <2>2, <2>3, <2>4, Zenon DEF Linked
<1> QED
  BY <1>4, <1>19 DEF n
----------------------------------------------------------------------------
(* The batch's tail *)

\* What holds of 0 and passes from each number to the next holds up to N.
LEMMA UpTo ==
    ASSUME NEW N \in Nat, NEW G, 0 \in G, \A n \in 0 .. N - 1 : n \in G => n + 1 \in G
    PROVE  \A n \in 0 .. N : n \in G
<1> DEFINE bad == {n \in 0 .. N : n \notin G}
<1> SUFFICES ASSUME bad # {} PROVE FALSE
  OBVIOUS
<1>1. bad \in SUBSET Nat
  OBVIOUS
<1>2. PICK m \in bad : \A n \in bad : m <= n
  <2> HIDE DEF bad
  <2> QED
    BY <1>1, Least
<1>3. m \in 0 .. N /\ m # 0 /\ m - 1 \in 0 .. N - 1 /\ (m - 1) + 1 = m
  BY <1>2
<1>4. m - 1 \in bad
  <2>1. m - 1 \notin G
    BY <1>2, <1>3
  <2> QED
    BY <1>3, <2>1
<1> QED
  BY <1>2, <1>3, <1>4

LEMMA ConcatAppend ==
    ASSUME NEW r, NEW x, IsSeq(r), IsSeq(x), NEW a
    PROVE  r \o Append(x, a) = (r \o x) \o <<a>>
<1> DEFINE y == <<a>>
<1>1. IsSeq(y)
  BY Tuples
<1>2. x \o y = Append(x, a)
  BY AppendSeq
<1> HIDE DEF y
<1>3. r \o (x \o y) = (r \o x) \o y
  BY <1>1, ConcatAssoc
<1> QED
  BY <1>2, <1>3, Zenon DEF y

\* Rows of the address history, one after another, add their keys and nothing else.
LEMMA HistoryStage ==
    ASSUME Sound(store), NEW rows, NEW s, Stage(rows, s), NEW history, IsSeq(history),
           \A i \in 1 .. Len(history) :
              \E t \in DOMAIN s.txs :
                 history[i] = Row("addr_txs", <<s.txs[t].owner, t>>, Entry)
    PROVE  /\ IsSeq(rows \o history)
           /\ \E f : /\ Stage(rows \o history, f)
                     /\ \A q \in Partition : q # "addr_txs" => f[q] = s[q]
                     /\ \A i \in 1 .. Len(history) : history[i].key \in DOMAIN f.addr_txs
<1> DEFINE N == Len(history)
           first(n) == SubSeq(history, 1, n)
           Good(n, f) ==
              /\ Stage(rows \o first(n), f)
              /\ \A q \in Partition : q # "addr_txs" => f[q] = s[q]
              /\ \A i \in 1 .. n : history[i].key \in DOMAIN f.addr_txs
           G == {n \in 0 .. N : \E f : Good(n, f)}
<1>0. IsSeq(rows) /\ N \in Nat
  BY SeqFacts DEF Stage
<1>1. 0 \in G
  <2>1. first(0) = <<>>
    BY SubSeqEmpty
  <2>2. rows \o first(0) = rows
    BY <1>0, <2>1, ConcatEmpty
  <2>3. Good(0, s)
    <3> HIDE DEF first
    <3>1. Stage(rows \o first(0), s)
      BY <2>2, Zenon
    <3>2. \A i \in 1 .. 0 : history[i].key \in DOMAIN s.addr_txs
      OBVIOUS
    <3> QED
      BY <3>1, <3>2
  <2> HIDE DEF Good
  <2> QED
    BY <1>0, <2>3
<1>2. ASSUME NEW n \in 0 .. N - 1, n \in G PROVE n + 1 \in G
  <2>0. n \in 0 .. N /\ n + 1 \in 1 .. N /\ n + 1 \in 0 .. N /\ n \in Nat
    BY <1>0
  <2>1. PICK f : Good(n, f)
    BY <1>2
  <2>2. PICK t \in DOMAIN s.txs :
           history[n + 1] = Row("addr_txs", <<s.txs[t].owner, t>>, Entry)
    BY <2>0
  <2> DEFINE row == history[n + 1]
             place == <<s.txs[t].owner, t>>
             x == first(n)
  <2>3. /\ IsSeq(x) /\ Len(x) = n /\ \A i \in 1 .. n : x[i] = history[i]
    BY <2>0, PrefixSeq
  <2>4. /\ IsSeq(first(n + 1)) /\ Len(first(n + 1)) = n + 1
        /\ \A i \in 1 .. n + 1 : first(n + 1)[i] = history[i]
    BY <2>0, PrefixSeq
  <2>5. Stage(rows \o x, f) /\ Sound(f) /\ f.txs = s.txs
    BY <2>1, PartitionNames DEF Stage
  <2> HIDE DEF x
  <2>6. first(n + 1) = Append(x, row)
    <3> DEFINE y == first(n + 1)
    <3> HIDE DEF row, y
    <3>1. /\ IsSeq(Append(x, row)) /\ Len(Append(x, row)) = n + 1
          /\ \A i \in 1 .. n : Append(x, row)[i] = x[i]
          /\ Append(x, row)[n + 1] = row
      BY <2>3, AppendSeq
    <3>2. \A i \in 1 .. n + 1 : y[i] = Append(x, row)[i]
      <4>1. \A i \in 1 .. n + 1 : i \in 1 .. n \/ i = n + 1
        BY <2>0
      <4> QED
        BY <2>3, <2>4, <3>1, <4>1 DEF y, row
    <3>3. IsSeq(y) /\ Len(y) = n + 1
      BY <2>4 DEF y
    <3>4. y = Append(x, row)
      BY <3>1, <3>2, <3>3, SameSeq
    <3> QED
      BY <3>4 DEF y
  <2>7. rows \o first(n + 1) = (rows \o x) \o <<row>>
    <3> HIDE DEF row
    <3>1. rows \o Append(x, row) = (rows \o x) \o <<row>>
      BY <1>0, <2>3, ConcatAppend
    <3> QED
      BY <2>6, <3>1
  <2>8. Orderly(f, row)
    BY <2>2, <2>5, HistoryOrderly
  <2> DEFINE g == Insert(f, row)
  <2>9. /\ g.addr_txs = Put(f.addr_txs, place, Entry)
        /\ \A q \in Partition : q # "addr_txs" => g[q] = f[q]
    BY <2>2, <2>5, InsertPut, PartitionNames
  <2>10. row.key = place
    BY <2>2 DEF Row
  <2> HIDE DEF row, first, place
  <2>11. Stage((rows \o x) \o <<row>>, g)
    BY <2>5, <2>8, StageNext
  <2> HIDE DEF g
  <2>12. Good(n + 1, g)
    <3>1. Stage(rows \o first(n + 1), g)
      BY <2>7, <2>11
    <3>2. \A q \in Partition : q # "addr_txs" => g[q] = s[q]
      BY <2>1, <2>9
    <3>3. /\ place \in DOMAIN g.addr_txs
          /\ DOMAIN f.addr_txs \subseteq DOMAIN g.addr_txs
      BY <2>9 DEF Put
    <3>4. \A i \in 1 .. n + 1 : history[i].key \in DOMAIN g.addr_txs
      <4>1. \A i \in 1 .. n + 1 : i \in 1 .. n \/ i = n + 1
        BY <2>0
      <4>2. \A i \in 1 .. n : history[i].key \in DOMAIN f.addr_txs
        BY <2>1
      <4>3. history[n + 1].key = place
        BY <2>10 DEF row
      <4> QED
        BY <3>3, <4>1, <4>2, <4>3
    <3> QED
      BY <3>1, <3>2, <3>4
  <2> HIDE DEF Good
  <2> QED
    BY <2>0, <2>12
<1>3. N \in G
  <2> HIDE DEF G
  <2>1. \A n \in 0 .. N : n \in G
    BY <1>0, <1>1, <1>2, UpTo
  <2> QED
    BY <1>0, <2>1
<1>4. first(N) = history
  BY SubSeqFull DEF IsSeq
<1>5. IsSeq(rows \o history)
  BY <1>0, ConcatAssoc
<1> QED
  BY <1>3, <1>4, <1>5

\* An order of a finite set has all of it.
LEMMA AllOf ==
    ASSUME NEW S, IsFiniteSet(S), NEW f \in SetToSeqs(S)
    PROVE  /\ IsSeq(f) /\ \A i \in 1 .. Len(f) : f[i] \in S
           /\ \A x \in S : \E i \in 1 .. Len(f) : f[i] = x
<1> DEFINE n == Cardinality(S)
<1>1. n \in Nat
  BY FS_CardinalityType
<1>2. f \in [1 .. n -> S] /\ \A i, j \in 1 .. n : i # j => f[i] # f[j]
  BY DEF SetToSeqs
<1>3. IsFiniteSet(1 .. n) /\ Cardinality(1 .. n) = n
  BY <1>1, FS_Interval
<1>4. f \in Injection(1 .. n, S)
  BY <1>2 DEF Injection, IsInjective
<1>5. f \in Surjection(1 .. n, S)
  BY <1>3, <1>4, FS_Injection
<1>6. f \in Seq(S) /\ Len(f) = n
  BY <1>1, <1>2
<1>7. \A x \in S : \E i \in 1 .. n : f[i] = x
  BY <1>5 DEF Surjection
<1> QED
  BY <1>2, <1>6, <1>7, SeqOfAny

LEMMA HistoryOrders ==
    ASSUME NEW s, s = WithCaches, NEW first \in Nat, first = StoredIds(store).tx,
           ids.tx \in Nat, NEW history \in HistoryRows
    PROVE  /\ IsSeq(history)
           /\ \A i \in 1 .. Len(history) :
                 \E t \in first .. ids.tx - 1 :
                    history[i] = Row("addr_txs", <<s.txs[t].owner, t>>, Entry)
           /\ \A t \in first .. ids.tx - 1 : s.txs[t].owner # None =>
                 \E i \in 1 .. Len(history) : history[i].key = <<s.txs[t].owner, t>>
<1> DEFINE touching == {t \in first .. ids.tx - 1 : s.txs[t].owner # None}
           row(t) == Row("addr_txs", <<s.txs[t].owner, t>>, Entry)
           rows == {row(t) : t \in touching}
           g == [t \in touching |-> row(t)]
<1>1. history \in SetToSeqs(rows)
  BY DEF HistoryRows
<1>2. IsFiniteSet(touching)
  <2>1. first \in Int /\ ids.tx - 1 \in Int
    OBVIOUS
  <2>2. IsFiniteSet(first .. ids.tx - 1)
    BY <2>1, FS_Interval
  <2>3. touching \subseteq first .. ids.tx - 1
    OBVIOUS
  <2> HIDE DEF touching
  <2> QED
    BY <2>2, <2>3, FS_Subset
<1>3. g \in Surjection(touching, rows)
  <2> HIDE DEF touching, row
  <2> QED
    BY DEF Surjection
<1>4. IsFiniteSet(rows)
  <2> HIDE DEF touching, rows, g
  <2> QED
    BY <1>2, <1>3, FS_Surjection DEF ExistsSurjection
<1>5. \A t : row(t).key = <<s.txs[t].owner, t>>
  BY DEF Row
<1>6. /\ IsSeq(history) /\ \A i \in 1 .. Len(history) : history[i] \in rows
      /\ \A x \in rows : \E i \in 1 .. Len(history) : history[i] = x
  <2> HIDE DEF rows
  <2> QED
    BY <1>1, <1>4, AllOf
<1>7. ASSUME NEW t \in first .. ids.tx - 1, s.txs[t].owner # None
      PROVE  \E i \in 1 .. Len(history) : history[i].key = <<s.txs[t].owner, t>>
  <2>1. row(t) \in rows
    BY <1>7
  <2> HIDE DEF rows, row
  <2>2. PICK i \in 1 .. Len(history) : history[i] = row(t)
    BY <1>6, <2>1
  <2> QED
    BY <1>5, <2>2
<1>8. ASSUME NEW i \in 1 .. Len(history)
      PROVE  \E t \in first .. ids.tx - 1 : history[i] = row(t)
  <2>1. history[i] \in rows
    BY <1>6
  <2> HIDE DEF row
  <2> QED
    BY <2>1
<1> QED
  BY <1>6, <1>7, <1>8

BlockOf == [first |-> StoredIds(store).tx, count |-> ids.tx - StoredIds(store).tx]

\* f is s with the block at h, its cursor and its counters.
BlockAdded(s, f, h) ==
    /\ f.blocks = Put(s.blocks, h, BlockOf)
    /\ LastOf(f) = h /\ StoredIds(f) = ids
    /\ \A q \in Partition \ {"addr_txs", "blocks", "meta"} : f[q] = s[q]

\* Of s, all transactions of the block at h and their address entries.
LEMMA BlockReady ==
    ASSUME NEW s, Linked(s, ids), StoredIds(s) = StoredIds(store),
           NEW h, h = LastOf(s) + 1, NEW f, IsStore(f),
           f.blocks = Put(s.blocks, h, BlockOf),
           \A q \in Partition : q # "addr_txs" /\ q # "blocks" => f[q] = s[q],
           \A t \in StoredIds(s).tx .. ids.tx - 1 : s.txs[t].owner # None =>
              <<s.txs[t].owner, t>> \in DOMAIN f.addr_txs
    PROVE  /\ TxsOf(BlockOf) = {k \in DOMAIN s.txs : s.txs[k].height = h}
           /\ Whole(f, h)
<1> DEFINE first == StoredIds(store).tx
<1>1. /\ DOMAIN s.txs = 0 .. ids.tx - 1 /\ ids.tx \in Nat
      /\ LastOf(s) \in Int /\ h \in Nat
      /\ \A t \in DOMAIN s.txs : /\ s.txs[t].height = h <=> t >= first
                                 /\ Filed(s, t)
  <2>1. ids.tx \in 0 .. MaxTxs /\ LastOf(s) \in Nat \cup {None}
    BY DEF Linked
  <2>2. DOMAIN s.txs = 0 .. ids.tx - 1
    BY DEF Linked
  <2>3. \A t \in DOMAIN s.txs : /\ s.txs[t].height = h <=> t >= first
                                /\ Filed(s, t)
    BY DEF Linked
  <2>4. ids.tx \in Nat /\ LastOf(s) \in Int /\ h \in Nat
    BY <2>1, BoundsAssumption DEF None
  <2> QED
    BY <2>2, <2>3, <2>4
<1>2. first \in 0 .. ids.tx
  BY LinkedCursor
<1>3. BlockOf.first = first /\ BlockOf.count = ids.tx - first
  BY DEF BlockOf
<1> HIDE DEF first
<1>4. TxsOf(BlockOf) = first .. ids.tx - 1
  <2>1. first + (ids.tx - first) - 1 = ids.tx - 1
    BY <1>1, <1>2
  <2> QED
    BY <1>3, <2>1 DEF TxsOf
<1>5. TxsOf(BlockOf) = {k \in DOMAIN s.txs : s.txs[k].height = h}
  BY <1>1, <1>2, <1>4
<1>6. /\ f.txs = s.txs /\ f.txs_by_hash = s.txs_by_hash
      /\ f.contract_actions = s.contract_actions /\ f.ledger_events = s.ledger_events
  BY PartitionNames
<1>7. /\ h \in DOMAIN f.blocks /\ f.blocks[h] = BlockOf
      /\ \A b \in DOMAIN s.blocks : b # h => f.blocks[b] = s.blocks[b]
  BY DEF Put
<1>8. f.blocks[h].first = IF h = 0 THEN 0 ELSE f.blocks[h - 1].first + f.blocks[h - 1].count
  <2>1. CASE h = 0
    <3>1. first = 0
      BY <2>1, LinkedCursor DEF first
    <3> QED
      BY <1>3, <1>7, <2>1, <3>1
  <2>2. CASE h # 0
    <3>1. DOMAIN s.blocks = 0 .. LastOf(s)
      BY DEF Linked
    <3>2. h - 1 \in DOMAIN s.blocks /\ h - 1 # h
      BY <1>1, <2>2, <3>1
    <3>3. first = s.blocks[h - 1].first + s.blocks[h - 1].count
      BY <2>2, LinkedCursor DEF first
    <3>4. f.blocks[h - 1] = s.blocks[h - 1]
      BY <1>7, <3>2
    <3> QED
      BY <1>3, <1>7, <2>2, <3>3, <3>4
  <2> QED
    BY <2>1, <2>2
<1>9. ASSUME NEW t \in TxsOf(f.blocks[h])
      PROVE  /\ t \in DOMAIN f.txs /\ f.txs[t].height = h /\ Filed(f, t)
             /\ f.txs[t].owner # None => <<f.txs[t].owner, t>> \in DOMAIN f.addr_txs
  <2>1. t \in first .. ids.tx - 1 /\ t \in DOMAIN s.txs /\ s.txs[t].height = h
    BY <1>4, <1>5, <1>7
  <2>2. Filed(f, t)
    BY <1>1, <1>6, <2>1 DEF Filed, Has
  <2> QED
    BY <1>6, <2>1, <2>2 DEF first
<1>10. Whole(f, h)
  BY <1>7, <1>8, <1>9 DEF Whole, Has
<1> QED
  BY <1>5, <1>10

LEMMA TailStage ==
    ASSUME Sound(store), NEW s, s = WithCaches, Stage(batch, s), Linked(s, ids),
           s.meta = store.meta, NEW history \in HistoryRows
    PROVE  LET rows == (batch \o history) \o BlockRows
           IN  \E f : Stage(rows, f) /\ BlockAdded(s, f, LastOf(s) + 1)
<1> DEFINE h == LastOf(s) + 1
           r1 == Row("blocks", h, BlockOf)
           r2 == Row("meta", "last_indexed_height", h)
           r3 == Row("meta", "next_tx_id", ids.tx)
           r4 == Row("meta", "next_action_id", ids.action)
           r5 == Row("meta", "next_event_id", ids.event)
           rows == batch \o history
<1>0. LastOf(s) = LastHeight /\ StoredIds(s) = StoredIds(store)
  BY DEF LastOf, StoredIds, LastHeight, Meta, Has
<1>1. /\ h \in Nat /\ h \notin DOMAIN s.blocks /\ ids.tx \in Nat
      /\ StoredIds(s).tx \in 0 .. ids.tx /\ DOMAIN s.txs = 0 .. ids.tx - 1
  <2>1. /\ LastOf(s) \in Nat \cup {None} /\ DOMAIN s.blocks = 0 .. LastOf(s)
        /\ ids.tx \in 0 .. MaxTxs /\ DOMAIN s.txs = 0 .. ids.tx - 1
    BY DEF Linked
  <2>2. LastOf(s) \in Int /\ h \in Nat
    BY <2>1 DEF None
  <2> QED
    BY <2>1, <2>2, LinkedCursor
<1>2. /\ IsSeq(history)
      /\ \A i \in 1 .. Len(history) :
            \E t \in DOMAIN s.txs : history[i] = Row("addr_txs", <<s.txs[t].owner, t>>, Entry)
      /\ \A t \in StoredIds(s).tx .. ids.tx - 1 : s.txs[t].owner # None =>
            \E i \in 1 .. Len(history) : history[i].key = <<s.txs[t].owner, t>>
  <2> DEFINE first == StoredIds(store).tx
  <2>1. first \in Nat /\ first = StoredIds(s).tx /\ first = StoredIds(store).tx
    BY <1>0, <1>1
  <2> HIDE DEF first
  <2>2. /\ IsSeq(history)
        /\ \A i \in 1 .. Len(history) :
              \E t \in first .. ids.tx - 1 :
                 history[i] = Row("addr_txs", <<s.txs[t].owner, t>>, Entry)
        /\ \A t \in first .. ids.tx - 1 : s.txs[t].owner # None =>
              \E i \in 1 .. Len(history) : history[i].key = <<s.txs[t].owner, t>>
    <3> HIDE DEF h, r1, r2, r3, r4, r5, rows
    <3>1. first \in Nat /\ first = StoredIds(store).tx /\ ids.tx \in Nat
      BY <1>1, <2>1
    <3>2. IsSeq(history)
      BY <3>1, HistoryOrders
    <3>3. \A i \in 1 .. Len(history) :
              \E t \in first .. ids.tx - 1 :
                 history[i] = Row("addr_txs", <<s.txs[t].owner, t>>, Entry)
      BY <3>1, HistoryOrders
    <3>4. \A t \in first .. ids.tx - 1 : s.txs[t].owner # None =>
              \E i \in 1 .. Len(history) : history[i].key = <<s.txs[t].owner, t>>
      BY <3>1, HistoryOrders
    <3> QED
      BY <3>2, <3>3, <3>4
  <2>3. first .. ids.tx - 1 \subseteq DOMAIN s.txs
    BY <1>1, <2>1
  <2> QED
    BY <2>1, <2>2, <2>3
<1>3. IsSeq(rows)
  BY <1>2, HistoryStage
<1>4. PICK f1 : /\ Stage(rows, f1)
                /\ \A q \in Partition : q # "addr_txs" => f1[q] = s[q]
                /\ \A i \in 1 .. Len(history) : history[i].key \in DOMAIN f1.addr_txs
  BY <1>2, HistoryStage
<1> DEFINE f2 == Insert(f1, r1)
           f3 == Insert(f2, r2)
           f4 == Insert(f3, r3)
           f5 == Insert(f4, r4)
           f6 == Insert(f5, r5)
           rows1 == rows \o <<r1>>
           rows2 == rows1 \o <<r2>>
           rows3 == rows2 \o <<r3>>
           rows4 == rows3 \o <<r4>>
           rows5 == rows4 \o <<r5>>
<1> HIDE DEF rows
<1>5. /\ Sound(f1) /\ f1.txs = s.txs /\ f1.blocks = s.blocks /\ f1.meta = s.meta
  BY <1>4, PartitionNames DEF Stage
<1>6. /\ f2.blocks = Put(s.blocks, h, BlockOf)
      /\ \A q \in Partition : q # "blocks" => f2[q] = f1[q]
  BY <1>5, InsertPut, PartitionNames
<1>7. IsStore(f2)
  <2>1. IsStore(f1)
    BY <1>5 DEF Sound
  <2> QED
    BY <2>1, InsertParts, PartitionNames
<1>8. /\ TxsOf(BlockOf) = {k \in DOMAIN s.txs : s.txs[k].height = h}
      /\ Whole(f2, h)
  <2> DEFINE g == f2
  <2>1. \A q \in Partition : q # "addr_txs" /\ q # "blocks" => g[q] = s[q]
    BY <1>4, <1>6
  <2>2. \A t \in StoredIds(s).tx .. ids.tx - 1 : s.txs[t].owner # None =>
              <<s.txs[t].owner, t>> \in DOMAIN g.addr_txs
    BY <1>2, <1>4, <1>6, PartitionNames
  <2>3. g.blocks = Put(s.blocks, h, BlockOf) /\ IsStore(g)
    BY <1>6, <1>7
  <2> HIDE DEF f2, g
  <2>4. Whole(g, h) /\ TxsOf(BlockOf) = {k \in DOMAIN s.txs : s.txs[k].height = h}
    BY <1>0, <2>1, <2>2, <2>3, BlockReady
  <2> QED
    BY <2>4 DEF g
<1>9. Orderly(f1, r1)
  BY <1>1, <1>5, <1>8, BlockOrderly
<1> HIDE DEF r1
<1>10. Stage(rows1, f2) /\ Sound(f2)
  BY <1>4, <1>9, StageNext DEF Stage
<1> HIDE DEF rows1, f2
<1>11. f2.meta = s.meta /\ LastOf(f2) = LastOf(s)
  <2>1. f2.meta = s.meta
    BY <1>5, <1>6, PartitionNames
  <2> QED
    BY <2>1 DEF LastOf, Meta, Has
<1>12. Orderly(f2, r2)
  <2>1. /\ f2.txs = s.txs /\ f2.contract_actions = s.contract_actions
        /\ f2.contract_actions_by_addr = s.contract_actions_by_addr
        /\ f2.ledger_events = s.ledger_events
    BY <1>4, <1>6, PartitionNames
  <2>2. /\ \A i \in DOMAIN s.contract_actions :
              /\ s.contract_actions[i].tx \in DOMAIN s.txs
              /\ <<s.contract_actions[i].addr, i>> \in DOMAIN s.contract_actions_by_addr
        /\ \A i \in DOMAIN s.ledger_events : s.ledger_events[i].tx \in DOMAIN s.txs
    BY DEF Linked, Has
  <2> QED
    BY <1>1, <1>8, <1>10, <1>11, <2>1, <2>2, CursorOrderly
<1>13. /\ f3.meta = Put(s.meta, "last_indexed_height", h)
       /\ \A q \in Partition : q # "meta" => f3[q] = f2[q]
  BY <1>10, <1>11, InsertPut, PartitionNames
<1> HIDE DEF r2
<1>14. Stage(rows2, f3) /\ Sound(f3)
  BY <1>10, <1>12, StageNext DEF Stage
<1> HIDE DEF rows2, f3
<1>15. Orderly(f3, r3)
  BY <1>14, MetaOrderly
<1>16. /\ f4.meta = Put(f3.meta, "next_tx_id", ids.tx)
       /\ \A q \in Partition : q # "meta" => f4[q] = f3[q]
  BY <1>14, InsertPut, PartitionNames
<1> HIDE DEF r3
<1>17. Stage(rows3, f4) /\ Sound(f4)
  BY <1>14, <1>15, StageNext DEF Stage
<1> HIDE DEF rows3, f4
<1>18. Orderly(f4, r4)
  BY <1>17, MetaOrderly
<1>19. /\ f5.meta = Put(f4.meta, "next_action_id", ids.action)
       /\ \A q \in Partition : q # "meta" => f5[q] = f4[q]
  BY <1>17, InsertPut, PartitionNames
<1> HIDE DEF r4
<1>20. Stage(rows4, f5) /\ Sound(f5)
  BY <1>17, <1>18, StageNext DEF Stage
<1> HIDE DEF rows4, f5
<1>21. Orderly(f5, r5)
  BY <1>20, MetaOrderly
<1>22. /\ f6.meta = Put(f5.meta, "next_event_id", ids.event)
       /\ \A q \in Partition : q # "meta" => f6[q] = f5[q]
  BY <1>20, InsertPut, PartitionNames
<1> HIDE DEF r5
<1>23. Stage(rows5, f6)
  BY <1>20, <1>21, StageNext
<1> HIDE DEF rows5, f6
<1>24. (batch \o history) \o BlockRows = rows5
  <2>1. BlockRows = <<r1, r2, r3, r4, r5>>
    BY <1>0 DEF BlockRows, BlockOf, r1, r2, r3, r4, r5
  <2>2. rows \o BlockRows = rows5
    <3> DEFINE x2 == <<r1, r2>>
               x3 == <<r1, r2, r3>>
               x4 == <<r1, r2, r3, r4>>
    <3>1. IsSeq(x2) /\ IsSeq(x3) /\ IsSeq(x4)
      <4>1. x3 \in Seq({r1, r2, r3}) /\ x4 \in Seq({r1, r2, r3, r4})
        OBVIOUS
      <4> HIDE DEF x3, x4
      <4> QED
        BY <4>1, Tuples, SeqOfAny
    <3>2. x3 = Append(x2, r3) /\ x4 = Append(x3, r4) /\ BlockRows = Append(x4, r5)
      BY <2>1
    <3>3. rows \o x2 = (rows \o <<r1>>) \o <<r2>>
      BY <1>3, ConcatPair
    <3> HIDE DEF x2, x3, x4
    <3>4. rows \o Append(x2, r3) = (rows \o x2) \o <<r3>>
      BY <1>3, <3>1, ConcatAppend
    <3>5. rows \o Append(x3, r4) = (rows \o x3) \o <<r4>>
      BY <1>3, <3>1, ConcatAppend
    <3>6. rows \o Append(x4, r5) = (rows \o x4) \o <<r5>>
      BY <1>3, <3>1, ConcatAppend
    <3> QED
      BY <3>2, <3>3, <3>4, <3>5, <3>6, Zenon DEF rows1, rows2, rows3, rows4, rows5
  <2> QED
    BY <2>2 DEF rows
<1>25. BlockAdded(s, f6, h)
  <2>1. /\ \A q \in Partition \ {"addr_txs", "blocks", "meta"} : f6[q] = s[q]
        /\ f6.blocks = Put(s.blocks, h, BlockOf)
    BY <1>4, <1>6, <1>13, <1>16, <1>19, <1>22, PartitionNames
  <2>2. /\ {"last_indexed_height", "next_tx_id", "next_action_id", "next_event_id"}
              \subseteq DOMAIN f6.meta
        /\ f6.meta["last_indexed_height"] = h /\ f6.meta["next_tx_id"] = ids.tx
        /\ f6.meta["next_action_id"] = ids.action /\ f6.meta["next_event_id"] = ids.event
    BY <1>13, <1>16, <1>19, <1>22 DEF Put
  <2>3. LastOf(f6) = h
    BY <2>2 DEF LastOf, Meta, Has
  <2>4. StoredIds(f6) = [tx |-> ids.tx, action |-> ids.action, event |-> ids.event]
    BY <2>2 DEF StoredIds, Meta, Has
  <2>5. ids = [tx |-> ids.tx, action |-> ids.action, event |-> ids.event]
    BY DEF Linked
  <2> QED
    BY <2>1, <2>3, <2>4, <2>5 DEF BlockAdded
<1> HIDE DEF h
<1>26. \E f : Stage(rows5, f) /\ BlockAdded(s, f, h)
  BY <1>23, <1>25
<1> QED
  BY <1>24, <1>26 DEF h

LEMMA TailLinked ==
    ASSUME NEW s, Linked(s, ids), StoredIds(s) = StoredIds(store),
           NEW h, h = LastOf(s) + 1, NEW f, IsStore(f), BlockAdded(s, f, h)
    PROVE  Linked(f, ids)
<1> DEFINE high == LastOf(f) + 1
<1>1. /\ ids = [tx |-> ids.tx, action |-> ids.action, event |-> ids.event]
      /\ ids.tx \in 0 .. MaxTxs /\ ids.action \in 0 .. ids.tx /\ ids.event \in 0 .. ids.tx
      /\ DOMAIN s.txs = 0 .. ids.tx - 1 /\ DOMAIN s.contract_actions = 0 .. ids.action - 1
      /\ DOMAIN s.ledger_events = 0 .. ids.event - 1
      /\ DOMAIN s.blocks = 0 .. LastOf(s) /\ LastOf(s) \in Nat \cup {None}
      /\ \A k \in DOMAIN s.txs : s.txs[k].height \in 0 .. h /\ Filed(s, k)
  <2>1. \A k \in DOMAIN s.txs : s.txs[k].height \in 0 .. h /\ Filed(s, k)
    BY DEF Linked
  <2> QED
    BY <2>1 DEF Linked
<1>2. LastOf(s) \in Int /\ h \in Nat /\ ids.tx \in Nat
  BY <1>1, BoundsAssumption DEF None
<1>3. /\ f.txs_by_hash = s.txs_by_hash /\ f.contract_actions = s.contract_actions
      /\ f.contract_actions_by_addr = s.contract_actions_by_addr
      /\ f.contract_states = s.contract_states /\ f.contracts = s.contracts
      /\ f.events_by_contract = s.events_by_contract /\ f.ledger_events = s.ledger_events
      /\ f.txs = s.txs
  BY PartitionNames DEF BlockAdded
<1>4. /\ LastOf(f) = h /\ high = h + 1 /\ StoredIds(f) = ids
      /\ f.blocks = Put(s.blocks, h, BlockOf)
  BY DEF BlockAdded
<1>5. DOMAIN f.blocks = 0 .. LastOf(f) /\ f.blocks[h] = BlockOf
  BY <1>1, <1>2, <1>4 DEF Put
<1>6. /\ StoredIds(f).tx \in 0 .. ids.tx
      /\ StoredIds(f).tx = IF high = 0 THEN 0
                           ELSE f.blocks[high - 1].first + f.blocks[high - 1].count
  <2>1. high # 0 /\ high - 1 = h
    BY <1>2, <1>4
  <2>2. StoredIds(store).tx \in 0 .. ids.tx
    BY LinkedCursor
  <2>3. BlockOf.first + BlockOf.count = ids.tx
    BY <1>2, <2>2 DEF BlockOf
  <2> QED
    BY <1>2, <1>4, <1>5, <2>1, <2>3
<1>7. \A k \in DOMAIN f.txs :
         /\ f.txs[k].height \in 0 .. high
         /\ f.txs[k].height = high <=> k >= StoredIds(f).tx
         /\ Filed(f, k)
  <2> SUFFICES ASSUME NEW k \in DOMAIN f.txs
               PROVE  /\ f.txs[k].height \in 0 .. high
                      /\ f.txs[k].height = high <=> k >= StoredIds(f).tx
                      /\ Filed(f, k)
    OBVIOUS
  <2>1. s.txs[k].height \in 0 .. h /\ Filed(s, k) /\ k \in 0 .. ids.tx - 1
    BY <1>1, <1>3
  <2>2. Filed(f, k)
    BY <1>3, <2>1 DEF Filed, Has
  <2> QED
    BY <1>2, <1>3, <1>4, <2>1, <2>2
<1>8. \A i \in DOMAIN f.contract_actions :
         LET action == f.contract_actions[i] IN
         /\ action.tx \in DOMAIN f.txs /\ action.height = f.txs[action.tx].height
         /\ Has(f, "contract_actions_by_addr", <<action.addr, i>>)
         /\ action.state = Failed \/ Has(f, "contract_states", action.state)
  BY <1>3 DEF Linked, Has
<1>9. /\ \A i \in DOMAIN f.ledger_events :
            LET event == f.ledger_events[i] IN
            /\ event.tx \in DOMAIN f.txs /\ event.height = f.txs[event.tx].height
            /\ Has(f, "events_by_contract", <<event.addr, i>>)
      /\ \A k \in DOMAIN f.events_by_contract : Has(f, "ledger_events", k[2])
  BY <1>3 DEF Linked, Has
<1>10. PointersOf(f)
  <2>1. PointersOf(s)
    BY DEF Linked
  <2> QED
    BY <1>3, <2>1 DEF PointersOf, Succeeded
<1>11. LastOf(f) \in Nat \cup {None}
  BY <1>2, <1>4
<1> QED
  <2>1. /\ DOMAIN f.txs = 0 .. ids.tx - 1
        /\ DOMAIN f.contract_actions = 0 .. ids.action - 1
        /\ DOMAIN f.ledger_events = 0 .. ids.event - 1
    BY <1>1, <1>3
  <2> QED
    BY <1>1, <1>5, <1>6, <1>7, <1>8, <1>9, <1>10, <1>11, <2>1, Zenon DEF Linked

----------------------------------------------------------------------------
(* The invariant *)

LEMMA AtRest ==
    ASSUME NEW s, Sound(s), Linked(s, StoredIds(s))
    PROVE  /\ AllOrderly(s, <<>>) /\ InsertAll(s, <<>>) = s
           /\ <<>> \in Seq(ToSet(<<>>))
<1>1. InsertAll(s, <<>>) = s
  BY InsertAllEmpty DEF Sound
<1>2. AllOrderly(s, <<>>)
  BY DEF AllOrderly
<1> QED
  BY <1>1, <1>2

LEMMA Building ==
    ASSUME IInv
    PROVE  /\ Sound(store) /\ IsStore(store) /\ IsSeq(batch) /\ Stage(batch, WithCaches)
<1>1. Sound(store) /\ AllOrderly(store, batch) /\ IsSeq(batch)
  BY DEF IInv, IsSeq
<1>2. Sound(InsertAll(store, batch))
  BY <1>1, OrderlySound
<1> QED
  BY <1>1, <1>2 DEF Stage, WithCaches, Sound

LEMMA InitInv == Init => IInv
<1> SUFFICES ASSUME Init PROVE IInv
  OBVIOUS
<1> DEFINE s == store
<1>1. s = [p \in Partition |-> <<>>]
  BY DEF Init
<1>2. \A p \in Partition : s[p] = <<>> /\ DOMAIN s[p] = {}
  BY <1>1
<1>3. IsStore(s)
  <2>1. s = [p \in Partition |-> s[p]]
    BY <1>1
  <2>2. \A p \in Partition : s[p] = [k \in DOMAIN s[p] |-> s[p][k]]
    BY <1>2
  <2> QED
    BY <2>1, <2>2, Zenon DEF IsStore
<1>4. /\ DOMAIN s.txs_by_hash = {} /\ DOMAIN s.contract_actions = {}
      /\ DOMAIN s.contract_actions_by_addr = {} /\ DOMAIN s.contract_states = {}
      /\ DOMAIN s.contracts = {} /\ DOMAIN s.events_by_contract = {}
      /\ DOMAIN s.ledger_events = {} /\ DOMAIN s.txs = {} /\ DOMAIN s.addr_txs = {}
      /\ DOMAIN s.blocks = {} /\ DOMAIN s.meta = {}
  BY <1>2, PartitionNames
<1> HIDE DEF s
<1>5. LastOf(s) = None /\ StoredIds(s) = [tx |-> 0, action |-> 0, event |-> 0]
  BY <1>4 DEF LastOf, StoredIds, Meta, Has
<1>6. 0 .. LastOf(s) = {} /\ 0 .. 0 - 1 = {} /\ LastOf(s) + 1 = 0
  BY <1>5 DEF None
<1>7. Sound(s)
  BY <1>3, <1>4, <1>5, <1>6 DEF Sound
<1>8. PointersOf(s)
  <2>1. \A a : Succeeded(s, a) = {}
    BY <1>4 DEF Succeeded
  <2> QED
    BY <1>4, <2>1 DEF PointersOf
<1>9. Linked(s, StoredIds(s))
  <2> DEFINE n == StoredIds(s)
  <2>1. n = [tx |-> n.tx, action |-> n.action, event |-> n.event]
    BY <1>5
  <2>2. n.tx = 0 /\ n.action = 0 /\ n.event = 0
    BY <1>5
  <2>3. n.tx \in 0 .. MaxTxs /\ n.action \in 0 .. n.tx /\ n.event \in 0 .. n.tx
    BY <2>2, BoundsAssumption
  <2>4. /\ DOMAIN s.txs = 0 .. n.tx - 1 /\ DOMAIN s.contract_actions = 0 .. n.action - 1
        /\ DOMAIN s.ledger_events = 0 .. n.event - 1 /\ DOMAIN s.blocks = 0 .. LastOf(s)
    BY <1>4, <1>6, <2>2
  <2>5. n.tx \in 0 .. n.tx
    BY <2>2
  <2>6. LastOf(s) \in Nat \cup {None}
    BY <1>5
  <2> HIDE DEF n
  <2>7. Linked(s, n)
    BY <1>3, <1>4, <1>6, <1>8, <2>1, <2>2, <2>3, <2>4, <2>5, <2>6 DEF Linked, n
  <2> QED
    BY <2>7 DEF n
<1>10. /\ before = s /\ store = s /\ batch = <<>> /\ pc = "idle" /\ ids = StoredIds(s)
  BY DEF Init, s
<1>11. /\ AllOrderly(s, <<>>) /\ InsertAll(s, <<>>) = s /\ <<>> \in Seq(ToSet(<<>>))
  BY <1>7, <1>9, AtRest
<1> QED
  BY <1>7, <1>9, <1>10, <1>11 DEF IInv, WithCaches

LEMMA AddInv == IInv /\ AddTransaction => IInv'
<1> SUFFICES ASSUME IInv, AddTransaction PROVE IInv'
  OBVIOUS
<1> DEFINE s == WithCaches
           h == LastHeight + 1
<1>1. PICK t \in Transaction :
         /\ batch' = batch
              \o <<Row("txs_by_hash", <<t.hash, ids.tx>>, Entry)>>
              \o ActionRows(t, h) \o EventRows(t, h)
              \o <<Row("txs", ids.tx,
                       [hash |-> t.hash, height |-> h, owner |-> t.owner,
                        actions |-> IF t.addr = None THEN {} ELSE {ids.action},
                        events |-> IF t.emits THEN {ids.event} ELSE {}])>>
         /\ ids' = [tx     |-> ids.tx + 1,
                    action |-> ids.action + IF t.addr = None THEN 0 ELSE 1,
                    event  |-> ids.event + IF t.emits THEN 1 ELSE 0]
  BY Zenon DEF AddTransaction
<1>2. batch' = RowsOfTx(t, h) /\ ids' = IdsAfter(t)
  BY <1>1, Zenon DEF RowsOfTx, TxOf, IdsAfter
<1>3. /\ pc \in {"idle", "building"} /\ ids.tx < MaxTxs /\ pc' = "building"
      /\ store' = store /\ before' = before
  BY DEF AddTransaction
<1>4. Sound(store) /\ Stage(batch, s)
  BY Building
<1>5. Linked(s, ids) /\ store = before /\ s.meta = store.meta
  BY <1>3 DEF IInv
<1>6. h = LastOf(s) + 1
  BY <1>5 DEF LastHeight, LastOf, Meta, Has
<1> HIDE DEF h
<1>7. PICK f : Stage(RowsOfTx(t, h), f) /\ TxAdded(s, f, t, h)
  BY <1>3, <1>4, <1>5, <1>6, TxStage
<1>8. /\ IsSeq(batch') /\ AllOrderly(store', batch') /\ InsertAll(store', batch') = f
      /\ IsStore(f)
  BY <1>2, <1>3, <1>7 DEF Stage, Sound
<1>9. Linked(f, IdsAfter(t)) /\ f.meta = s.meta
  BY <1>3, <1>5, <1>6, <1>7, <1>8, TxLinked
<1>10. WithCaches' = f
  BY <1>8 DEF WithCaches
<1>11. Sound(before) /\ Linked(before, StoredIds(before))
  BY DEF IInv
<1>12. Sound(before') /\ Linked(before', StoredIds(before'))
  BY <1>3, <1>11
<1> HIDE DEF s
<1> QED
  BY <1>2, <1>3, <1>4, <1>5, <1>8, <1>9, <1>10, <1>12 DEF IInv, IsSeq

LEMMA CommitInv == IInv /\ CommitBatch => IInv'
<1> SUFFICES ASSUME IInv, CommitBatch PROVE IInv'
  OBVIOUS
<1> DEFINE s == WithCaches
           h == LastOf(s) + 1
<1>1. PICK history \in HistoryRows : batch' = (batch \o history) \o BlockRows
  BY DEF CommitBatch
<1>2. /\ pc \in {"idle", "building"} /\ pc' = "committing"
      /\ store' = store /\ before' = before /\ ids' = ids
  BY DEF CommitBatch
<1>3. Sound(store) /\ Stage(batch, s)
  BY Building
<1>4. Linked(s, ids) /\ store = before /\ s.meta = store.meta
  BY <1>2 DEF IInv
<1>5. StoredIds(s) = StoredIds(store)
  BY <1>4 DEF StoredIds, Meta, Has
<1>6. PICK f : Stage((batch \o history) \o BlockRows, f) /\ BlockAdded(s, f, h)
  BY <1>3, <1>4, TailStage
<1>7. /\ IsSeq(batch') /\ AllOrderly(store', batch') /\ InsertAll(store', batch') = f
      /\ IsStore(f)
  BY <1>1, <1>2, <1>6 DEF Stage, Sound
<1>8. Linked(f, ids)
  BY <1>4, <1>5, <1>6, <1>7, TailLinked
<1>9. StoredIds(f) = ids /\ LastOf(f) = h
  BY <1>6 DEF BlockAdded
<1>10. batch' # <<>>
  <2> SUFFICES ASSUME batch' = <<>> PROVE FALSE
    OBVIOUS
  <2>1. f = store
    BY <1>2, <1>3, <1>7, InsertAllEmpty DEF Sound
  <2>2. LastOf(f) = LastOf(s)
    BY <1>4, <2>1 DEF LastOf, Meta, Has
  <2>3. LastOf(s) \in Int
    BY <1>4 DEF Linked, None
  <2> QED
    BY <1>9, <2>2, <2>3
<1>11. WithCaches' = f
  BY <1>7 DEF WithCaches
<1>12. Sound(before') /\ Linked(before', StoredIds(before'))
  BY <1>2 DEF IInv
<1> HIDE DEF s, h
<1> QED
  BY <1>2, <1>3, <1>7, <1>8, <1>9, <1>10, <1>11, <1>12 DEF IInv, IsSeq

LEMMA ApplyInv == IInv /\ ApplyRow => IInv'
<1> SUFFICES ASSUME IInv, ApplyRow PROVE IInv'
  OBVIOUS
<1> DEFINE s == WithCaches
<1>1. /\ pc = "committing" /\ store' = Insert(store, Head(batch)) /\ batch' = Tail(batch)
      /\ IF Len(batch) = 1 THEN pc' = "idle" /\ before' = store'
                           ELSE pc' = pc /\ before' = before
      /\ ids' = ids
  BY DEF ApplyRow
<1>2. /\ AllOrderly(store, batch) /\ IsSeq(batch) /\ batch # <<>> /\ IsStore(store)
      /\ Linked(s, ids) /\ ids = StoredIds(s)
      /\ Sound(before) /\ Linked(before, StoredIds(before))
  BY <1>1, Building DEF IInv
<1>3. /\ Orderly(store, Head(batch)) /\ AllOrderly(store', batch')
      /\ InsertAll(store', batch') = s
  BY <1>1, <1>2, OrderlyHead DEF WithCaches
<1>4. Sound(store')
  BY <1>1, <1>3 DEF Orderly
<1>5. IsSeq(batch') /\ Len(batch') = Len(batch) - 1 /\ Len(batch) \in Nat
  BY <1>1, <1>2, TailSeq
<1>6. WithCaches' = s
  BY <1>3 DEF WithCaches
<1> HIDE DEF s
<1>7. CASE Len(batch) = 1
  <2>1. batch' = <<>>
    BY <1>5, <1>7, EmptySeq DEF IsSeq
  <2>2. store' = s
    BY <1>3, <1>4, <2>1, InsertAllEmpty DEF Sound
  <2>3. before' = s /\ pc' = "idle"
    BY <1>1, <1>7, <2>2
  <2>4. Sound(before') /\ Linked(before', StoredIds(before'))
    BY <1>2, <1>4, <2>2, <2>3
  <2> QED
    BY <1>1, <1>2, <1>3, <1>4, <1>5, <1>6, <2>1, <2>2, <2>3, <2>4 DEF IInv, IsSeq
<1>8. CASE Len(batch) # 1
  <2>1. batch' # <<>>
    BY <1>2, <1>5, <1>8, TailSeq
  <2>2. before' = before /\ pc' = "committing"
    BY <1>1, <1>8
  <2>3. Sound(before') /\ Linked(before', StoredIds(before'))
    BY <1>2, <2>2
  <2> QED
    BY <1>1, <1>2, <1>3, <1>4, <1>5, <1>6, <2>1, <2>2, <2>3 DEF IInv, IsSeq
<1> QED
  BY <1>7, <1>8

LEMMA CrashInv == IInv /\ Crash => IInv'
<1> SUFFICES ASSUME IInv, Crash PROVE IInv'
  OBVIOUS
<1>1. /\ store' \in {before} \cup (IF pc = "committing" THEN {InsertAll(store, batch)} ELSE {})
      /\ before' = store' /\ batch' = <<>> /\ pc' = "idle" /\ ids' = StoredIds(store')
  BY DEF Crash
<1>2. Sound(store') /\ Linked(store', StoredIds(store'))
  <2>1. CASE store' = before
    <3>1. Sound(before) /\ Linked(before, StoredIds(before))
      BY DEF IInv
    <3> QED
      BY <2>1, <3>1
  <2>2. CASE pc = "committing" /\ store' = InsertAll(store, batch)
    <3>1. store' = WithCaches
      BY <2>2 DEF WithCaches
    <3>2. Linked(WithCaches, StoredIds(WithCaches)) /\ Sound(WithCaches)
      BY <2>2, Building DEF IInv, Stage
    <3> QED
      BY <3>1, <3>2
  <2> QED
    BY <1>1, <2>1, <2>2
<1>3. /\ AllOrderly(store', <<>>) /\ InsertAll(store', <<>>) = store'
      /\ <<>> \in Seq(ToSet(<<>>))
  BY <1>2, AtRest
<1>4. WithCaches' = store'
  BY <1>1, <1>3 DEF WithCaches
<1> QED
  BY <1>1, <1>2, <1>3, <1>4 DEF IInv

LEMMA StepInv == IInv /\ [Next]_vars => IInv'
<1> SUFFICES ASSUME IInv, [Next]_vars PROVE IInv'
  OBVIOUS
<1>1. CASE AddTransaction
  BY <1>1, AddInv
<1>2. CASE CommitBatch
  BY <1>2, CommitInv
<1>3. CASE ApplyRow
  BY <1>3, ApplyInv
<1>4. CASE Crash
  BY <1>4, CrashInv
<1>5. CASE UNCHANGED vars
  <2>1. store' = store /\ before' = before /\ batch' = batch /\ pc' = pc /\ ids' = ids
    BY <1>5 DEF vars, writer
  <2>2. WithCaches' = WithCaches
    BY <2>1 DEF WithCaches
  <2> QED
    BY <2>1, <2>2 DEF IInv
<1> QED
  BY <1>1, <1>2, <1>3, <1>4, <1>5 DEF Next, Write

LEMMA Inductive == Spec => []IInv
BY InitInv, StepInv, PTL DEF Spec

----------------------------------------------------------------------------
(* Theorems *)

\* Whatever prefix of a batch a reader sees, and after any crash, write_block
\* leaves nothing missing at or below the cursor: blocks tile the transaction
\* ids, and every transaction has its hash and address entries, its actions
\* and its events.
THEOREM TipIsComplete == Spec => []TipComplete
<1>1. IInv => TipComplete
  <2> SUFFICES ASSUME IInv PROVE TipComplete
    OBVIOUS
  <2>1. Sound(store)
    BY DEF IInv
  <2> QED
    BY <2>1 DEF Sound, TipComplete, LastHeight
<1> QED
  BY <1>1, Inductive, PTL

\* Between commits a contract's row points to its first and to its last
\* successful action, however many of them, failed ones among them, its blocks
\* brought and however often the process died.
THEOREM PointersAreExact == Spec => []PointersExact
<1>1. IInv => PointersExact
  <2> SUFFICES ASSUME IInv, pc # "committing" PROVE PointersOf(store)
    BY DEF PointersExact
  <2>1. store = before /\ Linked(before, StoredIds(before))
    BY DEF IInv
  <2> QED
    BY <2>1 DEF Linked
<1> QED
  BY <1>1, Inductive, PTL

\* No batch inserts a state blob that is there, or one blob twice: the in-block
\* cache and the lookup before it cover everything written so far.
THEOREM BlobsAreWrittenOnce == Spec => []BlobsWrittenOnce
<1>1. IInv => BlobsWrittenOnce
  <2> SUFFICES ASSUME IInv PROVE BlobsWrittenOnce
    OBVIOUS
  <2>0. /\ IsStore(store) /\ IsSeq(batch) /\ AllOrderly(store, batch)
        /\ DOMAIN batch = 1 .. Len(batch) /\ Len(batch) \in Nat
    BY Building, SeqFacts DEF IInv
  <2> DEFINE Blob(i) == batch[i].partition = "contract_states"
  <2>1. ASSUME NEW i \in DOMAIN batch, Blob(i)
        PROVE  /\ batch[i].key \notin DOMAIN store.contract_states
               /\ \A j \in 1 .. i - 1 : Blob(j) => batch[j].key # batch[i].key
    <3> DEFINE front == SubSeq(batch, 1, i - 1)
               s == InsertAll(store, front)
    <3>1. i \in Nat /\ i - 1 \in 0 .. Len(batch)
      BY <2>0
    <3>2. /\ IsSeq(front) /\ Len(front) = i - 1 /\ \A j \in 1 .. i - 1 : front[j] = batch[j]
          /\ DOMAIN front = 1 .. i - 1
      BY <2>0, <3>1, PrefixSeq, SeqFacts
    <3>3. Orderly(s, batch[i])
      BY <2>0 DEF AllOrderly
    <3>4. batch[i].key \notin DOMAIN s.contract_states
      BY <2>1, <3>3 DEF Orderly
    <3> HIDE DEF front
    <3>5. DOMAIN s.contract_states = (DOMAIN store.contract_states)
              \cup {front[j].key : j \in RowsOf(front, "contract_states")}
      BY <2>0, StoreDomain, PartitionNames DEF InsertAll
    <3> HIDE DEF s
    <3>6. ASSUME NEW j \in 1 .. i - 1, Blob(j) PROVE batch[j].key # batch[i].key
      <4>1. j \in RowsOf(front, "contract_states") /\ front[j].key = batch[j].key
        BY <3>2, <3>6 DEF RowsOf
      <4> QED
        BY <3>4, <3>5, <4>1
    <3> QED
      BY <3>4, <3>5, <3>6
  <2>2. ASSUME NEW i \in DOMAIN batch, NEW j \in DOMAIN batch, Blob(i), Blob(j),
               batch[j].key = batch[i].key
        PROVE  i = j
    <3>1. CASE i < j
      <4>1. i \in 1 .. j - 1
        BY <2>0, <3>1
      <4> QED
        BY <2>1, <2>2, <4>1
    <3>2. CASE j < i
      <4>1. j \in 1 .. i - 1
        BY <2>0, <3>2
      <4> QED
        BY <2>1, <2>2, <4>1
    <3> QED
      BY <2>0, <3>1, <3>2
  <2> QED
    BY <2>1, <2>2 DEF BlobsWrittenOnce, Has
<1> QED
  BY <1>1, Inductive, PTL

----------------------------------------------------------------------------
(* The readers *)

(* What a reader keeps *)

\* t still has all a reader took from s, and what is new is above the cursor of s.
Keeps(s, t) ==
    /\ LastOf(t) >= LastOf(s)
    /\ \A p \in Partition : DOMAIN s[p] \subseteq DOMAIN t[p]
    /\ \A p \in Heights \cup {"blocks"} : \A k \in DOMAIN s[p] : t[p][k] = s[p][k]
    /\ \A p \in Heights : \A k \in (DOMAIN t[p]) \ DOMAIN s[p] : t[p][k].height > LastOf(s)
    /\ \A k \in (DOMAIN t.txs) \ DOMAIN s.txs : t.txs[k].height \notin DOMAIN s.blocks

LEMMA RowKeeps ==
    ASSUME NEW s, Sound(s), NEW row, Orderly(s, row)
    PROVE  Keeps(s, Insert(s, row)) /\ Sound(Insert(s, row))
<1> DEFINE t == Insert(s, row)
           p == row.partition
<1>1. /\ p \in Partition
      /\ p \in Heights \cup {"contract_states", "blocks"} => row.key \notin DOMAIN s[p]
      /\ p \in Heights => row.value.height > LastOf(s)
      /\ p = "txs" => row.value.height \notin DOMAIN s.blocks
      /\ LastOf(t) >= LastOf(s) /\ Sound(t)
  BY DEF Orderly
<1>2. /\ t[p] = Put(s[p], row.key, row.value)
      /\ \A q \in Partition : q # p => t[q] = s[q]
  BY <1>1, InsertRow DEF Sound
<1> HIDE DEF t, p
<1>3. /\ DOMAIN t[p] = (DOMAIN s[p]) \cup {row.key} /\ t[p][row.key] = row.value
      /\ \A k \in DOMAIN s[p] : k # row.key => t[p][k] = s[p][k]
  BY <1>2 DEF Put
<1>4. Heights \cup {"blocks"} \subseteq Partition
  BY PartitionNames DEF Heights
<1>5. \A q \in Partition : DOMAIN s[q] \subseteq DOMAIN t[q]
  BY <1>2, <1>3
<1>6. \A q \in Heights \cup {"blocks"} : \A k \in DOMAIN s[q] : t[q][k] = s[q][k]
  BY <1>1, <1>2, <1>3, <1>4
<1>7. \A q \in Heights : \A k \in (DOMAIN t[q]) \ DOMAIN s[q] : t[q][k].height > LastOf(s)
  BY <1>1, <1>2, <1>3, <1>4
<1>8. \A k \in (DOMAIN t.txs) \ DOMAIN s.txs : t.txs[k].height \notin DOMAIN s.blocks
  BY <1>1, <1>2, <1>3, PartitionNames
<1> QED
  BY <1>1, <1>5, <1>6, <1>7, <1>8 DEF Keeps, t

LEMMA WriteKeeps ==
    ASSUME IInv, Write \/ UNCHANGED vars
    PROVE  Keeps(store, store') /\ Sound(store) /\ Sound(store')
<1>0. Sound(store) /\ IsStore(store) /\ IsSeq(batch)
  BY Building
<1>1. CASE ApplyRow
  <2>1. batch # <<>> /\ AllOrderly(store, batch) /\ store' = Insert(store, Head(batch))
    BY <1>1 DEF ApplyRow, IInv
  <2>2. Orderly(store, Head(batch))
    BY <1>0, <2>1, OrderlyHead
  <2> QED
    BY <1>0, <2>1, <2>2, RowKeeps
<1>2. CASE store' = store
  <2>1. LastOf(store) \in Int
    BY <1>0 DEF Sound, None
  <2>2. Keeps(store, store)
    BY <2>1 DEF Keeps
  <2> QED
    BY <1>0, <1>2, <2>2
<1>3. AddTransaction \/ CommitBatch \/ UNCHANGED vars => store' = store
  BY DEF AddTransaction, CommitBatch, vars, writer
<1> QED
  BY <1>1, <1>2, <1>3 DEF Write

LEMMA KeptParts ==
    ASSUME NEW s, NEW t, Keeps(s, t)
    PROVE  /\ DOMAIN s.contract_actions \subseteq DOMAIN t.contract_actions
           /\ DOMAIN s.contract_actions_by_addr \subseteq DOMAIN t.contract_actions_by_addr
           /\ DOMAIN s.contract_states \subseteq DOMAIN t.contract_states
           /\ DOMAIN s.ledger_events \subseteq DOMAIN t.ledger_events
           /\ DOMAIN s.events_by_contract \subseteq DOMAIN t.events_by_contract
           /\ DOMAIN s.txs \subseteq DOMAIN t.txs
           /\ DOMAIN s.addr_txs \subseteq DOMAIN t.addr_txs
           /\ DOMAIN s.blocks \subseteq DOMAIN t.blocks
           /\ \A k \in DOMAIN s.contract_actions : t.contract_actions[k] = s.contract_actions[k]
           /\ \A k \in DOMAIN s.ledger_events : t.ledger_events[k] = s.ledger_events[k]
           /\ \A k \in DOMAIN s.txs : t.txs[k] = s.txs[k]
           /\ \A k \in DOMAIN s.blocks : t.blocks[k] = s.blocks[k]
           /\ \A k \in (DOMAIN t.contract_actions) \ DOMAIN s.contract_actions :
                 t.contract_actions[k].height > LastOf(s)
           /\ \A k \in (DOMAIN t.ledger_events) \ DOMAIN s.ledger_events :
                 t.ledger_events[k].height > LastOf(s)
           /\ \A k \in (DOMAIN t.txs) \ DOMAIN s.txs :
                 /\ t.txs[k].height > LastOf(s)
                 /\ t.txs[k].height \notin DOMAIN s.blocks
<1>1. /\ "contract_actions" \in Heights /\ "ledger_events" \in Heights /\ "txs" \in Heights
  BY DEF Heights
<1> QED
  BY <1>1, PartitionNames DEF Keeps

----------------------------------------------------------------------------
(* The lists *)

\* Rows and index entries of the list in a store.
ListedIn(s) == {i \in DOMAIN s[Records[handler]] :
                  LET row == s[Records[handler]][i] IN
                  /\ CASE handler \in {"contract_actions", "contract_events"} -> row.addr = key
                       [] handler = "address_txs" -> row.owner = key
                       [] handler = "block_txs" -> row.height = key
                       [] OTHER -> TRUE
                  /\ i >= from
                  /\ handler # "block_txs" => row.height <= anchor}

EntriesIn(s) ==
    CASE handler = "contract_actions" ->
            {i \in 0 .. MaxTxs - 1 : Has(s, "contract_actions_by_addr", <<key, i>>)}
      [] handler = "contract_events" ->
            {i \in 0 .. MaxTxs - 1 : Has(s, "events_by_contract", <<key, i>>)}
      [] handler = "ledger_events" -> DOMAIN s.ledger_events
      [] handler = "address_txs" ->
            {i \in 0 .. MaxTxs - 1 : Has(s, "addr_txs", <<key, i>>)}
      [] handler = "block_txs" ->
            LET block == s.blocks[key] IN block.first .. block.first + block.count - 1

LEMMA ListsAre ==
    ASSUME NEW s
    PROVE  /\ handler = "contract_actions" =>
                 /\ Records[handler] = "contract_actions"
                 /\ EntriesIn(s) = {i \in 0 .. MaxTxs - 1 :
                                      <<key, i>> \in DOMAIN s.contract_actions_by_addr}
                 /\ ListedIn(s) = {i \in DOMAIN s.contract_actions :
                                     /\ s.contract_actions[i].addr = key /\ i >= from
                                     /\ s.contract_actions[i].height <= anchor}
           /\ handler = "contract_events" =>
                 /\ Records[handler] = "ledger_events"
                 /\ EntriesIn(s) = {i \in 0 .. MaxTxs - 1 :
                                      <<key, i>> \in DOMAIN s.events_by_contract}
                 /\ ListedIn(s) = {i \in DOMAIN s.ledger_events :
                                     /\ s.ledger_events[i].addr = key /\ i >= from
                                     /\ s.ledger_events[i].height <= anchor}
           /\ handler = "ledger_events" =>
                 /\ Records[handler] = "ledger_events"
                 /\ EntriesIn(s) = DOMAIN s.ledger_events
                 /\ ListedIn(s) = {i \in DOMAIN s.ledger_events :
                                     i >= from /\ s.ledger_events[i].height <= anchor}
           /\ handler = "address_txs" =>
                 /\ Records[handler] = "txs"
                 /\ EntriesIn(s) = {i \in 0 .. MaxTxs - 1 : <<key, i>> \in DOMAIN s.addr_txs}
                 /\ ListedIn(s) = {i \in DOMAIN s.txs :
                                     /\ s.txs[i].owner = key /\ i >= from
                                     /\ s.txs[i].height <= anchor}
           /\ handler = "block_txs" =>
                 /\ Records[handler] = "txs"
                 /\ EntriesIn(s) = TxsOf(s.blocks[key])
                 /\ ListedIn(s) = {i \in DOMAIN s.txs : s.txs[i].height = key /\ i >= from}
<1>1. CASE handler = "contract_actions"
  BY <1>1 DEF ListedIn, EntriesIn, Records, Has
<1>2. CASE handler = "contract_events"
  BY <1>2 DEF ListedIn, EntriesIn, Records, Has
<1>3. CASE handler = "ledger_events"
  BY <1>3 DEF ListedIn, EntriesIn, Records, Has
<1>4. CASE handler = "address_txs"
  BY <1>4 DEF ListedIn, EntriesIn, Records, Has
<1>5. CASE handler = "block_txs"
  BY <1>5 DEF ListedIn, EntriesIn, Records, Has, TxsOf
<1> QED
  BY <1>1, <1>2, <1>3, <1>4, <1>5

LEMMA FiveLists ==
    ASSUME handler \in Lists
    PROVE  handler \in {"contract_actions", "contract_events", "ledger_events",
                        "address_txs", "block_txs"}
BY DEF Lists, FromLists
\* In the reader's store: the anchor is at or below the cursor, and what the list
\* is of is there.
Anchored(s) ==
    /\ handler \in Lists /\ anchor \in Nat /\ anchor <= LastOf(s)
    /\ handler = "block_txs" => key \in DOMAIN s.blocks
    /\ handler = "address_txs" => key # None

LEMMA WholeBelow ==
    ASSUME NEW s, Sound(s), NEW h \in Nat, h <= LastOf(s)
    PROVE  Whole(s, h) /\ h \in DOMAIN s.blocks
<1>1. LastOf(s) \in Int /\ \A x \in 0 .. LastOf(s) : Whole(s, x)
  BY DEF Sound, None
<1>2. Whole(s, h)
  BY <1>1
<1> QED
  BY <1>2 DEF Whole, Has

LEMMA ListFacts ==
    ASSUME NEW s, Sound(s), Anchored(s)
    PROVE  /\ ListedIn(s) \subseteq EntriesIn(s) /\ EntriesIn(s) \subseteq Nat
           /\ handler # "contract_events" => EntriesIn(s) \subseteq DOMAIN s[Records[handler]]
           /\ \A i \in EntriesIn(s) : i \in DOMAIN s[Records[handler]] =>
                 (i \in ListedIn(s) <=> i >= from /\ ~AboveAnchor(s[Records[handler]][i]))
<1>0. LastOf(s) \in Int /\ anchor \in Nat /\ anchor <= LastOf(s) /\ anchor # None
  BY DEF Sound, None, Anchored
<1>1. \A row : AboveAnchor(row) <=> handler # "block_txs" /\ row.height > anchor
  BY <1>0 DEF AboveAnchor
<1>2. /\ \A t \in DOMAIN s.txs : t \in 0 .. MaxTxs - 1 /\ s.txs[t].height \in Nat
      /\ \A i \in DOMAIN s.contract_actions :
            i \in 0 .. MaxTxs - 1 /\ s.contract_actions[i].height \in Nat
      /\ \A i \in DOMAIN s.ledger_events :
            i \in 0 .. MaxTxs - 1 /\ s.ledger_events[i].height \in Nat
  BY DEF Sound
<1>3. CASE handler = "contract_actions"
  <2>1. /\ \A i \in DOMAIN s.contract_actions :
              s.contract_actions[i].height <= LastOf(s) =>
                 <<s.contract_actions[i].addr, i>> \in DOMAIN s.contract_actions_by_addr
        /\ \A k \in DOMAIN s.contract_actions_by_addr :
              k[2] \in DOMAIN s.contract_actions /\ s.contract_actions[k[2]].addr = k[1]
    BY DEF Sound, Has
  <2>2. \A i \in DOMAIN s.contract_actions :
           s.contract_actions[i].height <= anchor => s.contract_actions[i].height <= LastOf(s)
    BY <1>0, <1>2
  <2>3. \A i \in EntriesIn(s) : /\ i \in Nat /\ i \in DOMAIN s.contract_actions
                                /\ s.contract_actions[i].addr = key
    <3> SUFFICES ASSUME NEW i \in EntriesIn(s)
                 PROVE  /\ i \in Nat /\ i \in DOMAIN s.contract_actions
                        /\ s.contract_actions[i].addr = key
      OBVIOUS
    <3> DEFINE k == <<key, i>>
    <3>1. k[1] = key /\ k[2] = i
      OBVIOUS
    <3>2. i \in 0 .. MaxTxs - 1 /\ k \in DOMAIN s.contract_actions_by_addr
      BY <1>3, ListsAre
    <3> HIDE DEF k
    <3> QED
      BY <2>1, <3>1, <3>2
  <2>4. \A i \in ListedIn(s) : i \in EntriesIn(s)
    BY <1>2, <1>3, <2>1, <2>2, ListsAre
  <2>5. \A i \in DOMAIN s.contract_actions :
           s.contract_actions[i].height <= anchor <=> ~(s.contract_actions[i].height > anchor)
    BY <1>0, <1>2
  <2> QED
    BY <1>1, <1>3, <2>3, <2>4, <2>5, ListsAre
<1>4. CASE handler = "contract_events"
  <2>1. /\ \A i \in DOMAIN s.ledger_events :
              <<s.ledger_events[i].addr, i>> \in DOMAIN s.events_by_contract
        /\ \A k \in DOMAIN s.events_by_contract :
              k[2] \in DOMAIN s.ledger_events => s.ledger_events[k[2]].addr = k[1]
    BY DEF Sound, Has
  <2>2. \A i \in EntriesIn(s) :
           i \in Nat /\ (i \in DOMAIN s.ledger_events => s.ledger_events[i].addr = key)
    <3> SUFFICES ASSUME NEW i \in EntriesIn(s)
                 PROVE  i \in Nat /\ (i \in DOMAIN s.ledger_events => s.ledger_events[i].addr = key)
      OBVIOUS
    <3> DEFINE k == <<key, i>>
    <3>1. k[1] = key /\ k[2] = i
      OBVIOUS
    <3>2. i \in 0 .. MaxTxs - 1 /\ k \in DOMAIN s.events_by_contract
      BY <1>4, ListsAre
    <3> HIDE DEF k
    <3> QED
      BY <2>1, <3>1, <3>2
  <2>3. \A i \in ListedIn(s) : i \in EntriesIn(s)
    BY <1>2, <1>4, <2>1, ListsAre
  <2>4. \A i \in DOMAIN s.ledger_events :
           s.ledger_events[i].height <= anchor <=> ~(s.ledger_events[i].height > anchor)
    BY <1>0, <1>2
  <2> QED
    BY <1>1, <1>4, <2>2, <2>3, <2>4, ListsAre
<1>5. CASE handler = "ledger_events"
  <2>1. \A i \in DOMAIN s.ledger_events :
           s.ledger_events[i].height <= anchor <=> ~(s.ledger_events[i].height > anchor)
    BY <1>0, <1>2
  <2> QED
    BY <1>1, <1>2, <1>5, <2>1, ListsAre
<1>6. CASE handler = "address_txs"
  <2>1. \A k \in DOMAIN s.addr_txs : k[2] \in DOMAIN s.txs /\ s.txs[k[2]].owner = k[1]
    BY DEF Sound, Has
  <2>2. \A i \in EntriesIn(s) : i \in Nat /\ i \in DOMAIN s.txs /\ s.txs[i].owner = key
    <3> SUFFICES ASSUME NEW i \in EntriesIn(s)
                 PROVE  i \in Nat /\ i \in DOMAIN s.txs /\ s.txs[i].owner = key
      OBVIOUS
    <3> DEFINE k == <<key, i>>
    <3>1. k[1] = key /\ k[2] = i
      OBVIOUS
    <3>2. i \in 0 .. MaxTxs - 1 /\ k \in DOMAIN s.addr_txs
      BY <1>6, ListsAre
    <3> HIDE DEF k
    <3> QED
      BY <2>1, <3>1, <3>2
  <2>3. ASSUME NEW i \in ListedIn(s) PROVE i \in EntriesIn(s)
    <3> DEFINE h == s.txs[i].height
    <3>1. i \in DOMAIN s.txs /\ s.txs[i].owner = key /\ h <= anchor
      BY <1>6, <2>3, ListsAre
    <3>2. h \in Nat /\ h <= LastOf(s)
      BY <1>0, <1>2, <3>1
    <3>3. Whole(s, h) /\ h \in DOMAIN s.blocks
      BY <3>2, WholeBelow
    <3>4. i \in TxsOf(s.blocks[h])
      BY <3>1, <3>3 DEF Sound
    <3>5. key # None
      BY <1>6 DEF Anchored
    <3>6. <<key, i>> \in DOMAIN s.addr_txs
      BY <3>1, <3>3, <3>4, <3>5 DEF Whole, Has
    <3> QED
      BY <1>2, <1>6, <3>1, <3>6, ListsAre
  <2>4. \A i \in DOMAIN s.txs : s.txs[i].height <= anchor <=> ~(s.txs[i].height > anchor)
    BY <1>0, <1>2
  <2> QED
    BY <1>1, <1>6, <2>2, <2>3, <2>4, ListsAre
<1>7. CASE handler = "block_txs"
  <2>1. key \in DOMAIN s.blocks
    BY <1>7 DEF Anchored
  <2>2. EntriesIn(s) = {i \in DOMAIN s.txs : s.txs[i].height = key}
    BY <1>7, <2>1, ListsAre DEF Sound
  <2> QED
    BY <1>1, <1>2, <1>7, <2>2, ListsAre
<1> QED
  BY <1>3, <1>4, <1>5, <1>6, <1>7, FiveLists DEF Anchored

\* The list at its anchor is the same in all the reader sees of the store.
LEMMA ListKept ==
    ASSUME NEW s, NEW t, Sound(s), Sound(t), Keeps(s, t), Anchored(s)
    PROVE  /\ Anchored(t) /\ ListedIn(t) = ListedIn(s) /\ EntriesIn(s) \subseteq EntriesIn(t)
<1>0. /\ LastOf(s) \in Int /\ LastOf(t) \in Int /\ anchor \in Nat /\ anchor <= LastOf(s)
      /\ LastOf(t) >= LastOf(s)
  BY DEF Sound, None, Anchored, Keeps
<1>1. Anchored(t)
  BY <1>0, KeptParts DEF Anchored
<1>2. /\ \A x \in DOMAIN t.txs : t.txs[x].height \in Nat
      /\ \A i \in DOMAIN t.contract_actions : t.contract_actions[i].height \in Nat
      /\ \A i \in DOMAIN t.ledger_events : t.ledger_events[i].height \in Nat
  BY DEF Sound
<1>3. /\ \A k \in (DOMAIN t.contract_actions) \ DOMAIN s.contract_actions :
            ~(t.contract_actions[k].height <= anchor)
      /\ \A k \in (DOMAIN t.ledger_events) \ DOMAIN s.ledger_events :
            ~(t.ledger_events[k].height <= anchor)
      /\ \A k \in (DOMAIN t.txs) \ DOMAIN s.txs : ~(t.txs[k].height <= anchor)
  BY <1>0, <1>2, KeptParts
<1>4. CASE handler = "contract_actions"
  <2>1. ListedIn(t) = ListedIn(s)
    <3>1. /\ DOMAIN s.contract_actions \subseteq DOMAIN t.contract_actions
          /\ \A k \in DOMAIN s.contract_actions : t.contract_actions[k] = s.contract_actions[k]
      BY KeptParts
    <3>2. \A k : k \in ListedIn(t) => k \in DOMAIN s.contract_actions
      BY <1>3, <1>4, ListsAre
    <3>3. ListedIn(s) = {i \in DOMAIN s.contract_actions :
                               /\ s.contract_actions[i].addr = key
                               /\ i >= from
                               /\ s.contract_actions[i].height <= anchor}
      BY <1>4, ListsAre
    <3>4. ListedIn(t) = {i \in DOMAIN t.contract_actions :
                               /\ t.contract_actions[i].addr = key
                               /\ i >= from
                               /\ t.contract_actions[i].height <= anchor}
      BY <1>4, ListsAre
    <3> QED
      BY <3>1, <3>2, <3>3, <3>4
  <2>2. DOMAIN s.contract_actions_by_addr \subseteq DOMAIN t.contract_actions_by_addr
    BY KeptParts
  <2>3. EntriesIn(s) \subseteq EntriesIn(t)
    BY <1>4, <2>2, ListsAre
  <2> QED
    BY <1>1, <2>1, <2>3
<1>5. CASE handler = "contract_events"
  <2>1. ListedIn(t) = ListedIn(s)
    <3>1. /\ DOMAIN s.ledger_events \subseteq DOMAIN t.ledger_events
          /\ \A k \in DOMAIN s.ledger_events : t.ledger_events[k] = s.ledger_events[k]
      BY KeptParts
    <3>2. \A k : k \in ListedIn(t) => k \in DOMAIN s.ledger_events
      BY <1>3, <1>5, ListsAre
    <3>3. ListedIn(s) = {i \in DOMAIN s.ledger_events :
                               /\ s.ledger_events[i].addr = key
                               /\ i >= from
                               /\ s.ledger_events[i].height <= anchor}
      BY <1>5, ListsAre
    <3>4. ListedIn(t) = {i \in DOMAIN t.ledger_events :
                               /\ t.ledger_events[i].addr = key
                               /\ i >= from
                               /\ t.ledger_events[i].height <= anchor}
      BY <1>5, ListsAre
    <3> QED
      BY <3>1, <3>2, <3>3, <3>4
  <2>2. DOMAIN s.events_by_contract \subseteq DOMAIN t.events_by_contract
    BY KeptParts
  <2>3. EntriesIn(s) \subseteq EntriesIn(t)
    BY <1>5, <2>2, ListsAre
  <2> QED
    BY <1>1, <2>1, <2>3
<1>6. CASE handler = "ledger_events"
  <2>1. ListedIn(t) = ListedIn(s)
    <3>1. /\ DOMAIN s.ledger_events \subseteq DOMAIN t.ledger_events
          /\ \A k \in DOMAIN s.ledger_events : t.ledger_events[k] = s.ledger_events[k]
      BY KeptParts
    <3>2. \A k : k \in ListedIn(t) => k \in DOMAIN s.ledger_events
      BY <1>3, <1>6, ListsAre
    <3>3. ListedIn(s) = {i \in DOMAIN s.ledger_events :
                               /\ i >= from
                               /\ s.ledger_events[i].height <= anchor}
      BY <1>6, ListsAre
    <3>4. ListedIn(t) = {i \in DOMAIN t.ledger_events :
                               /\ i >= from
                               /\ t.ledger_events[i].height <= anchor}
      BY <1>6, ListsAre
    <3> QED
      BY <3>1, <3>2, <3>3, <3>4
  <2>2. DOMAIN s.ledger_events \subseteq DOMAIN t.ledger_events
    BY KeptParts
  <2>3. EntriesIn(s) \subseteq EntriesIn(t)
    BY <1>6, <2>2, ListsAre
  <2> QED
    BY <1>1, <2>1, <2>3
<1>7. CASE handler = "address_txs"
  <2>1. ListedIn(t) = ListedIn(s)
    <3>1. /\ DOMAIN s.txs \subseteq DOMAIN t.txs
          /\ \A k \in DOMAIN s.txs : t.txs[k] = s.txs[k]
      BY KeptParts
    <3>2. \A k : k \in ListedIn(t) => k \in DOMAIN s.txs
      BY <1>3, <1>7, ListsAre
    <3>3. ListedIn(s) = {i \in DOMAIN s.txs :
                               /\ s.txs[i].owner = key
                               /\ i >= from
                               /\ s.txs[i].height <= anchor}
      BY <1>7, ListsAre
    <3>4. ListedIn(t) = {i \in DOMAIN t.txs :
                               /\ t.txs[i].owner = key
                               /\ i >= from
                               /\ t.txs[i].height <= anchor}
      BY <1>7, ListsAre
    <3> QED
      BY <3>1, <3>2, <3>3, <3>4
  <2>2. DOMAIN s.addr_txs \subseteq DOMAIN t.addr_txs
    BY KeptParts
  <2>3. EntriesIn(s) \subseteq EntriesIn(t)
    BY <1>7, <2>2, ListsAre
  <2> QED
    BY <1>1, <2>1, <2>3
<1>8. CASE handler = "block_txs"
  <2>1. key \in DOMAIN s.blocks
    BY <1>8 DEF Anchored
  <2>2. \A k \in (DOMAIN t.txs) \ DOMAIN s.txs : t.txs[k].height # key
    BY <2>1, KeptParts
  <2>3. t.blocks[key] = s.blocks[key]
    BY <2>1, KeptParts
  <2>4. /\ DOMAIN s.txs \subseteq DOMAIN t.txs
        /\ \A k \in DOMAIN s.txs : t.txs[k] = s.txs[k]
    BY KeptParts
  <2>5. ListedIn(t) = ListedIn(s)
    <3>1. ListedIn(s) = {i \in DOMAIN s.txs : s.txs[i].height = key /\ i >= from}
      BY <1>8, ListsAre
    <3>2. ListedIn(t) = {i \in DOMAIN t.txs : t.txs[i].height = key /\ i >= from}
      BY <1>8, ListsAre
    <3> QED
      BY <2>2, <2>4, <3>1, <3>2
  <2>6. EntriesIn(t) = EntriesIn(s)
    BY <1>8, <2>3, ListsAre
  <2> QED
    BY <1>1, <2>5, <2>6
<1> QED
  BY <1>4, <1>5, <1>6, <1>7, <1>8, FiveLists DEF Anchored

----------------------------------------------------------------------------
(* Point reads: a transaction, a contract and its state *)

\* Only lists are read in a list's stages, and only the others in theirs.
LEMMA Kinds ==
    ASSUME Route
    PROVE  /\ stage \in {"resolve", "tip", "tipBlock", "anchor", "scan", "row", "rowTx",
                         "rowBlock"} => handler \in Lists
           /\ stage \in {"hash", "tx", "event", "block"} => handler \in {"tx", "tx_events"}
           /\ stage \in {"pointer", "action", "blob"} =>
                 handler \in {"contract", "contract_state"}
           /\ handler \in {"tx", "tx_events", "contract", "contract_state"} =>
                 handler \notin Lists
BY DEF Route, Lists, FromLists

LEMMA TransactionReads ==
    ASSUME ReadInv, ReadHash \/ ReadTx \/ ReadEvent \/ ReadBlock, UNCHANGED vars
    PROVE  Route' /\ Pointed' /\ Opening' /\ Listing'
<1>1. /\ handler \in {"tx", "tx_events"} /\ handler' = handler
      /\ handler \notin Lists
  BY Kinds DEF ReadInv, ReadHash, ReadTx, ReadEvent, ReadBlock, Read, query
<1>2. stage' \in {"hash", "tx", "event", "block", "ok", "notFound", "failed"}
  BY DEF ReadHash, ReadTx, ReadEvent, ReadBlock, Read
<1>3. Route'
  BY <1>1, <1>2 DEF Route
<1> QED
  BY <1>1, <1>3 DEF Pointed, Opening, Listing

LEMMA ContractReads ==
    ASSUME ReadInv, ReadPointer \/ ReadAction \/ ReadBlob, UNCHANGED vars
    PROVE  Route' /\ Pointed' /\ Opening' /\ Listing'
<1>0. /\ handler \in {"contract", "contract_state"} /\ handler' = handler
      /\ handler \notin Lists /\ store' = store /\ Sound(store)
  BY Kinds, Building DEF ReadInv, ReadPointer, ReadAction, ReadBlob, Read, query, vars, writer
<1>1. CASE ReadPointer
  <2>1. \/ stage' = "notFound"
        \/ /\ stage' = "action" /\ key \in DOMAIN store.contracts
           /\ found' = store.contracts[key].latest
    BY <1>1 DEF ReadPointer, Read, Has
  <2>2. key \in DOMAIN store.contracts =>
           LET latest == store.contracts[key].latest IN
           /\ Has(store, "contract_actions", latest)
           /\ store.contract_actions[latest].state # Failed
           /\ Has(store, "contract_states", store.contract_actions[latest].state)
    BY <1>0 DEF Sound
  <2>3. Pointed' /\ Route'
    BY <1>0, <2>1, <2>2 DEF Pointed, Route
  <2> QED
    BY <1>0, <2>3 DEF Opening, Listing
<1>2. CASE ReadAction
  <2>1. /\ stage = "action"
        /\ Has(store, "contract_actions", found)
        /\ store.contract_actions[found].state # Failed
        /\ Has(store, "contract_states", store.contract_actions[found].state)
    BY <1>0, <1>2 DEF ReadAction, ReadInv, Pointed
  <2>2. \/ stage' = "ok"
        \/ stage' = "blob" /\ found' = store.contract_actions[found].state
    BY <1>2, <2>1 DEF ReadAction
  <2>3. Pointed' /\ Route'
    BY <1>0, <2>1, <2>2 DEF Pointed, Route
  <2> QED
    BY <1>0, <2>3 DEF Opening, Listing
<1>3. CASE ReadBlob
  <2>1. stage' = "ok"
    BY <1>0, <1>3 DEF ReadBlob, Read, ReadInv, Pointed
  <2>2. Pointed' /\ Route'
    BY <1>0, <2>1 DEF Pointed, Route
  <2> QED
    BY <1>0, <2>2 DEF Opening, Listing
<1> QED
  BY <1>1, <1>2, <1>3

----------------------------------------------------------------------------
(* Requests come and go *)

LEMMA AskInv ==
    ASSUME ReadInv, Ask, UNCHANGED vars
    PROVE  Route' /\ Pointed' /\ Opening' /\ Listing'
<1>1. anchor' = None /\ position' = None /\ pages' = <<>> /\ page' = <<>>
  BY DEF Ask
<1>2. handler' \in {"tx", "tx_events"} /\ stage' = "hash" =>
         Route' /\ Pointed' /\ Opening' /\ Listing'
  BY DEF Route, Pointed, Opening, Listing, Lists, FromLists
<1>3. handler' \in {"contract", "contract_state"} /\ stage' = "pointer" =>
         Route' /\ Pointed' /\ Opening' /\ Listing'
  BY DEF Route, Pointed, Opening, Listing, Lists, FromLists
<1>4. ASSUME handler' \in Lists, stage' = "tip" \/ stage' = "resolve",
             handler' = "block_txs" => stage' = "resolve",
             handler' = "address_txs" => key' # None,
             order' \in {"asc", "desc"}, from' \in Nat
      PROVE  Route' /\ Pointed' /\ Opening' /\ Listing'
  <2>1. Route'
    BY <1>4 DEF Route, Lists, FromLists
  <2>2. Pointed'
    BY <1>4 DEF Pointed
  <2>3. Opening'
    BY <1>1, <1>4 DEF Opening
  <2>4. Listing'
    BY <1>1 DEF Listing
  <2> QED
    BY <2>1, <2>2, <2>3, <2>4
<1>5. \/ handler' \in {"tx", "tx_events"} /\ stage' = "hash"
      \/ handler' \in {"contract", "contract_state"} /\ stage' = "pointer"
      \/ handler' = "contract_actions" /\ stage' = "tip"
            /\ order' \in {"asc", "desc"} /\ from' = 0
      \/ handler' = "block_txs" /\ stage' = "resolve"
            /\ order' \in {"asc", "desc"} /\ from' = 0
      \/ handler' \in FromLists /\ stage' = "tip" /\ order' \in {"asc", "desc"}
            /\ from' \in Nat /\ (handler' = "address_txs" => key' # None)
  <2>1. handler' = "address_txs" /\ stage' = "tip" => key' \in Owner
    BY DEF Ask, Lists, FromLists
  <2>2. None \notin Owner
    BY NoneAssumption
  <2> QED
    BY <2>1, <2>2, FromAssumption DEF Ask, FromLists
<1> QED
  BY <1>2, <1>3, <1>4, <1>5 DEF Lists, FromLists

LEMMA ForgetInv ==
    ASSUME Forget
    PROVE  Route' /\ Pointed' /\ Opening' /\ Listing'
BY DEF Forget, Route, Pointed, Opening, Listing, Lists, FromLists

LEMMA ReadInitInv == ReadInit => ReadInv
<1> SUFFICES ASSUME ReadInit PROVE ReadInv
  OBVIOUS
<1>1. IInv
  BY InitInv DEF ReadInit
<1>2. Route /\ Pointed /\ Opening /\ Listing
  BY DEF ReadInit, NoRequest, Route, Pointed, Opening, Listing, Lists, FromLists
<1> QED
  BY <1>1, <1>2 DEF ReadInv

----------------------------------------------------------------------------
(* Sequences of rows *)

LEMMA RowsAppend ==
    ASSUME NEW p \in Seq(Nat), NEW q \in Seq(Nat), NEW n \in Nat
    PROVE  /\ p \o Append(q, n) \in Seq(Nat) /\ p \o q \in Seq(Nat)
           /\ Len(p \o Append(q, n)) = Len(p \o q) + 1
           /\ \A k \in 1 .. Len(p \o q) : (p \o Append(q, n))[k] = (p \o q)[k]
           /\ (p \o Append(q, n))[Len(p \o q) + 1] = n
           /\ ToSet(p \o Append(q, n)) = ToSet(p \o q) \cup {n}
<1> DEFINE r == p \o q
           t == p \o Append(q, n)
<1>1. /\ r \in Seq(Nat) /\ Len(r) \in Nat /\ t \in Seq(Nat) /\ Len(t) = Len(r) + 1
      /\ DOMAIN r = 1 .. Len(r) /\ DOMAIN t = 1 .. Len(t)
  OBVIOUS
<1>2. \A k \in 1 .. Len(r) : t[k] = r[k]
  OBVIOUS
<1>3. t[Len(r) + 1] = n
  OBVIOUS
<1> HIDE DEF r, t
<1>4. \A k \in 1 .. Len(t) : k \in 1 .. Len(r) \/ k = Len(r) + 1
  BY <1>1
<1>5. 1 .. Len(r) \subseteq 1 .. Len(t) /\ Len(r) + 1 \in 1 .. Len(t)
  BY <1>1
<1>6. ToSet(t) = ToSet(r) \cup {n}
  <2>1. \A x : x \in ToSet(t) <=> \E k \in 1 .. Len(t) : t[k] = x
    BY <1>1 DEF ToSet
  <2>2. \A x : x \in ToSet(r) <=> \E k \in 1 .. Len(r) : r[k] = x
    BY <1>1 DEF ToSet
  <2>3. \A x : x \in ToSet(t) <=> x \in ToSet(r) \/ x = n
    BY <1>2, <1>3, <1>4, <1>5, <2>1, <2>2
  <2> QED
    BY <2>3
<1> QED
  BY <1>1, <1>2, <1>3, <1>6 DEF r, t

\* The list's order is a total one.
LEMMA Order ==
    /\ \A i, j, k \in Nat : Before(i, j) /\ Before(j, k) => Before(i, k)
    /\ \A i, j \in Nat : i = j \/ Before(i, j) \/ Before(j, i)
    /\ \A i, j \in Nat : Before(i, j) => i # j /\ ~Before(j, i)
    /\ \A i \in Nat : ~Before(i, i)
BY DEF Before

LEMMA OrderedAppend ==
    ASSUME NEW p \in Seq(Nat), NEW q \in Seq(Nat), NEW n \in Nat,
           Ordered(p \o q), \A i \in ToSet(p \o q) : Before(i, n)
    PROVE  Ordered(p \o Append(q, n))
<1> DEFINE r == p \o q
           t == p \o Append(q, n)
<1>1. /\ r \in Seq(Nat) /\ t \in Seq(Nat) /\ Len(t) = Len(r) + 1 /\ t[Len(r) + 1] = n
      /\ \A k \in 1 .. Len(r) : t[k] = r[k]
  BY RowsAppend
<1>2. Ordered(r) /\ \A i \in ToSet(r) : Before(i, n)
  OBVIOUS
<1> HIDE DEF r, t
<1>3. \A i \in 1 .. Len(r) : r[i] \in ToSet(r)
  BY <1>1 DEF ToSet
<1>4. Len(r) \in Nat /\ DOMAIN r = 1 .. Len(r) /\ DOMAIN t = 1 .. Len(t)
  BY <1>1
<1>5. ASSUME NEW i \in 1 .. Len(t), NEW j \in 1 .. Len(t), i < j PROVE Before(t[i], t[j])
  <2>1. i \in 1 .. Len(r)
    BY <1>1, <1>4, <1>5
  <2>2. CASE j \in 1 .. Len(r)
    <3>1. Before(r[i], r[j])
      BY <1>2, <1>4, <1>5, <2>1, <2>2 DEF Ordered
    <3> QED
      BY <1>1, <2>1, <2>2, <3>1
  <2>3. CASE j = Len(r) + 1
    BY <1>1, <1>2, <1>3, <2>1, <2>3
  <2> QED
    BY <1>1, <1>4, <2>2, <2>3
<1>6. Ordered(t)
  BY <1>4, <1>5 DEF Ordered
<1> QED
  BY <1>6 DEF t

\* Of rows in order, all are the last one or before it.
LEMMA LastRow ==
    ASSUME NEW p \in Seq(Nat), NEW q \in Seq(Nat), Ordered(p \o q), q # <<>>
    PROVE  /\ q[Len(q)] \in Nat /\ q[Len(q)] \in ToSet(p \o q)
           /\ \A i \in ToSet(p \o q) : i \in Nat /\ (i = q[Len(q)] \/ Before(i, q[Len(q)]))
<1> DEFINE r == p \o q
<1>1. /\ r \in Seq(Nat) /\ Len(q) \in Nat /\ Len(r) \in Nat /\ Len(r) >= 1
      /\ DOMAIN r = 1 .. Len(r) /\ r[Len(r)] = q[Len(q)]
  OBVIOUS
<1>2. Ordered(r)
  OBVIOUS
<1> HIDE DEF r
<1>3. \A x : x \in ToSet(r) <=> \E k \in 1 .. Len(r) : r[k] = x
  BY <1>1 DEF ToSet
<1>4. Len(r) \in 1 .. Len(r)
  BY <1>1
<1>5. \A k \in 1 .. Len(r) : k = Len(r) \/ k < Len(r)
  <2>1. \A m \in Nat : \A k \in 1 .. m : k = m \/ k < m
    OBVIOUS
  <2>2. Len(r) \in Nat
    BY <1>1
  <2> QED
    BY <2>1, <2>2
<1>6. ASSUME NEW i \in ToSet(r)
      PROVE  i \in Nat /\ (i = r[Len(r)] \/ Before(i, r[Len(r)]))
  <2>1. PICK k \in 1 .. Len(r) : r[k] = i
    BY <1>3
  <2>2. k = Len(r) \/ k < Len(r)
    BY <1>5
  <2>3. k < Len(r) => Before(r[k], r[Len(r)])
    BY <1>1, <1>2, <1>4 DEF Ordered
  <2>4. r[k] \in Nat
    BY <1>1
  <2> QED
    BY <2>1, <2>2, <2>3, <2>4
<1>7. r[Len(r)] \in Nat /\ r[Len(r)] \in ToSet(r)
  BY <1>1, <1>3, <1>4
<1> QED
  BY <1>1, <1>6, <1>7 DEF r

----------------------------------------------------------------------------
(* Lists *)

\* What a list being read has to go on.
LEMMA View ==
    ASSUME ReadInv, handler \in Lists, anchor # None
    PROVE  /\ Sound(store) /\ Anchored(store) /\ anchor \in Nat /\ anchor <= LastHeight
           /\ Listed \subseteq Entries /\ Entries \subseteq Nat
           /\ handler # "contract_events" => Entries \subseteq DOMAIN store[Records[handler]]
           /\ \A i \in Entries : i \in DOMAIN store[Records[handler]] =>
                 (i \in Listed <=> i >= from /\ ~AboveAnchor(store[Records[handler]][i]))
           /\ from \in Nat /\ order \in {"asc", "desc"}
           /\ pages \in Seq(Nat) /\ page \in Seq(Nat)
<1>1. Sound(store)
  BY Building DEF ReadInv
<1>2. Anchored(store) /\ anchor \in Nat /\ anchor <= LastHeight
  BY DEF ReadInv, Listing, Opening, Anchored, LastHeight, Has
<1>3. Listed = ListedIn(store) /\ Entries = EntriesIn(store)
  BY DEF Listed, ListedIn, Entries, EntriesIn
<1>4. /\ from \in Nat /\ order \in {"asc", "desc"}
      /\ pages \in Seq(Nat) /\ page \in Seq(Nat)
  BY DEF ReadInv, Listing, Opening
<1> QED
  BY <1>1, <1>2, <1>3, <1>4, ListFacts

\* A list's step that is not an error only moves the request on.
LEMMA ListRoute ==
    ASSUME Route, handler \in Lists, UNCHANGED query,
           stage' \in {"resolve", "tip", "tipBlock", "anchor", "scan", "row", "rowTx",
                       "rowBlock", "ok", "notFound", "gone", "failed"}
    PROVE  Route' /\ Pointed'
<1>1. handler' = handler
  BY DEF query
<1> QED
  BY <1>1 DEF Route, Pointed, Lists, FromLists

\* With the request's query and anchor the list stays what it is.
LEMMA SameList ==
    ASSUME UNCHANGED <<store, query, anchor>>
    PROVE  /\ handler' = handler /\ key' = key /\ order' = order /\ from' = from
           /\ Listed' = Listed /\ Entries' = Entries
           /\ \A i, j : (Before(i, j))' <=> Before(i, j)
           /\ \A rows : (Ordered(rows))' <=> Ordered(rows)
<1>1. handler' = handler /\ key' = key /\ order' = order /\ from' = from
      /\ anchor' = anchor /\ store' = store
  BY DEF query
<1>2. Listed' = Listed
  BY <1>1 DEF Listed
<1>3. Entries' = Entries
  BY <1>1 DEF Entries, Has
<1>4. \A i, j : (Before(i, j))' <=> Before(i, j)
  BY <1>1 DEF Before
<1>5. \A rows : (Ordered(rows))' <=> Ordered(rows)
  BY <1>1 DEF Ordered, Before
<1> QED
  BY <1>1, <1>2, <1>3, <1>4, <1>5

LEMMA OpeningReads ==
    ASSUME ReadInv, Resolve \/ ReadTip \/ ReadTipBlock \/ ValidateAnchor, UNCHANGED vars
    PROVE  Route' /\ Pointed' /\ Opening' /\ Listing'
<1>0. /\ handler \in Lists /\ UNCHANGED query /\ handler' = handler /\ key' = key
      /\ order' = order /\ from' = from /\ store' = store
      /\ position' = position /\ page' = page /\ pages' = pages
      /\ order \in {"asc", "desc"} /\ from \in Nat
      /\ handler = "address_txs" => key # None
  BY Kinds DEF ReadInv, Opening, Resolve, ReadTip, ReadTipBlock, ValidateAnchor, Read, query,
               vars, writer
<1>1. Route' /\ Pointed'
  <2>1. stage' \in {"tip", "anchor", "notFound", "scan", "tipBlock", "failed", "gone"}
    BY DEF Resolve, ReadTip, ReadTipBlock, ValidateAnchor, Read
  <2> QED
    BY <1>0, <2>1, ListRoute DEF ReadInv
<1>2. CASE Resolve
  <2>1. /\ stage = "resolve" /\ anchor' = anchor
        /\ \/ stage' = "notFound"
           \/ key \in DOMAIN store.blocks /\ position = None /\ stage' = "tip"
           \/ key \in DOMAIN store.blocks /\ position # None /\ stage' = "anchor"
    BY <1>2 DEF Resolve, Read, Has
  <2>2. Opening'
    BY <1>0, <2>1 DEF ReadInv, Opening, Has
  <2>3. Listing'
    <3> SUFFICES ASSUME anchor # None PROVE Listing'
      BY <2>1 DEF Listing
    <3>1. UNCHANGED <<store, query, anchor>>
      BY <1>0, <2>1
    <3>2. Passed' = Passed
      BY <1>0, <3>1, SameList DEF Passed
    <3>3. Ordered(Seen) /\ ToSet(Seen) = Passed /\ page = <<>>
      BY <1>0, <2>1 DEF ReadInv, Listing
    <3>4. Seen' = Seen
      BY <1>0 DEF Seen
    <3>5. (Ordered(Seen))'
      BY <1>0, <3>1, <3>3 DEF Ordered, Before, Seen, query
    <3> QED
      BY <1>0, <2>1, <3>1, <3>2, <3>3, <3>4, <3>5 DEF ReadInv, Listing, LastHeight
  <2> QED
    BY <1>1, <2>2, <2>3
<1>3. CASE ReadTip
  <2>1. /\ stage = "tip" /\ anchor' = LastHeight
        /\ LastHeight # None => stage' = "tipBlock"
        /\ LastHeight = None => stage' = "scan"
        /\ position = None /\ pages = <<>> /\ page = <<>>
        /\ handler = "block_txs" => Has(store, "blocks", key)
    BY <1>0, <1>3 DEF ReadTip, ReadInv, Opening
  <2>2. Opening'
    BY <1>0, <2>1 DEF Opening, Has
  <2>3. Listing'
    <3> SUFFICES ASSUME LastHeight # None PROVE Listing'
      BY <2>1 DEF Listing
    <3>1. LastHeight \in Nat
      BY Building DEF ReadInv, Sound, LastHeight
    <3>2. Seen' = <<>> /\ ToSet(<<>>) = {} /\ Passed' = {}
      BY <1>0, <2>1 DEF Seen, Passed, ToSet
    <3>3. (Ordered(Seen))'
      BY <3>2 DEF Ordered
    <3>4. LastHeight' = LastHeight /\ anchor' <= LastHeight
      BY <1>0, <2>1, <3>1 DEF LastHeight
    <3> QED
      BY <1>0, <2>1, <3>1, <3>2, <3>3, <3>4 DEF Listing
  <2> QED
    BY <1>1, <2>2, <2>3
<1>4. CASE ReadTipBlock \/ ValidateAnchor
  <2>1. /\ anchor' = anchor /\ stage \in {"tipBlock", "anchor"}
        /\ Has(store, "blocks", anchor) => stage' = "scan"
        /\ stage' \in {"scan", "failed", "gone"}
    BY <1>4 DEF ReadTipBlock, ValidateAnchor, Read
  <2>2. Opening'
    BY <1>0, <2>1 DEF ReadInv, Opening, Has
  <2>3. Listing'
    <3> SUFFICES ASSUME anchor # None PROVE Listing'
      BY <2>1 DEF Listing
    <3>1. UNCHANGED <<store, query, anchor>>
      BY <1>0, <2>1
    <3>2. Passed' = Passed
      BY <1>0, <3>1, SameList DEF Passed
    <3>3. Ordered(Seen) /\ ToSet(Seen) = Passed /\ page = <<>>
      BY <1>0, <2>1 DEF ReadInv, Listing
    <3>4. Seen' = Seen
      BY <1>0 DEF Seen
    <3>5. (Ordered(Seen))'
      BY <1>0, <3>1, <3>3 DEF Ordered, Before, Seen, query
    <3>6. Has(store, "blocks", anchor)
      BY <1>0, View, WholeBelow DEF LastHeight, Has
    <3>7. stage' = "scan"
      BY <2>1, <3>6
    <3> QED
      BY <1>0, <2>1, <3>1, <3>2, <3>3, <3>4, <3>5, <3>7 DEF ReadInv, Listing, LastHeight
  <2> QED
    BY <1>1, <2>2, <2>3
<1> QED
  BY <1>2, <1>3, <1>4

LEMMA BoundedEntries ==
    ASSUME ReadInv, handler \in Lists, anchor # None
    PROVE  \E N \in Nat : Entries \subseteq 0 .. N
<1>1. Sound(store) /\ Anchored(store)
  BY View
<1>2. MaxTxs \in Nat
  BY BoundsAssumption
<1>3. Entries = EntriesIn(store)
  BY DEF Entries, EntriesIn
<1>4. CASE handler # "block_txs"
  <2>1. Entries \subseteq 0 .. MaxTxs - 1
    BY <1>1, <1>3, <1>4, ListsAre, FiveLists DEF Sound
  <2>2. 0 .. MaxTxs - 1 \subseteq 0 .. MaxTxs
    BY <1>2
  <2> QED
    BY <1>2, <2>1, <2>2
<1>5. CASE handler = "block_txs"
  <2>1. /\ key \in DOMAIN store.blocks
        /\ TxsOf(store.blocks[key]) \subseteq DOMAIN store.txs
        /\ \A t \in DOMAIN store.txs : t \in 0 .. MaxTxs - 1
    BY <1>1, <1>5 DEF Anchored, Sound
  <2>2. Entries \subseteq 0 .. MaxTxs - 1
    BY <1>3, <1>5, <2>1, ListsAre
  <2>3. 0 .. MaxTxs - 1 \subseteq 0 .. MaxTxs
    BY <1>2
  <2> QED
    BY <1>2, <2>2, <2>3
<1> QED
  BY <1>4, <1>5

\* The iterator's next entry is the first one ahead of it.
LEMMA NextEntry ==
    ASSUME ReadInv, handler \in Lists, anchor # None, Ahead # {}
    PROVE  LET next == IF order = "asc" THEN Min(Ahead) ELSE Max(Ahead) IN
           next \in Ahead /\ next \in Nat /\ \A i \in Ahead : ~Before(i, next)
<1>1. Ahead \subseteq Entries /\ Ahead \subseteq Nat /\ order \in {"asc", "desc"}
  BY View DEF Ahead
<1>2. CASE order = "asc"
  <2>1. PICK m \in Ahead : \A n \in Ahead : m <= n
    BY <1>1, Least
  <2>2. Min(Ahead) = m
    BY <1>1, <2>1, MinIs
  <2>3. m \in Nat /\ \A n \in Ahead : n \in Nat
    BY <1>1
  <2> QED
    BY <1>2, <2>1, <2>2, <2>3 DEF Before
<1>3. CASE order = "desc"
  <2>1. PICK m \in Ahead : \A n \in Ahead : n <= m
    <3>1. PICK N \in Nat : Ahead \subseteq 0 .. N
      BY <1>1, BoundedEntries
    <3> QED
      BY <3>1, Greatest
  <2>2. Max(Ahead) = m
    BY <1>1, <2>1, MaxIs
  <2>3. m \in Nat /\ \A n \in Ahead : n \in Nat
    BY <1>1
  <2> QED
    BY <1>3, <2>1, <2>2, <2>3 DEF Before
<1> QED
  BY <1>1, <1>2, <1>3

LEMMA ScanInv ==
    ASSUME ReadInv, Scan, UNCHANGED vars
    PROVE  Route' /\ Pointed' /\ Opening' /\ Listing'
<1>0. /\ handler \in Lists /\ UNCHANGED <<store, query, anchor>> /\ stage = "scan"
      /\ stage' \in {"ok", "row"} /\ Route
  BY Kinds DEF ReadInv, Scan, vars, writer
<1>1. Route' /\ Pointed'
  BY <1>0, ListRoute
<1>2. handler' = handler /\ key' = key /\ order' = order /\ from' = from
  BY <1>0, SameList
<1>3. Opening'
  BY <1>0, <1>2 DEF ReadInv, Opening, Has
<1>4. Listing'
  <2> SUFFICES ASSUME anchor # None PROVE Listing'
    BY <1>0 DEF Listing
  <2>1. /\ anchor \in Nat /\ anchor <= LastHeight /\ position \in Nat \cup {None}
        /\ pages \in Seq(Nat) /\ page \in Seq(Nat) /\ Ordered(Seen) /\ ToSet(Seen) = Passed
        /\ LastHeight' = LastHeight
    BY <1>0 DEF ReadInv, Listing, LastHeight
  <2>2. /\ Listed \subseteq Entries /\ Entries \subseteq Nat /\ from \in Nat
        /\ \A i \in Listed : i >= from
    BY <1>0, View DEF Listed
  <2>3. /\ Listed' = Listed /\ Entries' = Entries /\ \A i, j : (Before(i, j))' <=> Before(i, j)
    BY <1>0, SameList
  <2>4. \A i \in Listed : i \in Passed \/ i \in Ahead
    <3>1. \A i \in Listed : i \in Entries /\ i \in Nat /\ i >= from
      BY <2>2
    <3>2. CASE position = None
      BY <3>1, <3>2 DEF Ahead
    <3>3. CASE position # None
      <4>1. position \in Nat /\ order \in {"asc", "desc"}
        BY <1>0, <2>1, <3>3, View
      <4>2. \A i \in Listed : Before(position, i) => i \in Ahead
        BY <3>1, <4>1 DEF Ahead, Before
      <4> QED
        BY <3>3, <4>2 DEF Passed
    <3> QED
      BY <3>2, <3>3
  <2>5. CASE Ahead = {}
    <3>1. stage' = "ok" /\ pages' = pages \o page /\ page' = <<>> /\ position' = position
      BY <2>5 DEF Scan
    <3>2. Passed = Listed
      BY <2>4, <2>5 DEF Passed
    <3>3. pages' \in Seq(Nat) /\ pages' = Seen /\ Seen' = Seen
      <4>1. pages \o page \in Seq(Nat)
        BY <2>1
      <4> QED
        BY <3>1, <4>1 DEF Seen
    <3>4. (Ordered(Seen))' /\ (Ordered(pages))'
      <4>1. (Ordered(pages))' <=> (Ordered(Seen))'
        BY <3>3 DEF Ordered, Before
      <4>2. (Ordered(Seen))'
        BY <1>2, <2>1, <3>3 DEF Ordered, Before
      <4> QED
        BY <4>1, <4>2
    <3>5. ToSet(pages') = Listed'
      BY <2>1, <2>3, <3>2, <3>3
    <3> QED
      BY <1>0, <1>2, <2>1, <2>3, <3>1, <3>3, <3>4, <3>5 DEF Listing
  <2>6. CASE Ahead # {}
    <3> DEFINE next == IF order = "asc" THEN Min(Ahead) ELSE Max(Ahead)
    <3>1. next \in Ahead /\ next \in Nat /\ \A i \in Ahead : ~Before(i, next)
      BY <1>0, <2>6, NextEntry
    <3>2. /\ stage' = "row" /\ found' = next /\ position' = next
          /\ page' = page /\ pages' = pages
      BY <2>6 DEF Scan
    <3> HIDE DEF next
    <3>3. next \in Entries /\ next >= from /\ (position # None => Before(position, next))
      BY <3>1 DEF Ahead, Before
    <3>4. \A i \in Listed : i \in Passed <=> Before(i, next)
      <4>1. ASSUME NEW i \in Listed, i \in Passed PROVE Before(i, next)
        <5>1. i \in Nat /\ position \in Nat /\ ~Before(position, i) /\ Before(position, next)
          BY <2>1, <2>2, <3>3, <4>1 DEF Passed
        <5>2. i = position \/ Before(i, position)
          BY <5>1, Order
        <5> QED
          BY <3>1, <5>1, <5>2, Order
      <4> QED
        BY <2>4, <3>1, <4>1
    <3>5. Passed = {i \in Listed : Before(i, next)}
      BY <3>4 DEF Passed
    <3>6. Seen' = Seen /\ (Ordered(Seen))'
      BY <1>2, <2>1, <3>2 DEF Seen, Ordered, Before
    <3>7. ToSet(Seen') = {i \in Listed' : (Before(i, found))'}
      <4>1. {i \in Listed' : (Before(i, found))'} = {i \in Listed : Before(i, next)}
        BY <1>2, <2>3, <3>2 DEF Before
      <4> QED
        BY <2>1, <3>5, <3>6, <4>1
    <3> QED
      BY <1>0, <1>2, <2>1, <2>3, <3>1, <3>2, <3>3, <3>6, <3>7 DEF Listing
  <2> QED
    BY <2>5, <2>6
<1> QED
  BY <1>1, <1>3, <1>4

\* A row of the list joins the page, or the client asks for the next one.
LEMMA KeepInv ==
    ASSUME ReadInv, handler \in Lists, anchor # None, Keep, found \in Listed,
           stage \in {"row", "rowTx", "rowBlock"}, UNCHANGED vars
    PROVE  Opening' /\ Listing' /\ stage' \in {"scan", "resolve", "anchor"}
<1>0. UNCHANGED <<store, query, anchor>>
  BY DEF Keep, NextPage, vars, writer
<1>1. /\ handler' = handler /\ key' = key /\ order' = order /\ from' = from
      /\ Listed' = Listed /\ Entries' = Entries /\ anchor' = anchor
      /\ \A i, j : (Before(i, j))' <=> Before(i, j)
  BY <1>0, SameList
<1>2. /\ anchor \in Nat /\ anchor <= LastHeight /\ found \in Nat /\ found = position
      /\ pages \in Seq(Nat) /\ page \in Seq(Nat) /\ Ordered(Seen)
      /\ ToSet(Seen) = {i \in Listed : Before(i, found)} /\ LastHeight' = LastHeight
      /\ handler = "block_txs" => Has(store, "blocks", key)
  BY <1>0 DEF ReadInv, Opening, Listing, LastHeight
<1>3. Listed \subseteq Nat /\ Count \in Nat /\ Count # 0
  BY View, CountAssumption
<1>4. CASE Len(page) = Count
  <2>1. /\ stage' \in {"resolve", "anchor"} /\ position' = page[Count]
        /\ pages' = pages \o page /\ page' = <<>>
    BY <1>4 DEF Keep, NextPage
  <2>2. page # <<>>
    BY <1>3, <1>4
  <2>3. /\ page[Count] \in Nat /\ page[Count] \in ToSet(Seen)
        /\ \A i \in ToSet(Seen) : i \in Nat /\ (i = page[Count] \/ Before(i, page[Count]))
    BY <1>2, <1>4, <2>2, LastRow DEF Seen
  <2>4. pages' \in Seq(Nat) /\ page' \in Seq(Nat) /\ Seen' = Seen
    <3>1. pages \o page \in Seq(Nat) /\ (pages \o page) \o <<>> = pages \o page
      BY <1>2
    <3> QED
      BY <2>1, <3>1 DEF Seen
  <2>5. position' \in Nat /\ position' # None
    BY <2>1, <2>3 DEF None
  <2>6. \A i \in Listed : Before(i, found) <=> ~Before(page[Count], i)
    <3>1. Before(page[Count], found)
      BY <1>2, <2>3
    <3> SUFFICES ASSUME NEW i \in Listed
                 PROVE  Before(i, found) <=> ~Before(page[Count], i)
      OBVIOUS
    <3>2. i \in Nat
      BY <1>3
    <3>3. Before(i, found) => ~Before(page[Count], i)
      BY <1>2, <2>3, <3>2, Order
    <3>4. ~Before(page[Count], i) => Before(i, found)
      <4> SUFFICES ASSUME ~Before(page[Count], i) PROVE Before(i, found)
        OBVIOUS
      <4>1. i = page[Count] \/ Before(i, page[Count])
        BY <2>3, <3>2, Order
      <4> QED
        BY <1>2, <2>3, <3>1, <3>2, <4>1, Order
    <3> QED
      BY <3>3, <3>4
  <2>7. ToSet(Seen') = Passed'
    <3>1. Passed' = {i \in Listed : ~Before(page[Count], i)}
      BY <1>1, <2>1, <2>5 DEF Passed
    <3> QED
      BY <1>2, <2>4, <2>6, <3>1
  <2>8. (Ordered(Seen))'
    BY <1>1, <1>2, <2>4 DEF Ordered, Before
  <2>9. Listing'
    BY <1>1, <1>2, <2>1, <2>4, <2>5, <2>7, <2>8 DEF Listing
  <2>10. Opening'
    BY <1>0, <1>1, <1>2, <2>1, <2>5 DEF ReadInv, Opening, Has
  <2> QED
    BY <2>1, <2>9, <2>10
<1>5. CASE Len(page) # Count
  <2>1. /\ stage' = "scan" /\ page' = Append(page, found)
        /\ position' = position /\ pages' = pages
    BY <1>5 DEF Keep
  <2>2. /\ Seen' = pages \o Append(page, found) /\ page' \in Seq(Nat)
        /\ ToSet(Seen') = ToSet(Seen) \cup {found}
    BY <1>2, <2>1, RowsAppend DEF Seen
  <2>3. Ordered(pages \o Append(page, found))
    BY <1>2, OrderedAppend DEF Seen
  <2>4. (Ordered(Seen))'
    BY <1>1, <2>2, <2>3 DEF Ordered, Before
  <2>5. ToSet(Seen') = Passed'
    <3>1. \A i \in Listed : ~Before(found, i) <=> i = found \/ Before(i, found)
      BY <1>2, <1>3, Order
    <3>2. Passed' = {i \in Listed : ~Before(found, i)}
      <4>1. found # None
        BY <1>2 DEF None
      <4> QED
        BY <1>1, <1>2, <2>1, <4>1 DEF Passed
    <3> QED
      BY <1>2, <2>2, <3>1, <3>2
  <2>6. Listing'
    BY <1>1, <1>2, <2>1, <2>2, <2>4, <2>5 DEF Listing
  <2>7. Opening'
    BY <1>0, <1>1, <1>2, <2>1 DEF ReadInv, Opening, Has
  <2> QED
    BY <2>1, <2>6, <2>7
<1> QED
  BY <1>4, <1>5

\* A list without an anchor: there is nothing to keep a promise of.
LEMMA NoAnchorRows ==
    ASSUME ReadInv, ReadRow \/ ReadRowTx \/ ReadRowBlock, anchor = None, UNCHANGED vars
    PROVE  /\ Opening' /\ Listing'
           /\ stage' \in {"scan", "row", "rowTx", "rowBlock", "ok", "failed"}
<1>1. /\ handler \in Lists /\ UNCHANGED <<store, query, anchor>>
      /\ stage' \in {"scan", "row", "rowTx", "rowBlock", "ok", "failed"}
  BY Kinds DEF ReadInv, ReadRow, ReadRowTx, ReadRowBlock, Keep, NextPage, RowStage, vars, writer
<1>2. handler' = handler /\ key' = key /\ order' = order /\ from' = from /\ anchor' = None
  BY <1>1, SameList
<1>3. Opening' /\ Listing'
  BY <1>1, <1>2 DEF ReadInv, Opening, Listing
<1> QED
  BY <1>1, <1>3

\* A step that leaves all but the stage.
LEMMA StageOnly ==
    ASSUME ReadInv, handler \in Lists, anchor # None, UNCHANGED vars,
           UNCHANGED <<query, found, anchor, position, page, pages>>,
           stage \in {"row", "rowTx", "rowBlock"},
           \/ stage' = "failed" /\ handler = "contract_events"
           \/ stage' = "scan" /\ found \notin Listed
           \/ stage' = "rowTx" /\ handler \in {"contract_actions", "contract_events"}
                 /\ found \in Listed
           \/ stage' = "rowBlock" /\ handler = "ledger_events" /\ found \in Listed
    PROVE  Opening' /\ Listing'
<1>0. /\ UNCHANGED <<store, query, anchor>> /\ found' = found /\ position' = position
      /\ page' = page /\ pages' = pages
  BY DEF vars, writer
<1>1. /\ handler' = handler /\ key' = key /\ order' = order /\ from' = from
      /\ Listed' = Listed /\ Entries' = Entries /\ anchor' = anchor
      /\ \A i, j : (Before(i, j))' <=> Before(i, j)
  BY <1>0, SameList
<1>2. /\ anchor \in Nat /\ anchor <= LastHeight /\ found \in Nat /\ found = position
      /\ found \in Entries /\ found >= from
      /\ pages \in Seq(Nat) /\ page \in Seq(Nat) /\ Ordered(Seen)
      /\ ToSet(Seen) = {i \in Listed : Before(i, found)} /\ LastHeight' = LastHeight
  BY <1>0 DEF ReadInv, Listing, LastHeight
<1>3. Opening'
  BY <1>0, <1>1 DEF ReadInv, Opening, Has
<1>4. Seen' = Seen /\ (Ordered(Seen))'
  BY <1>0, <1>1, <1>2 DEF Seen, Ordered, Before
<1>5. ToSet(Seen') = {i \in Listed' : (Before(i, found))'}
  <2>1. {i \in Listed' : (Before(i, found))'} = {i \in Listed : Before(i, found)}
    BY <1>0, <1>1 DEF Before
  <2> QED
    BY <1>2, <1>4, <2>1
<1>6. stage' = "scan" => ToSet(Seen') = Passed'
  <2> SUFFICES ASSUME stage' = "scan" PROVE ToSet(Seen') = Passed'
    OBVIOUS
  <2>1. found \notin Listed /\ Listed \subseteq Nat /\ found # None
    <3>1. Listed \subseteq Entries /\ Entries \subseteq Nat
      BY View
    <3>2. found \notin Listed
      OBVIOUS
    <3>3. found # None
      BY <1>2 DEF None
    <3> QED
      BY <3>1, <3>2, <3>3
  <2>2. \A i \in Listed : ~Before(found, i) <=> Before(i, found)
    BY <1>2, <2>1, Order
  <2>3. Passed' = {i \in Listed : ~Before(found, i)}
    BY <1>0, <1>1, <1>2, <2>1 DEF Passed
  <2> QED
    BY <1>2, <1>4, <2>2, <2>3
<1>7. Listing'
  BY <1>0, <1>1, <1>2, <1>4, <1>5, <1>6 DEF Listing
<1> QED
  BY <1>3, <1>7

LEMMA RowReads ==
    ASSUME ReadInv, ReadRow \/ ReadRowTx \/ ReadRowBlock, UNCHANGED vars
    PROVE  Route' /\ Pointed' /\ Opening' /\ Listing'
<1>0. /\ handler \in Lists /\ UNCHANGED query /\ stage \in {"row", "rowTx", "rowBlock"} /\ Route
  BY Kinds DEF ReadInv, ReadRow, ReadRowTx, ReadRowBlock, Keep
<1>1. SUFFICES /\ Opening' /\ Listing'
               /\ stage' \in {"scan", "row", "rowTx", "rowBlock", "resolve", "anchor", "ok",
                              "failed"}
  BY <1>0, ListRoute
<1>2. CASE anchor = None
  BY <1>2, NoAnchorRows
<1>3. CASE anchor # None
  <2>1. found \in Entries /\ found >= from
    BY <1>0, <1>3 DEF ReadInv, Listing
  <2>2. /\ Listed \subseteq Entries /\ Entries \subseteq Nat /\ Sound(store) /\ anchor \in Nat
        /\ anchor <= LastOf(store) /\ LastOf(store) \in Int
        /\ handler # "contract_events" => found \in DOMAIN store[Records[handler]]
        /\ found \in DOMAIN store[Records[handler]] =>
              (found \in Listed <=> ~AboveAnchor(store[Records[handler]][found]))
    BY <1>0, <1>3, <2>1, View DEF LastHeight, Sound, None
  <2>3. CASE ReadRow
    <3>1. \/ /\ UNCHANGED <<query, found, anchor, position, page, pages>>
             /\ \/ stage' = "failed" /\ handler = "contract_events"
                \/ stage' = "scan" /\ found \notin Listed
                \/ stage' = RowStage /\ RowStage # "row" /\ found \in Listed
          \/ Keep /\ found \in Listed
      BY <2>2, <2>3 DEF ReadRow, Has
    <3>2. RowStage # "row" =>
             \/ RowStage = "rowTx" /\ handler \in {"contract_actions", "contract_events"}
             \/ RowStage = "rowBlock" /\ handler = "ledger_events"
      BY DEF RowStage
    <3> QED
      BY <1>0, <1>3, <3>1, <3>2, StageOnly, KeepInv
  <2>4. CASE ReadRowTx
    <3>1. found \in Listed /\ handler \in {"contract_actions", "contract_events"}
      BY <1>0, <1>3, <2>4 DEF ReadInv, Listing, ReadRowTx
    <3>2. handler = "contract_actions" => Has(store, "txs", store[Records[handler]][found].tx)
      <4> SUFFICES ASSUME handler = "contract_actions"
                   PROVE  Has(store, "txs", store[Records[handler]][found].tx)
        OBVIOUS
      <4>1. Records[handler] = "contract_actions"
        BY ListsAre
      <4>2. /\ found \in DOMAIN store.contract_actions
            /\ store.contract_actions[found].height <= anchor
        BY <3>1, <4>1 DEF Listed
      <4>3. store.contract_actions[found].height \in Nat
        BY <2>2, <4>2 DEF Sound
      <4>4. store.contract_actions[found].height <= LastOf(store)
        BY <2>2, <4>2, <4>3
      <4> QED
        BY <2>2, <4>1, <4>2, <4>4 DEF Sound
    <3>3. \/ UNCHANGED <<query, found, anchor, position, page, pages>>
             /\ stage' = "failed" /\ handler = "contract_events"
          \/ Keep
      BY <2>4, <3>1, <3>2 DEF ReadRowTx
    <3> QED
      BY <1>0, <1>3, <3>1, <3>3, StageOnly, KeepInv
  <2>5. CASE ReadRowBlock
    <3>1. found \in Listed /\ handler = "ledger_events"
      BY <1>0, <1>3, <2>5 DEF ReadInv, Listing, ReadRowBlock
    <3>2. Has(store, "blocks", store.ledger_events[found].height)
      <4>1. /\ store.ledger_events[found].height \in Nat
            /\ store.ledger_events[found].height <= LastOf(store)
        <5>1. Records[handler] = "ledger_events"
          BY <3>1, ListsAre
        <5>2. /\ found \in DOMAIN store.ledger_events
              /\ store.ledger_events[found].height <= anchor
          BY <3>1, <5>1 DEF Listed
        <5>3. store.ledger_events[found].height \in Nat
          BY <2>2, <5>2 DEF Sound
        <5> QED
          BY <2>2, <5>2, <5>3
      <4> QED
        BY <2>2, <4>1, WholeBelow DEF Has
    <3>3. Keep
      BY <2>5, <3>2 DEF ReadRowBlock
    <3> QED
      BY <1>0, <1>3, <3>1, <3>3, KeepInv
  <2> QED
    BY <2>3, <2>4, <2>5
<1> QED
  BY <1>2, <1>3

----------------------------------------------------------------------------
(* Commits under a request *)

LEMMA WriteInv ==
    ASSUME ReadInv, Write \/ UNCHANGED vars, UNCHANGED request
    PROVE  Route' /\ Pointed' /\ Opening' /\ Listing'
<1>0. /\ UNCHANGED query /\ stage' = stage /\ found' = found /\ anchor' = anchor
      /\ position' = position /\ page' = page /\ pages' = pages
      /\ handler' = handler /\ key' = key /\ order' = order /\ from' = from
  BY DEF request, query
<1>1. Keeps(store, store') /\ Sound(store) /\ Sound(store')
  BY WriteKeeps DEF ReadInv
<1>2. /\ DOMAIN store.contract_actions \subseteq DOMAIN store'.contract_actions
      /\ DOMAIN store.contract_states \subseteq DOMAIN store'.contract_states
      /\ DOMAIN store.blocks \subseteq DOMAIN store'.blocks
      /\ \A k \in DOMAIN store.contract_actions :
            store'.contract_actions[k] = store.contract_actions[k]
      /\ LastOf(store') >= LastOf(store)
      /\ LastOf(store) \in Int /\ LastOf(store') \in Int
  BY <1>1, KeptParts DEF Keeps, Sound, None
<1>3. Route'
  BY <1>0 DEF ReadInv, Route
<1>4. Pointed'
  BY <1>0, <1>2 DEF ReadInv, Pointed, Has
<1>5. Opening'
  BY <1>0, <1>2 DEF ReadInv, Opening, Has
<1>6. Listing'
  <2> SUFFICES ASSUME handler \in Lists, anchor # None PROVE Listing'
    BY <1>0 DEF Listing
  <2>1. /\ Anchored(store) /\ anchor \in Nat /\ anchor <= LastOf(store)
    BY View DEF LastHeight
  <2>2. ListedIn(store') = ListedIn(store) /\ EntriesIn(store) \subseteq EntriesIn(store')
    BY <1>1, <2>1, ListKept
  <2>3. /\ Listed = ListedIn(store) /\ Entries = EntriesIn(store)
    BY DEF Listed, ListedIn, Entries, EntriesIn
  <2>4. Listed' = ListedIn(store')
    BY <1>0 DEF Listed, ListedIn
  <2>5. Entries' = EntriesIn(store')
    BY <1>0 DEF Entries, EntriesIn, Has
  <2>6. Listed' = Listed /\ Entries \subseteq Entries'
    BY <2>2, <2>3, <2>4, <2>5
  <2>7. anchor <= LastHeight'
    BY <1>2, <2>1 DEF LastHeight
  <2>8. Passed' = Passed
    BY <1>0, <2>6 DEF Passed, Before
  <2>9. Ordered(Seen) => (Ordered(Seen))'
    BY <1>0 DEF Ordered, Before, Seen
  <2>10. Ordered(pages) => (Ordered(pages))'
    BY <1>0 DEF Ordered, Before
  <2>11. {i \in Listed' : (Before(i, found))'} = {i \in Listed : Before(i, found)}
    BY <1>0, <2>6 DEF Before
  <2>12. Seen' = Seen
    BY <1>0 DEF Seen
  <2> QED
    BY <1>0, <2>1, <2>6, <2>7, <2>8, <2>9, <2>10, <2>11, <2>12 DEF ReadInv, Listing
<1> QED
  BY <1>3, <1>4, <1>5, <1>6

----------------------------------------------------------------------------
(* The inductive invariant and what it gives *)

LEMMA ReadStepInv == ReadInv /\ [ReadNext]_allVars => ReadInv'
<1> SUFFICES ASSUME ReadInv, [ReadNext]_allVars PROVE ReadInv'
  OBVIOUS
<1>1. IInv'
  BY StepInv DEF ReadInv, ReadNext, CrashServing, allVars, Next
<1>2. CASE Write /\ UNCHANGED request
  BY <1>1, <1>2, WriteInv DEF ReadInv
<1>3. CASE (Ask \/ Serve \/ Answered) /\ UNCHANGED vars
  <2>1. CASE Ask
    BY <1>1, <1>3, <2>1, AskInv DEF ReadInv
  <2>2. CASE ReadHash \/ ReadTx \/ ReadEvent \/ ReadBlock
    BY <1>1, <1>3, <2>2, TransactionReads DEF ReadInv
  <2>3. CASE ReadPointer \/ ReadAction \/ ReadBlob
    BY <1>1, <1>3, <2>3, ContractReads DEF ReadInv
  <2>4. CASE Resolve \/ ReadTip \/ ReadTipBlock \/ ValidateAnchor
    BY <1>1, <1>3, <2>4, OpeningReads DEF ReadInv
  <2>5. CASE Scan
    BY <1>1, <1>3, <2>5, ScanInv DEF ReadInv
  <2>6. CASE ReadRow \/ ReadRowTx \/ ReadRowBlock
    BY <1>1, <1>3, <2>6, RowReads DEF ReadInv
  <2>7. CASE Answered
    BY <1>1, <2>7, ForgetInv DEF ReadInv, Answered
  <2> QED
    BY <1>3, <2>1, <2>2, <2>3, <2>4, <2>5, <2>6, <2>7 DEF Serve
<1>4. CASE CrashServing
  BY <1>1, <1>4, ForgetInv DEF ReadInv, CrashServing
<1>5. CASE UNCHANGED allVars
  BY <1>1, <1>5, WriteInv DEF ReadInv, allVars
<1> QED
  BY <1>2, <1>3, <1>4, <1>5 DEF ReadNext

LEMMA ReadInductive == ReadSpec => []ReadInv
<1>1. ReadInit => ReadInv
  BY ReadInitInv
<1>2. ReadInv /\ [ReadNext]_allVars => ReadInv'
  BY ReadStepInv
<1> QED
  BY <1>1, <1>2, PTL DEF ReadSpec

\* A contract that has a successful action, and its state, can be asked for at any
\* moment of a commit: write_block inserts the action, then its blob, then the
\* pointer, and no row of a batch takes one of them back.
THEOREM ContractsAreServed == ReadSpec => []StateServed
<1>1. ReadInv => StateServed
  BY DEF ReadInv, Route, StateServed
<1> QED
  BY <1>1, ReadInductive, PTL

\* No list but that of a contract's events fails once a block is indexed, and no
\* cursor is refused: what the pages name at or below their anchor is complete,
\* and of what is above it index entries come after their records.
THEOREM ListsAreServed == ReadSpec => []ListsServed
<1>1. ReadInv => ListsServed
  BY DEF ReadInv, Listing, ListsServed
<1> QED
  BY <1>1, ReadInductive, PTL

\* The pages of a list, in either order and for any page size, are the rows at or
\* below the anchor of its first page, each once and in order, whatever is
\* committed between two pages, between two rows and in the midst of a batch.
THEOREM PagesAreExact == ReadSpec => []PagesExact
<1>1. ReadInv => PagesExact
  BY DEF ReadInv, Listing, PagesExact
<1> QED
  BY <1>1, ReadInductive, PTL

=============================================================================
