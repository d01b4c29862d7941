------------------------- MODULE RegistrationsProofs -------------------------
(***************************************************************************)
(* Proofs, for every set of dust addresses and mapped UTXOs, any number of *)
(* blocks and any number of events of a row in a block, that no order of   *)
(* events leaves a row both valid and removed, that both endpoints agree,  *)
(* and that rows follow their events unless several share a block.         *)
(***************************************************************************)
EXTENDS Registrations, WellFoundedInduction, TLAPS

\* None is a number below all heights.
LEMMA NoneIsNoHeight == /\ None \notin Nat /\ None \in Int
                        /\ \A h \in Nat : h > None
BY DEF None

\* Every row has a number for its registration height, a stored one a height.
LEMMA RowFields ==
    /\ NoRow.registeredAt = None
    /\ \A row \in Row : row.registeredAt \in Nat
    /\ \A row \in Row \cup {NoRow} : row.registeredAt \in Int
BY NoneIsNoHeight DEF Row, NoRow

\* What each event makes of a typed row, at a height of the chain.
LEMMA ChangedRow ==
    ASSUME height \in Nat, NEW row \in Row \cup {NoRow}
    PROVE  /\ Registration(row) \in Row
           /\ Registration(row).registeredAt = height
           /\ Registration(row).removedAt = None
           /\ Deregistration(row) \in Row
           /\ Deregistration(row).registeredAt >= row.registeredAt
           /\ Deregistration(row).registeredAt \in {height, row.registeredAt}
           /\ ~Deregistration(row).valid
           /\ \A u \in NightUtxo :
                 /\ MappingAdded(row, u) \in Row
                 /\ MappingAdded(row, u).registeredAt >= row.registeredAt
                 /\ MappingAdded(row, u).registeredAt \in {height, row.registeredAt}
                 /\ MappingAdded(row, u).removedAt = None
           /\ MappingRemoved(row) \in Row
           /\ MappingRemoved(row).registeredAt >= row.registeredAt
           /\ MappingRemoved(row).registeredAt \in {height, row.registeredAt}
           /\ MappingRemoved(row).removedAt = row.removedAt
           /\ MappingRemoved(row).valid = row.valid
<1>1. /\ Started(row) \in Row
      /\ Started(row).registeredAt >= row.registeredAt
      /\ Started(row).registeredAt \in {height, row.registeredAt}
      /\ Started(row).removedAt = row.removedAt
      /\ Started(row).valid = row.valid
  <2>1. CASE row = NoRow
    <3>1. Started(row) = [NoRow EXCEPT !.registeredAt = height]
      BY <2>1 DEF Started
    <3>2. Started(row) \in Row /\ Started(row).registeredAt = height
      BY <3>1 DEF Row, NoRow
    <3>3. Started(row).removedAt = row.removedAt /\ Started(row).valid = row.valid
      BY <2>1, <3>1 DEF NoRow
    <3> QED
      BY <2>1, <3>2, <3>3, RowFields, NoneIsNoHeight
  <2>2. CASE row # NoRow
    <3>1. row \in Row /\ row.registeredAt \in Int
      BY <2>2, RowFields
    <3> QED
      BY <2>2, <3>1 DEF Started
  <2> QED
    BY <2>1, <2>2
<1> QED
  BY <1>1, NoneIsNoHeight DEF Registration, Deregistration, MappingAdded, MappingRemoved, Row

\* A fresh store satisfies the invariant.
LEMMA InitInv == Init => IInv
BY DEF Init, IInv, TypeOK, MarksInv, HeightsInv, SparseInv, NoRow, None

\* The step an event of d takes, whichever the event, keeps the invariant.
LEMMA UpsertInv ==
    ASSUME IInv, NEW d \in DustAddress,
           NEW new \in Row, NEW again \in Row,
           batch' = [batch EXCEPT ![d] = new],
           replayed' = [replayed EXCEPT ![d] = again],
           events' = [events EXCEPT ![d] = @ + 1],
           crowded' = IF events[d] > 0 THEN crowded \cup {d} ELSE crowded,
           UNCHANGED <<height, rows>>,
           registeredIn' \in [DustAddress -> Nat \cup {None}],
           \A e \in DustAddress \ {d} : registeredIn'[e] = registeredIn[e],
           again.registeredAt >= registeredIn'[d],
           new.removedAt # None => ~new.valid,
           new.registeredAt \in {height, rows[d].registeredAt},
           rows[d] = replayed[d] => new = again
    PROVE  IInv'
<1> USE DEF IInv
<1>1. TypeOK'
  <2>1. height' \in Nat /\ rows' \in [DustAddress -> Row \cup {NoRow}]
    BY DEF TypeOK
  <2>2. /\ batch' \in [DustAddress -> Row \cup {NoRow}]
        /\ replayed' \in [DustAddress -> Row \cup {NoRow}]
    BY DEF TypeOK
  <2>3. events' \in [DustAddress -> Nat]
    BY DEF TypeOK
  <2>4. crowded' \subseteq DustAddress
    BY DEF TypeOK
  <2> QED
    BY <2>1, <2>2, <2>3, <2>4 DEF TypeOK
<1>2. MarksInv'
  BY DEF TypeOK, MarksInv
<1>3. SparseInv'
  <2> SUFFICES ASSUME NEW e \in DustAddress
               PROVE  /\ replayed'[e].registeredAt >= registeredIn'[e]
                      /\ e \notin crowded' =>
                            replayed'[e] = IF events'[e] = 0 THEN rows'[e] ELSE batch'[e]
    BY DEF SparseInv
  <2>1. CASE e = d
    <3>1. replayed'[d] = again /\ batch'[d] = new /\ events'[d] = events[d] + 1 /\ events[d] \in Nat
      BY DEF TypeOK
    <3>2. d \notin crowded' => events[d] = 0 /\ d \notin crowded
      BY <3>1
    <3> QED
      BY <2>1, <3>1, <3>2 DEF SparseInv
  <2>2. CASE e # d
    BY <2>2 DEF SparseInv, TypeOK
  <2> QED
    BY <2>1, <2>2
<1>4. HeightsInv'
  <2>1. new.registeredAt <= height
    BY DEF TypeOK, HeightsInv
  <2> QED
    BY <2>1 DEF TypeOK, HeightsInv
<1> QED
  BY <1>1, <1>2, <1>3, <1>4

\* An event of a block keeps the invariant.
LEMMA ApplyEventInv == IInv /\ ApplyEvent => IInv'
<1> SUFFICES ASSUME IInv, ApplyEvent PROVE IInv'
  OBVIOUS
<1>1. PICK d \in DustAddress :
            \/ /\ Upsert(d, Registration)
               /\ registeredIn' = [registeredIn EXCEPT ![d] = height]
            \/ /\ replayed[d].valid
               /\ Upsert(d, Deregistration)
               /\ UNCHANGED registeredIn
            \/ /\ \E u \in NightUtxo : Upsert(d, LAMBDA row : MappingAdded(row, u))
               /\ UNCHANGED registeredIn
            \/ /\ replayed[d].utxo # None
               /\ Upsert(d, MappingRemoved)
               /\ UNCHANGED registeredIn
  BY DEF ApplyEvent
<1>2. /\ height \in Nat
      /\ rows[d] \in Row \cup {NoRow} /\ replayed[d] \in Row \cup {NoRow}
      /\ rows[d].removedAt # None => ~rows[d].valid
      /\ replayed[d].registeredAt >= registeredIn[d]
      /\ registeredIn \in [DustAddress -> Nat \cup {None}]
  BY DEF IInv, TypeOK, MarksInv, SparseInv
<1>3. registeredIn[d] \in Int /\ replayed[d].registeredAt \in Int
  BY <1>2, RowFields, NoneIsNoHeight
<1> DEFINE Moved(new, again) ==
              /\ batch' = [batch EXCEPT ![d] = new]
              /\ replayed' = [replayed EXCEPT ![d] = again]
              /\ events' = [events EXCEPT ![d] = @ + 1]
              /\ crowded' = IF events[d] > 0 THEN crowded \cup {d} ELSE crowded
              /\ UNCHANGED <<height, rows>>
<1>4. CASE Upsert(d, Registration) /\ registeredIn' = [registeredIn EXCEPT ![d] = height]
  <2> DEFINE new == Registration(rows[d])
             again == Registration(replayed[d])
  <2>1. /\ registeredIn' \in [DustAddress -> Nat \cup {None}]
        /\ \A e \in DustAddress \ {d} : registeredIn'[e] = registeredIn[e]
        /\ registeredIn'[d] = height
    BY <1>2, <1>4
  <2>2. /\ new \in Row /\ again \in Row /\ new.removedAt = None
        /\ again.registeredAt >= height /\ new.registeredAt = height
    BY <1>2, ChangedRow, NoneIsNoHeight
  <2>3. Moved(new, again)
    BY <1>4 DEF Upsert, Stored
  <2> QED
    BY <1>1, <1>2, <2>1, <2>2, <2>3, UpsertInv
<1>5. CASE Upsert(d, Deregistration) /\ UNCHANGED registeredIn
  <2> DEFINE new == Deregistration(rows[d])
             again == Deregistration(replayed[d])
  <2>1. /\ new \in Row /\ again \in Row /\ ~new.valid
        /\ again.registeredAt >= replayed[d].registeredAt
        /\ new.registeredAt \in {height, rows[d].registeredAt}
    BY <1>2, ChangedRow
  <2>2. again.registeredAt >= registeredIn[d]
    BY <1>2, <1>3, <2>1, RowFields
  <2>3. Moved(new, again)
    BY <1>5 DEF Upsert, Stored
  <2> QED
    BY <1>1, <1>2, <1>5, <2>1, <2>2, <2>3, UpsertInv
<1>6. ASSUME NEW u \in NightUtxo, Upsert(d, LAMBDA row : MappingAdded(row, u)),
             UNCHANGED registeredIn
      PROVE  IInv'
  <2> DEFINE new == MappingAdded(rows[d], u)
             again == MappingAdded(replayed[d], u)
  <2>1. /\ new \in Row /\ again \in Row /\ new.removedAt = None
        /\ again.registeredAt >= replayed[d].registeredAt
        /\ new.registeredAt \in {height, rows[d].registeredAt}
    BY <1>2, ChangedRow
  <2>2. again.registeredAt >= registeredIn[d]
    BY <1>2, <1>3, <2>1, RowFields
  <2>3. Moved(new, again)
    BY <1>6 DEF Upsert, Stored
  <2> QED
    BY <1>1, <1>2, <1>6, <2>1, <2>2, <2>3, UpsertInv
<1>7. CASE Upsert(d, MappingRemoved) /\ UNCHANGED registeredIn
  <2> DEFINE new == MappingRemoved(rows[d])
             again == MappingRemoved(replayed[d])
  <2>1. /\ new \in Row /\ again \in Row
        /\ new.removedAt = rows[d].removedAt /\ new.valid = rows[d].valid
        /\ again.registeredAt >= replayed[d].registeredAt
        /\ new.registeredAt \in {height, rows[d].registeredAt}
    BY <1>2, ChangedRow
  <2>2. again.registeredAt >= registeredIn[d]
    BY <1>2, <1>3, <2>1, RowFields
  <2>3. Moved(new, again)
    BY <1>7 DEF Upsert, Stored
  <2> QED
    BY <1>1, <1>2, <1>7, <2>1, <2>2, <2>3, UpsertInv
<1> QED
  BY <1>1, <1>4, <1>5, <1>6, <1>7

\* The end of a block keeps the invariant.
LEMMA CommitBlockInv == IInv /\ CommitBlock => IInv'
<1> SUFFICES ASSUME IInv, CommitBlock PROVE IInv'
  OBVIOUS
<1> USE DEF IInv
<1>1. /\ height' = height + 1 /\ height \in Nat
      /\ rows' = [d \in DustAddress |-> IF events[d] > 0 THEN batch[d] ELSE rows[d]]
      /\ batch' = [d \in DustAddress |-> NoRow]
      /\ events' = [d \in DustAddress |-> 0]
      /\ UNCHANGED <<replayed, crowded, registeredIn>>
  BY DEF CommitBlock, TypeOK
<1>2. TypeOK'
  BY <1>1 DEF TypeOK
<1>3. MarksInv'
  BY <1>1 DEF MarksInv, NoRow
<1>4. \A d \in DustAddress : events[d] \in Nat
  BY DEF TypeOK
<1>5. SparseInv'
  BY <1>1, <1>4 DEF SparseInv
<1>6. HeightsInv'
  <2> SUFFICES ASSUME NEW d \in DustAddress
               PROVE  rows'[d].registeredAt <= height' /\ batch'[d].registeredAt <= height'
    BY DEF HeightsInv
  <2>1. /\ rows'[d] \in {rows[d], batch[d]} /\ batch'[d] = NoRow
        /\ rows[d].registeredAt <= height /\ batch[d].registeredAt <= height
    BY <1>1 DEF HeightsInv
  <2>2. rows[d].registeredAt \in Int /\ batch[d].registeredAt \in Int
    BY RowFields DEF TypeOK
  <2> QED
    BY <1>1, <2>1, <2>2, RowFields, NoneIsNoHeight
<1> QED
  BY <1>2, <1>3, <1>5, <1>6

\* Every step keeps the invariant.
LEMMA StepInv == IInv /\ [Next]_vars => IInv'
<1> SUFFICES ASSUME IInv, [Next]_vars PROVE IInv'
  OBVIOUS
<1>1. CASE ApplyEvent
  BY <1>1, ApplyEventInv
<1>2. CASE CommitBlock
  BY <1>2, CommitBlockInv
<1>3. CASE UNCHANGED vars
  BY <1>3 DEF vars, IInv, TypeOK, MarksInv, HeightsInv, SparseInv
<1> QED
  BY <1>1, <1>2, <1>3 DEF Next

\* Of numbers with an upper bound one is the greatest.
LEMMA Greatest ==
    ASSUME NEW N \in Nat, NEW S \in SUBSET (0 .. N), S # {}
    PROVE  \E m \in S : \A n \in S : m >= n
<1> DEFINE T == {N - n : n \in S}
           R == OpToRel(<, Nat)
<1>1. T \subseteq Nat /\ T # {}
  <2>1. \A n \in S : n \in 0 .. N /\ N - n \in Nat
    OBVIOUS
  <2> QED
    BY <2>1
<1>2. PICK x \in T : \A y \in T : ~(<<y, x>> \in R)
  <2> HIDE DEF T
  <2> QED
    BY <1>1, NatLessThanWellFounded, WFMin
<1>3. \A y \in T : y >= x
  <2>1. SUFFICES ASSUME NEW y \in T PROVE y >= x
    OBVIOUS
  <2>2. x \in Nat /\ y \in Nat
    BY <1>1
  <2>3. y < x => <<y, x>> \in R
    BY <2>2 DEF OpToRel
  <2>4. ~(y < x)
    BY <1>2, <2>1, <2>3
  <2> QED
    BY <2>2, <2>4
<1>4. PICK m \in S : x = N - m
  OBVIOUS
<1>5. ASSUME NEW n \in S PROVE m >= n
  <2>1. N - n >= N - m
    BY <1>3, <1>4
  <2>2. n \in 0 .. N /\ m \in 0 .. N
    OBVIOUS
  <2> QED
    BY <2>1, <2>2
<1> QED
  BY <1>5

\* Only a row that is reported valid is a candidate, and every such row is.
LEMMA CandidatesValid ==
    ASSUME IInv
    PROVE  Candidates = {d \in DustAddress : ReportedValid(rows[d])}
<1>1. ASSUME NEW d \in DustAddress
      PROVE  ReportedValid(rows[d]) <=> d \in Candidates
  <2>1. rows[d].removedAt # None => ~rows[d].valid
    BY DEF IInv, MarksInv
  <2>2. ReportedValid(rows[d]) => rows[d] # NoRow
    BY DEF ReportedValid, NoRow
  <2> QED
    BY <2>1, <2>2 DEF ReportedValid, Candidates
<1> QED
  BY <1>1 DEF Candidates

\* Under the invariant the two endpoints agree.
LEMMA InvAgree == IInv => EndpointsAgree
<1> SUFFICES ASSUME IInv PROVE EndpointsAgree
  OBVIOUS
<1>1. \A d \in Candidates : d \in DustAddress /\ rows[d] \in Row
  BY DEF IInv, TypeOK, Candidates
<1>2. ASSUME Candidates # {} PROVE Chosen # {}
  <2> DEFINE S == {rows[d].registeredAt : d \in Candidates}
  <2>1. S \subseteq 0 .. height /\ S # {} /\ height \in Nat
    BY <1>1, <1>2, RowFields DEF IInv, TypeOK, HeightsInv
  <2>2. PICK m \in S : \A n \in S : m >= n
    <3> HIDE DEF S
    <3> QED
      BY <2>1, Greatest
  <2>3. PICK d \in Candidates : m = rows[d].registeredAt
    OBVIOUS
  <2> QED
    BY <2>2, <2>3 DEF Chosen
<1> QED
  BY <1>2, CandidatesValid DEF EndpointsAgree, Chosen

\* Under the invariant rows that were never crowded follow their events.
LEMMA InvSparse == IInv => SparseRowsExact
BY DEF IInv, SparseInv, SparseRowsExact, Settled

\* No order of events, several of one row in one block included, makes the API
\* report a removed registration as valid.
THEOREM RemovedStayRemoved == Spec => []RemovedNotValid
<1>1. IInv => RemovedNotValid
  BY DEF IInv, MarksInv, RemovedNotValid, ReportedValid
<1> QED
  BY <1>1, InitInv, StepInv, PTL DEF Spec

\* The list of registrations and the status of the stake key always agree.
THEOREM RegistrationsAgree == Spec => []EndpointsAgree
<1>1. IInv => EndpointsAgree
  BY InvAgree
<1> QED
  BY <1>1, InitInv, StepInv, PTL DEF Spec

\* A row whose events never share a block is what replaying its events in order
\* gives.
THEOREM RegistrationsReplayed == Spec => []SparseRowsExact
BY InitInv, StepInv, InvSparse, PTL DEF Spec
=============================================================================
