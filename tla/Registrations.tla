---------------------------- MODULE Registrations ----------------------------
(***************************************************************************)
(* cNight registrations: the rows write_block upserts from the             *)
(* registration events of a block, for the dust addresses one Cardano      *)
(* stake key is paired with.  apply_registration_event reads a row from    *)
(* the store and adds the changed row to the batch, so an event does not   *)
(* see the ones before it in the same block.                               *)
(***************************************************************************)
EXTENDS Integers, FiniteSets

CONSTANTS DustAddress,  \* one row each
          NightUtxo,    \* cNight UTXOs a registration may be mapped to
          MaxHeight,    \* bound: blocks
          MaxEvents     \* bound: events of a block

None == -1

VARIABLES
    height,    \* of the block being written
    rows,      \* cnight_registrations
    batch,     \* rows of the batch
    replayed,  \* history: the rows had every event seen the ones before it
    events,    \* history: how many events of the block each row had
    crowded,   \* history: rows that had several events in one block
    registeredIn  \* history: the last block with a Registration event

vars == <<height, rows, batch, replayed, events, crowded, registeredIn>>

Row == [valid : BOOLEAN, registeredAt : Nat, removedAt : Nat \cup {None},
        utxo : NightUtxo \cup {None}]
NoRow == [valid |-> FALSE, registeredAt |-> None, removedAt |-> None, utxo |-> None]

TypeOK ==
    /\ height \in Nat
    /\ rows \in [DustAddress -> Row \cup {NoRow}]
    /\ batch \in [DustAddress -> Row \cup {NoRow}]
    /\ replayed \in [DustAddress -> Row \cup {NoRow}]
    /\ events \in [DustAddress -> Nat]
    /\ crowded \subseteq DustAddress
    /\ registeredIn \in [DustAddress -> Nat \cup {None}]

Init ==
    /\ height = 0
    /\ rows = [d \in DustAddress |-> NoRow]
    /\ batch = rows /\ replayed = rows
    /\ events = [d \in DustAddress |-> 0]
    /\ crowded = {}
    /\ registeredIn = [d \in DustAddress |-> None]

----------------------------------------------------------------------------
(* Events *)

\* The row an event starts from.
Started(row) == IF row = NoRow THEN [row EXCEPT !.registeredAt = height] ELSE row

Registration(row) ==
    [Started(row) EXCEPT !.valid = TRUE, !.registeredAt = height,
                         !.removedAt = None]

Deregistration(row) ==
    [Started(row) EXCEPT !.valid = FALSE, !.removedAt = height]

MappingAdded(row, u) ==
    [Started(row) EXCEPT !.valid = TRUE, !.removedAt = None, !.utxo = u]

MappingRemoved(row) == [Started(row) EXCEPT !.utxo = None]

\* What an event of d reads: the store's row, whatever the batch holds.
Stored(d) == rows[d]

\* An event turns the row it reads into a row of the batch.
Upsert(d, change(_)) ==
    /\ batch' = [batch EXCEPT ![d] = change(Stored(d))]
    /\ replayed' = [replayed EXCEPT ![d] = change(@)]
    /\ events' = [events EXCEPT ![d] = @ + 1]
    /\ crowded' = IF events[d] > 0 THEN crowded \cup {d} ELSE crowded
    /\ UNCHANGED <<height, rows>>

\* The next event of the block.  The chain deregisters what is registered and
\* unmaps what is mapped.
ApplyEvent ==
    /\ height < MaxHeight
    /\ \E d \in DustAddress :
          /\ events[d] < MaxEvents
          /\ \/ /\ Upsert(d, Registration)
                /\ registeredIn' = [registeredIn EXCEPT ![d] = height]
             \/ /\ replayed[d].valid
                /\ Upsert(d, Deregistration)
                /\ UNCHANGED registeredIn
             \/ /\ \E u \in NightUtxo : Upsert(d, LAMBDA row : MappingAdded(row, u))
                /\ UNCHANGED registeredIn
             \/ /\ replayed[d].utxo # None
                /\ Upsert(d, MappingRemoved)
                /\ UNCHANGED registeredIn

\* The block's batch is committed.
CommitBlock ==
    /\ height < MaxHeight
    /\ height' = height + 1
    /\ rows' = [d \in DustAddress |-> IF events[d] > 0 THEN batch[d] ELSE rows[d]]
    /\ batch' = [d \in DustAddress |-> NoRow]
    /\ events' = [d \in DustAddress |-> 0]
    /\ UNCHANGED <<replayed, crowded, registeredIn>>

Next == ApplyEvent \/ CommitBlock
Spec == Init /\ [][Next]_vars

----------------------------------------------------------------------------
(* The API *)

\* Whether /dust/registrations reports a row as valid.
ReportedValid(row) == row.valid \/ (row.utxo # None /\ row.removedAt = None)

\* The rows /dust/status chooses from.
Candidates == {d \in DustAddress : /\ rows[d] # NoRow
                                   /\ rows[d].removedAt = None
                                   /\ rows[d].valid \/ rows[d].utxo # None}

\* The registrations it may choose: ties go to the last in key order.
Chosen == {d \in Candidates : \A e \in Candidates :
              rows[d].registeredAt >= rows[e].registeredAt}

----------------------------------------------------------------------------
(* Properties *)

Settled == \A d \in DustAddress : events[d] = 0

\* A registration whose events never share a block is what replaying its
\* events in order gives, and records its last registration.
SparseRowsExact ==
    Settled => \A d \in DustAddress \ crowded :
                  /\ rows[d] = replayed[d]
                  /\ rows[d].registeredAt >= registeredIn[d]

\* A removed registration is never reported valid, several events in one
\* block included: no order of events leaves both marks on a row.
RemovedNotValid ==
    \A d \in DustAddress : rows[d].removedAt # None => ~ReportedValid(rows[d])

\* Both endpoints agree: the status of the stake key is registered exactly
\* when one of its rows is reported valid, and by such a row.
EndpointsAgree ==
    /\ Chosen # {} <=> \E d \in DustAddress : ReportedValid(rows[d])
    /\ \A d \in Chosen : ReportedValid(rows[d])

\* registered_at_height is overwritten on every re-Registration event.
ReRegistrationRecorded ==
    Settled => \A d \in DustAddress : rows[d].registeredAt >= registeredIn[d]

----------------------------------------------------------------------------
(* The inductive invariant *)

\* No row, stored or of the batch, is both valid and removed.
MarksInv ==
    \A d \in DustAddress : /\ rows[d].removedAt # None => ~rows[d].valid
                           /\ batch[d].removedAt # None => ~batch[d].valid

\* No row was registered after the block being written.
HeightsInv ==
    \A d \in DustAddress : rows[d].registeredAt <= height /\ batch[d].registeredAt <= height

\* A row never crowded is where replaying the events leads, in the store before
\* its event of the block and in the batch after it.
SparseInv ==
    \A d \in DustAddress :
       /\ replayed[d].registeredAt >= registeredIn[d]
       /\ d \notin crowded =>
             replayed[d] = IF events[d] = 0 THEN rows[d] ELSE batch[d]

IInv == TypeOK /\ MarksInv /\ HeightsInv /\ SparseInv
=============================================================================
