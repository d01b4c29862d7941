------------------------------ MODULE UtxoReads ------------------------------
(***************************************************************************)
(* GET /addresses/{addr}/utxos[/{token_type}] while blocks are committed:  *)
(* pages of an owner's unspent index, which changes between them.  The     *)
(* list is a range of byte-string keys, owner, token type and UTXO, whose  *)
(* bounds come from the query and the cursor.  A cursor names its query,   *)
(* is good for no other, and survives a restart: its key is configured.    *)
(* Keys are scaled down; their greatest byte, u8::MAX, is MaxByte.         *)
(***************************************************************************)
EXTENDS UtxoIndex, Sequences

Seqs == INSTANCE SequencesExt

CONSTANTS MaxByte,     \* the greatest byte
          OwnerBytes,  \* of an account
          TokenBytes,  \* of an account
          UtxoBytes,   \* of a UTXO: intent hash and output index
          Orders,      \* orders a client may ask for
          Count        \* rows of a page

ASSUME CountReadAssumption == Count \in Nat \ {0}

\* Owners have one length, token types and UTXO ids too: 32 bytes, 32 and 36.
ASSUME KeysAssumption ==
    /\ MaxByte \in Nat
    /\ \A a, b \in Account : /\ OwnerBytes[a] \in Seq(0 .. MaxByte)
                             /\ TokenBytes[a] \in Seq(0 .. MaxByte)
                             /\ Len(OwnerBytes[a]) = Len(OwnerBytes[b])
                             /\ Len(TokenBytes[a]) = Len(TokenBytes[b])
    /\ \A u, v \in Utxo : /\ UtxoBytes[u] \in Seq(0 .. MaxByte) \ {<<>>}
                          /\ Len(UtxoBytes[u]) = Len(UtxoBytes[v])
                          /\ UtxoBytes[u] = UtxoBytes[v] => u = v

ASSUME OrdersAssumption == Orders \subseteq {"asc", "desc"}

VARIABLES
    query,     \* owner, token type or <<>>, order
    stage,     \* "none", "scan", "records", "more", "ok", "rejected" or "failed"
    position,  \* of the page's cursor: the key after the owner, <<>> on a first page
    rows,      \* UTXOs of the index entries collected for the page
    cursor,    \* the client's: its query and position
    pages,     \* UTXOs the client has received
    always,    \* history: UTXOs unspent ever since the first page was asked for
    ever       \* history: UTXOs unspent at some time since then

request == <<query, stage, position, rows, cursor, pages>>
readVars == <<vars, request, always, ever>>

Queries == [owner : {OwnerBytes[a] : a \in Account},
            token : {<<>>} \cup {TokenBytes[a] : a \in Account}, order : Orders]
NoQuery == [owner |-> <<>>, token |-> <<>>, order |-> "none"]

Clear ==
    /\ query' = NoQuery /\ stage' = "none" /\ position' = <<>> /\ rows' = <<>>
    /\ cursor' = [query |-> NoQuery, position |-> <<>>]
    /\ pages' = <<>> /\ always' = {} /\ ever' = {}

ReadInit ==
    /\ Init
    /\ query = NoQuery /\ stage = "none" /\ position = <<>> /\ rows = <<>>
    /\ cursor = [query |-> NoQuery, position |-> <<>>]
    /\ pages = <<>> /\ always = {} /\ ever = {}

----------------------------------------------------------------------------
(* Keys *)

\* Byte strings in the order of the storage engine.
Less(a, b) == \E n \in 0 .. Len(a) :
                 /\ n < Len(b) /\ SubSeq(a, 1, n) = SubSeq(b, 1, n)
                 /\ n = Len(a) \/ a[n + 1] < b[n + 1]

unspent_key(u) == OwnerBytes[owner[u]] \o TokenBytes[owner[u]] \o UtxoBytes[u]

\* Faulty: the last byte is not carried over.
prefix_end_uncarried(prefix) ==
    IF prefix[Len(prefix)] = MaxByte THEN <<>>
    ELSE SubSeq(prefix, 1, Len(prefix) - 1) \o <<prefix[Len(prefix)] + 1>>

\* The least key above all with the prefix; <<>>, which is never one, if there is none.
prefix_end(prefix) ==
    LET raised == {i \in DOMAIN prefix : prefix[i] # MaxByte}
        last == Max(raised)
    IN  IF raised = {} THEN <<>> ELSE SubSeq(prefix, 1, last - 1) \o <<prefix[last] + 1>>

\* Whether a key is in the range of the page: past its cursor's position and
\* within the query's prefix.
InRange(key) ==
    LET prefix == query.owner \o query.token
        after == query.owner \o position
    IN  /\ IF query.order = "asc" /\ position # <<>> THEN Less(after, key)
           ELSE ~Less(key, prefix)
        /\ IF query.order = "desc" /\ position # <<>> THEN Less(key, after)
           ELSE prefix_end(prefix) = <<>> \/ Less(key, prefix_end(prefix))

Before(u, v) == IF query.order = "asc" THEN Less(unspent_key(u), unspent_key(v))
                ELSE Less(unspent_key(v), unspent_key(u))

----------------------------------------------------------------------------
(* Requests *)

AskFirst ==
    /\ stage = "none"
    /\ query' \in Queries
    /\ stage' = "scan"
    /\ always' = unspent /\ ever' = unspent
    /\ UNCHANGED <<position, rows, cursor, pages>>

\* A cursor is refused with another query than its own.
Decodes(q) == cursor.query = q

\* With the cursor of the last page the client asks for the next one, or for
\* a page of something else.
AskNext ==
    /\ stage = "more"
    /\ query' \in Queries
    /\ stage' = IF Decodes(query') THEN "scan" ELSE "rejected"
    /\ position' = cursor.position
    /\ IF query' = query THEN UNCHANGED <<pages, always, ever>>
       ELSE pages' = <<>> /\ always' = unspent /\ ever' = unspent
    /\ UNCHANGED <<rows, cursor>>

\* The iterator's next entry, up to one more than the page holds.
Scan ==
    /\ stage = "scan"
    /\ LET ahead == {u \in unspent : /\ InRange(unspent_key(u))
                                     /\ rows # <<>> => Before(Seqs!Last(rows), u)}
       IN  IF Len(rows) > Count \/ ahead = {}
           THEN stage' = "records" /\ UNCHANGED rows
           ELSE /\ \E u \in ahead : /\ \A v \in ahead \ {u} : Before(u, v)
                                    /\ rows' = Append(rows, u)
                /\ UNCHANGED stage
    /\ UNCHANGED <<query, position, cursor, pages, always, ever>>

\* The records of the page's rows; a further row makes a cursor.
ReadRecords ==
    /\ stage = "records"
    /\ LET page == SubSeq(rows, 1, IF Len(rows) > Count THEN Count ELSE Len(rows)) IN
       IF \E u \in Range(page) : u \notin DOMAIN utxos
       THEN stage' = "failed" /\ UNCHANGED <<cursor, pages>>
       ELSE /\ pages' = pages \o page
            /\ IF Len(rows) > Count
               THEN LET key == unspent_key(Seqs!Last(page)) IN
                    /\ stage' = "more"
                    /\ cursor' = [query |-> query,
                                  position |-> SubSeq(key, Len(query.owner) + 1, Len(key))]
               ELSE stage' = "ok" /\ UNCHANGED cursor
    /\ rows' = <<>>
    /\ UNCHANGED <<query, position, always, ever>>

Answered == stage \in {"ok", "rejected", "failed"} /\ Clear

Watch == always' = always \cap unspent' /\ ever' = ever \cup unspent'

\* A death of the process takes a request with it, not the client's cursor.
CrashReading ==
    /\ Crash
    /\ IF stage \in {"scan", "records"} THEN Clear
       ELSE UNCHANGED <<request, always, ever>>

ReadNext ==
    \/ AddTransaction /\ UNCHANGED <<request, always, ever>>
    \/ CommitBlock /\ (IF stage = "none" THEN UNCHANGED <<always, ever>> ELSE Watch)
                   /\ UNCHANGED request
    \/ CrashReading
    \/ (AskFirst \/ AskNext \/ Scan \/ ReadRecords \/ Answered) /\ UNCHANGED vars

ReadSpec == ReadInit /\ [][ReadNext]_readVars

----------------------------------------------------------------------------
(* Properties *)

\* UTXOs the query is about.
Asked == {u \in Utxo : /\ OwnerBytes[owner[u]] = query.owner
                       /\ query.token \in {<<>>, TokenBytes[owner[u]]}}

\* What a client gets by following the cursors, over pages the pipeline
\* changes the index between: UTXOs of the query only, in key order, none
\* twice, every one that was unspent all along, and none that never was.
\* No request ends in an internal error.
PagesOfUnspent ==
    /\ stage # "failed"
    /\ stage = "ok" =>
          /\ always \cap Asked \subseteq Range(pages)
          /\ Range(pages) \subseteq ever \cap Asked
          /\ \A i \in 1 .. Len(pages) - 1 : Before(pages[i], pages[i + 1])

----------------------------------------------------------------------------
(* The inductive invariant: what a client has, and what is still ahead of it. *)

Collected == pages \o rows

\* Whether the iterator came to the end of the range.
Ended == stage = "ok" \/ (stage = "records" /\ Len(rows) <= Count)

\* All that was collected is in order, and what should be but is not comes after it.
ListInv ==
    LET C == Collected IN
    /\ Range(C) \subseteq ever \cap Asked
    /\ \A j \in 1 .. Len(C) : \A i \in 1 .. j - 1 : Before(C[i], C[j])
    /\ \A u \in (always \cap Asked) \ Range(C) :
          ~Ended /\ (C # <<>> => Before(Seqs!Last(C), u))

\* p is where the range goes on after the pages.
At(p) == IF pages = <<>> THEN p = <<>>
         ELSE p # <<>> /\ query.owner \o p = unspent_key(Seqs!Last(pages))

RequestInv ==
    /\ stage \in {"none", "scan", "records", "more", "ok", "rejected"}
    /\ stage # "none" => query \in Queries
    /\ pages \in Seq(Utxo) /\ rows \in Seq(Utxo) /\ Len(rows) <= Count + 1
    /\ stage \notin {"scan", "records"} => rows = <<>>
    /\ stage = "none" => position = <<>> /\ pages = <<>>
    /\ stage \in {"scan", "records"} => At(position)
    /\ stage = "more" => pages # <<>> /\ At(cursor.position) /\ cursor.query = query

WatchInv ==
    /\ Range(rows) \subseteq DOMAIN utxos
    /\ stage # "none" => always \subseteq unspent /\ unspent \subseteq ever

ReadInv == RequestInv /\ WatchInv /\ (stage \notin {"none", "rejected"} => ListInv)
=============================================================================
