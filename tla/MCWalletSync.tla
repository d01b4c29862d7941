---------------------------- MODULE MCWalletSync ----------------------------
(***************************************************************************)
(* Two clients of one wallet, on a chain with relevant and foreign outputs *)
(* next to each other, a transaction that can be decrypted but put nothing *)
(* in the tree, and events of all kinds.                                   *)
(***************************************************************************)
EXTENDS WalletSync

CONSTANTS c1, c2, k1, k2

MCKeyOf == (c1 :> k1) @@ (c2 :> k1)
MCAsks ==
    {(c1 :> {"shielded"}) @@ (c2 :> kinds) :
        kinds \in {{"shielded", "parameters"}, {"feed"}, {"dust"}}}
    \cup {(c1 :> {"feed"}) @@ (c2 :> {"dust"})}

Mine(events)  == [for |-> {k1}, events |-> events]
Other(events) == [for |-> {k2}, events |-> events]

Chain ==
    << <<Mine(<<"output">>), Other(<<"dust">>)>>,
       <<Mine(<<"contract">>), Other(<<"input", "output">>), Mine(<<"output", "dust">>)>> >>

\* The chain's transactions and events, numbered through.
AllOf == FlattenSeq(Chain)
MCTxs == FlattenSeq([b \in DOMAIN Chain |-> [i \in DOMAIN Chain[b] |->
             [for |-> Chain[b][i].for, block |-> b]]])
MCEvents == FlattenSeq([t \in DOMAIN AllOf |-> [i \in DOMAIN AllOf[t].events |->
                [kind |-> AllOf[t].events[i], tx |-> t]]])
=============================================================================
