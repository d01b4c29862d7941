----------------------------- MODULE MCBackfills -----------------------------
(***************************************************************************)
(* Backfills on transactions chosen to meet: one, two and no calls that    *)
(* match an event, a failed action, a blob that repeats in a batch and     *)
(* across batches, dust rows created and updated, a dust spend, Zswap      *)
(* outputs.                                                                *)
(***************************************************************************)
EXTENDS Backfills

CONSTANTS s1, s2, c1, c2, u1, u2

Call(c, s) == [call |-> c, state |-> s]
Event(k, o) == [kind |-> k, of |-> o]

MCBlob == {s1, s2}

MCTransaction == {
    [actions |-> <<Call(c1, s1)>>,
     events  |-> <<Event("contract", c1), Event("initial", u2)>>],
    [actions |-> <<Call(c1, s1), Call(c1, s2)>>,
     events  |-> <<Event("contract", c1), Event("output", 0)>>],
    [actions |-> <<Call(c2, Empty), Call(c1, s1)>>,
     events  |-> <<Event("contract", c2), Event("initial", u1)>>],
    [actions |-> <<>>,
     events  |-> <<Event("initial", u1), Event("output", 0), Event("output", 0)>>],
    [actions |-> <<Call(0, s2)>>,
     events  |-> <<Event("dtime", u1), Event("contract", c2)>>],
    [actions |-> <<>>,
     events  |-> <<Event("dtime", u2), Event("dust", 0), Event("initial", u1)>>]}

\* The chain of some transactions, one in each block, numbered through.
Chain(txs) ==
    [actions |-> FlattenSeq([t \in DOMAIN txs |-> [i \in DOMAIN txs[t].actions |->
                    [tx |-> t, call |-> txs[t].actions[i].call,
                     state |-> txs[t].actions[i].state]]]),
     events  |-> FlattenSeq([t \in DOMAIN txs |-> [i \in DOMAIN txs[t].events |->
                    [tx |-> t, kind |-> txs[t].events[i].kind,
                     of |-> txs[t].events[i].of]]])]

MCChains == {Chain(txs) : txs \in [1 .. MaxHeight -> MCTransaction]}
=============================================================================
