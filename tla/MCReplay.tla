------------------------------ MODULE MCReplay ------------------------------
(* Chains of Replay for TLC: three or four blocks that between them have every *)
(* kind of transaction, outcome and genesis, and an upgrade.                   *)
EXTENDS Replay

Intent(gOut, gIn, fOut, fIn) == [gOut |-> gOut, gIn |-> gIn, fOut |-> fOut, fIn |-> fIn]

Tx(kind, fate, fails, intents, out) ==
    [kind |-> kind, fate |-> fate, fails |-> fails, intents |-> intents, out |-> out,
     acts |-> <<>>, outputs |-> 1, cost |-> 2, emits |-> <<[kind |-> "dust"], [kind |-> "deploy"]>>,
     from |-> 0, until |-> 9]

Treasury == [Tx("treasury", "success", {}, <<>>, {"u1", "u2"}) EXCEPT !.cost = 1]
Pool == [Tx("pool", "success", {}, <<>>, {}) EXCEPT !.outputs = 0]
Claim == Tx("claim", "success", {}, <<>>, {"u3"})
Act(kind, contract, segment) == [kind |-> kind, contract |-> contract, segment |-> segment]

Pay == [Tx("standard", "success", {}, <<Intent({"u4"}, {"u1"}, {"u5"}, {"u2"})>>, {})
          EXCEPT !.acts = <<Act("deploy", "c1", 1), Act("call", "c1", 1)>>]
Half == [Tx("standard", "success", {2},
            <<Intent({"u6"}, {"u4"}, {}, {}), Intent({}, {}, {"u7"}, {"u5"})>>, {})
           EXCEPT !.acts = <<Act("update", "c1", 1), Act("call", "c1", 2), Act("deploy", "c2", 2)>>]
Refused == [Tx("standard", "failure", {}, <<Intent({"u8"}, {"u3"}, {"u9"}, {})>>, {})
              EXCEPT !.acts = <<Act("call", "c1", 1)>>]

F(kind, value) == [kind |-> kind, value |-> value, size |-> 0]
Maybe(value, size) == [F("maybe", value) EXCEPT !.size = size]
Written(type, fields, wire) ==
    LET e == [type |-> type, fields |-> fields, wire |-> wire]
    IN  [kind |-> "log", event |-> e, item |-> LogItem(e)]
Log(type, fields) == Written(type, fields, fields)

\* Keys that end in no zero, in one, and in nothing else.
Key == <<7, 0, 1>>
Short == <<7, 1, 0>>
Null == <<0, 0, 0>>

Amount == F("uint", 258)
Nothing == F("uint", 0)
K(key) == F("bytes", key)
User(key) == F("either", [left |-> TRUE, key |-> key])
Contract(key) == F("either", [left |-> FALSE, key |-> key])

CurrentLogs ==
    <<Log("ShieldedSpend", <<K(Key)>>), Log("ShieldedBurn", <<K(Key), F("maybeUint", <<256>>)>>),
      Log("ShieldedBurn", <<K(Key), F("maybeUint", <<>>)>>),
      Log("ShieldedBurn", <<K(Short), F("maybeUint", <<>>)>>),
      Log("ShieldedReceive", <<K(Key), Maybe(<<<<1, 2, 3, 4>>>>, 4), Maybe(<<>>, 3)>>),
      Log("ShieldedReceive", <<K(Key), Maybe(<<>>, 4), Maybe(<<Key>>, 3)>>),
      Log("ShieldedReceive", <<K(Key), Maybe(<<>>, 4), Maybe(<<>>, 3)>>),
      Log("ShieldedMint", <<K(Key), K(Short), F("maybeUint", <<1>>)>>),
      Log("ShieldedMint", <<K(Key), K(Null), F("maybeUint", <<>>)>>),
      Log("UnshieldedSpend", <<User(Key), K(Key), K(Key), Nothing>>),
      Log("UnshieldedSpend", <<Contract(Null), K(Null), K(Null), Amount>>),
      Log("UnshieldedReceive", <<Contract(Key), K(Key), K(Null), Nothing>>),
      Log("UnshieldedMint", <<K(Short), K(Short), Amount>>),
      Log("UnshieldedMint", <<K(Key), K(Short), Nothing>>),
      Log("UnshieldedBurn", <<User(Short), K(Key), Nothing>>),
      Log("UnshieldedBurn", <<Contract(Key), K(Null), F("uint", 1)>>),
      Log("Misc", <<K(Key), K(<<0, 0, 0, 0>>)>>), Log("Misc", <<K(Null), K(<<5, 0, 0, 0>>)>>),
      Log("Paused", <<>>)>>

\* UnshieldedSpend as it was before it had a domain.
OldSpend == Written("UnshieldedSpend", <<User(Key), K(Key), K(Key), Amount>>,
                    <<User(Key), K(Key), Amount>>)

Logging == [Pool EXCEPT !.emits = CurrentLogs \o <<OldSpend>>]
ZeroSpend == [Pool EXCEPT !.emits = <<Log("ShieldedSpend", <<K(Short)>>)>>]

\* Well formed ahead of time only, and at the block's own time only.
Early(tx, time) == [tx EXCEPT !.from = time]
Late(tx, time) == [tx EXCEPT !.until = time]

B0(version, time) == [version |-> version, time |-> time, rooted |-> TRUE,
                      txs |-> <<Treasury>>]
Blk(version, time, rooted, txs) ==
    [version |-> version, time |-> time, rooted |-> rooted, txs |-> txs]

MCChains ==
    {[post |-> post,
      blocks |-> <<B0("v9", time), Blk("v9", 2, rooted, <<Pool, second, Pay>>),
                   Blk("v9", 3, rooted, <<Refused, Half, ZeroSpend>>), Blk(last, 4, TRUE, <<Logging>>)>>] :
        post \in BOOLEAN, time \in {0, 1}, rooted \in BOOLEAN,
        second \in {Claim, Early(Claim, 3), Late(Claim, 2)}, last \in {"v9", "v8"}}
    \cup {[post |-> post,
           blocks |-> <<Blk("v8", 1, TRUE, <<Treasury, Claim>>), Blk("v8", 2, TRUE, <<Half>>)>>] :
             post \in BOOLEAN}
=============================================================================
