----------------------------- MODULE IndexedChain -----------------------------
(***************************************************************************)
(* What following the chain promises: the index is a growing, gap-free     *)
(* prefix of the canonical chain and holds every finalized block in the    *)
(* end, whatever the node connection and the process go through.           *)
(***************************************************************************)
EXTENDS Integers, Sequences

CONSTANT MaxHeight  \* bound: blocks the chain has

VARIABLES finalized,  \* finalized blocks: heights 0 .. finalized - 1
          log         \* the indexed blocks: height, and whether off the canonical chain

vars == <<finalized, log>>

Init == finalized \in 1 .. MaxHeight /\ log = <<>>

Finalize ==
    /\ finalized < MaxHeight
    /\ finalized' = finalized + 1
    /\ UNCHANGED log

Index ==
    /\ Len(log) < finalized
    /\ log' = Append(log, [height |-> Len(log), fork |-> FALSE])
    /\ UNCHANGED finalized

Next == Finalize \/ Index

Spec == Init /\ [][Next]_vars /\ WF_vars(Next)
=============================================================================
