----------------------------- MODULE MCUtxoReads -----------------------------
(***************************************************************************)
(* Two owners next to each other; the greatest byte ends the one's keys    *)
(* with a token type and the other's in both places, so that the end of a  *)
(* prefix carries, or there is none.                                       *)
(***************************************************************************)
EXTENDS UtxoReads, TLC

CONSTANTS a1, a2, u1, u2, u3

MCOwnerBytes == (a1 :> <<1>>) @@ (a2 :> <<2>>)
MCTokenBytes == (a1 :> <<2>>) @@ (a2 :> <<2>>)
MCUtxoBytes  == (u1 :> <<0>>) @@ (u2 :> <<1>>) @@ (u3 :> <<2>>)
=============================================================================
