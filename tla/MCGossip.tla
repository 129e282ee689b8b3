------------------------------ MODULE MCGossip ------------------------------
(***************************************************************************)
(* Two transactions: a milestone m, and one, x, whose hash is too light.   *)
(***************************************************************************)
EXTENDS Gossip

CONSTANTS m, x

DigestOf == [h \in Tx |-> <<"xxh64", h>>]
=============================================================================
