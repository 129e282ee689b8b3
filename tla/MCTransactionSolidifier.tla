---------------------- MODULE MCTransactionSolidifier ----------------------
(***************************************************************************)
(* Up to three transactions over the entry point e: b approves a, and c    *)
(* approves a and b.                                                       *)
(***************************************************************************)
EXTENDS TransactionSolidifier

CONSTANTS e, a, b, c, validator, api

TrunkOf(t)  == CASE t = a -> e [] t = b -> e [] t = c -> a
BranchOf(t) == CASE t = a -> e [] t = b -> a [] t = c -> b

TrunkIn(S)   == [t \in S |-> TrunkOf(t)]
BranchIn(S)  == [t \in S |-> BranchOf(t)]
ParentsIn(S) == [t \in S |-> {TrunkOf(t), BranchOf(t)} \cap S]

PairTx == {a, b}
PairTrunk == TrunkIn(PairTx)
PairBranch == BranchIn(PairTx)
PairParents == ParentsIn(PairTx)

DiamondTx == {a, b, c}
DiamondTrunk == TrunkIn(DiamondTx)
DiamondBranch == BranchIn(DiamondTx)
DiamondParents == ParentsIn(DiamondTx)
=============================================================================
