------------------------------- MODULE Tangle -------------------------------
(***************************************************************************)
(* The tangle: a graph of transactions, each approving a trunk and a       *)
(* branch, and the traversal every consensus component is written with.    *)
(*                                                                         *)
(* Parents[t] is {trunk, branch} of t without the genesis hash, which      *)
(* tangle_traversal_dfs_to_past puts in the analyzed set before it starts. *)
(***************************************************************************)
EXTENDS FiniteSets

CONSTANTS
    Tx,       \* every transaction that can ever be received
    Parents   \* trunk and branch of a transaction

ASSUME TangleAssumption ==
    /\ IsFiniteSet(Tx)
    /\ Parents \in [Tx -> SUBSET Tx]

(***************************************************************************)
(* tangle_traversal_dfs_to_past from entry, for a functor that branches      *)
(* exactly on the transactions of Branch (and for an analyzed set disjoint *)
(* from Branch): the transactions the functor branched on.  The stack      *)
(* discipline only fixes their order; as a set they are the least subset   *)
(* of Branch that holds the entry point and the parents, inside Branch, of *)
(* its members.                                                            *)
(***************************************************************************)
WalkClosed(S, entry, Branch) ==
    /\ entry \in Branch => entry \in S
    /\ \A t \in S : Parents[t] \cap Branch \subseteq S

DfsToPast ==
    [entry \in Tx |-> [Branch \in SUBSET Tx |->
        {t \in Branch : \A S \in SUBSET Branch :
                            WalkClosed(S, entry, Branch) => t \in S}]]

\* The past cone of a transaction, the transaction included.
Cone == [t \in Tx |-> DfsToPast[t][Tx]]

\* A set of transactions no parent of which is outside the set.
PastClosed(S) == \A t \in S : Parents[t] \subseteq S
=============================================================================
