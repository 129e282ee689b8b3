------------------------- MODULE MCMilestoneTracker -------------------------
(***************************************************************************)
(* Three milestones over three transfers.  The first two transfers cancel  *)
(* each other out, so a delta that spans both is empty.  The bundle of m2  *)
(* has a second transaction, head; bad, approved by m2, is the tail of an  *)
(* invalid bundle and claims index 2; again spends once more what a2       *)
(* spends.                                                                 *)
(***************************************************************************)
EXTENDS MilestoneTracker

CONSTANTS x, y, a1, a2, a3, again, bad, m1, m2, m3, head

MCAddress == {x, y}

ParentsIn(S) ==
    [t \in S |-> S \cap CASE t = m1 -> {a1}
                          [] t = a2 -> {a1}
                          [] t = head -> {a2, m1}
                          [] t = m2 -> {head, a2, m1, bad}
                          [] t = m3 -> {m2, a3}
                          [] OTHER -> {}]

Move(n) == [a \in MCAddress |-> IF a = x THEN -n ELSE n]

ValueIn(S) ==
    [t \in S |-> CASE t = a1 -> Move(2)
                   [] t \in {a2, again} -> Move(-2)
                   [] t = a3 -> Move(1)
                   [] OTHER -> Move(0)]

IndexIn(S) == [t \in S |-> CASE t = m1 -> 1
                             [] t \in {m2, bad} -> 2
                             [] t = m3 -> 3
                             [] OTHER -> 0]

BundleIn(S) == [t \in S |-> S \cap (IF t = m2 THEN {m2, head} ELSE {t})]

MCGenesisState == [a \in MCAddress |-> IF a = x THEN 2 ELSE 0]

\* Three milestones the ledger can take.
ChainTx == {a1, a2, a3, m1, m2, m3}
ChainParents == ParentsIn(ChainTx)
ChainValue == ValueIn(ChainTx)
ChainIndexOf == IndexIn(ChainTx)
ChainBundleOf == BundleIn(ChainTx)
ChainSigned == {m1, m2, m3}
ChainInvalidTail == {}

\* A second milestone that arrives in two parts and approves the tail of an
\* invalid bundle, which itself claims to be a milestone, and a transfer
\* that spends the funds of the first one.
RejectTx == {a1, a2, a3, m1, m2, head, bad}
RejectParents == ParentsIn(RejectTx)
RejectValue == ValueIn(RejectTx)
RejectIndexOf == IndexIn(RejectTx)
RejectBundleOf == BundleIn(RejectTx)
RejectSigned == {m1, m2}
RejectInvalidTail == {bad}

\* Transfers only.
TransferTx == {a1, a2, a3, again}
TransferParents == ParentsIn(TransferTx)
TransferValue == ValueIn(TransferTx)
TransferIndexOf == IndexIn(TransferTx)
TransferBundleOf == BundleIn(TransferTx)
TransferSigned == {}
=============================================================================
