-------------------------- MODULE LedgerValidator ---------------------------
(***************************************************************************)
(* What the ledger validator computes from the tangle and from the         *)
(* snapshot index each transaction carries in the database: the delta a    *)
(* tip adds to the latest snapshot, the transactions a milestone confirms, *)
(* and the running delta of a walk over several tips.                      *)
(*                                                                         *)
(* The value of a bundle counts at its tail, where the traversal loads and *)
(* validates the bundle; Value[t] is the delta of the whole bundle when t  *)
(* is a tail and empty otherwise.                                          *)
(***************************************************************************)
EXTENDS Tangle, Integers, Functions, SequencesExt

CONSTANTS
    Address,
    Value,         \* what the bundle with a given tail adds to the ledger
    InvalidTail    \* the tails whose bundle is not BUNDLE_VALID

ASSUME AddressAssumption == IsFiniteSet(Address)
-----------------------------------------------------------------------------
(* Ledger states and the differences between them (state_delta.c): a map   *)
(* from addresses to signed values.  An address the C hash map does not    *)
(* hold has the value 0 here: the operations below never leave an entry    *)
(* with value 0 behind, and a missing entry is read as 0.                  *)

Delta == [Address -> Int]

\* The empty map.
EmptyDelta == [a \in Address |-> 0]

\* state_delta_empty
DeltaEmpty(delta) == delta = EmptyDelta

\* state_delta_sum
DeltaSum(delta) == SumFunctionOnSet(delta, Address)

\* state_delta_create_patch: the new values of the addresses delta changes.
CreatePatch(state, delta) ==
    [a \in {b \in Address : delta[b] # 0} |-> state[a] + delta[a]]

\* state_delta_is_consistent
IsConsistent(patch) == \A a \in DOMAIN patch : patch[a] >= 0

\* state_delta_merge_patch: state_delta_add_or_replace of every entry.  An
\* address that is not in the patch keeps its value.
MergePatch(state, patch) ==
    [a \in Address |-> IF patch[a] # 0 THEN patch[a] ELSE state[a]]

\* state_delta_apply_patch: state_delta_add_or_sum of every entry.
ApplyPatch(state, patch) == [a \in Address |-> state[a] + patch[a]]
-----------------------------------------------------------------------------
ASSUME LedgerValidatorAssumption ==
    /\ Value \in [Tx -> Delta]
    /\ InvalidTail \subseteq Tx
    /\ \A t \in Tx \ InvalidTail : DeltaSum(Value[t]) = 0

\* The accumulated state_delta_add_or_sum of the bundles with a tail in S.
ValueOf ==
    [S \in SUBSET Tx |->
        [a \in Address |-> SumFunctionOnSet([t \in Tx |-> Value[t][a]], S)]]

\* A faulty variant of NotInSnapshot: off by one at the index of the snapshot.
NotBelowSnapshot(snapshotIndex, index) ==
    {t \in Tx : snapshotIndex[t] = 0 \/ snapshotIndex[t] >= index}

\* get_latest_delta_do_func branches on a transaction that the latest
\* snapshot does not contain.
NotInSnapshot(snapshotIndex, index) ==
    {t \in Tx : snapshotIndex[t] = 0 \/ snapshotIndex[t] > index}

\* get_latest_delta: the transactions whose value it accumulates.
LatestDeltaTxs(tip, analyzed, snapshotIndex, index) ==
    DfsToPast[tip][NotInSnapshot(snapshotIndex, index) \ analyzed]

\* What a traversal that branched on txs adds to its analyzed set: every
\* transaction it popped, branched on or not.
Visited(tip, txs) == {tip} \cup txs \cup UNION {Parents[t] : t \in txs}

\* A faulty variant of MilestoneTxs: marks the whole past cone again.
WholeCone(milestone, snapshotIndex) ==
    Cone[milestone]

\* update_snapshot_milestone branches on, and marks, the transactions that
\* no milestone has confirmed yet.
MilestoneTxs(milestone, snapshotIndex) ==
    DfsToPast[milestone][{t \in Tx : snapshotIndex[t] = 0}]

\* A faulty variant of UpdateDelta: judges each tip without the tips before.
TipByItself(walk, tip, snapshotIndex, ledger, index) ==
    LET txs == LatestDeltaTxs(tip, walk.analyzed, snapshotIndex, index)
    IN  [walk EXCEPT !.consistent =
            /\ txs \cap InvalidTail = {}
            /\ IsConsistent(CreatePatch(ledger, ValueOf[txs]))]

(***************************************************************************)
(* iota_consensus_ledger_validator_update_delta for a solid tip: walk is   *)
(* the pair <<analyzed_hashes, delta>> the caller carries from one tip to  *)
(* the next, with the verdict on the last one.                             *)
(***************************************************************************)
UpdateDelta(walk, tip, snapshotIndex, ledger, index) ==
    LET txs      == LatestDeltaTxs(tip, walk.analyzed, snapshotIndex, index)
        tipState == ApplyPatch(ValueOf[txs], walk.delta)
    IN  IF tip \in walk.analyzed
        THEN [walk EXCEPT !.consistent = TRUE]
        ELSE IF /\ txs \cap InvalidTail = {}
                /\ IsConsistent(CreatePatch(ledger, tipState))
             THEN [analyzed   |-> walk.analyzed \cup Visited(tip, txs),
                   delta      |-> MergePatch(walk.delta, tipState),
                   consistent |-> TRUE]
             ELSE [walk EXCEPT !.consistent = FALSE]

\* The state of a walk before its first tip.
EmptyWalk == [analyzed |-> {}, delta |-> EmptyDelta, consistent |-> TRUE]

\* iota_consensus_ledger_validator_check_consistency: one walk over the tips,
\* given up at the first inconsistent one.
CheckConsistency(tips, snapshotIndex, ledger, index) ==
    FoldLeft(LAMBDA walk, tip :
                 IF walk.consistent
                 THEN UpdateDelta(walk, tip, snapshotIndex, ledger, index)
                 ELSE walk,
             EmptyWalk, tips).consistent
=============================================================================
