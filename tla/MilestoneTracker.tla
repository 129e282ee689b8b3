-------------------------- MODULE MilestoneTracker --------------------------
(***************************************************************************)
(* How milestones confirm transactions: the validator and the solidifier   *)
(* threads of the milestone tracker, the ledger validator's                *)
(* update_snapshot the solidifier calls for each milestone, the database   *)
(* both write to, and what a node rebuilds from it when it restarts.       *)
(*                                                                         *)
(* update_snapshot makes three writes in a row, each atomic on its own:    *)
(* the snapshot index of the confirmed transactions (one SQL transaction), *)
(* the delta in the milestone's row, the latest snapshot in memory.  A     *)
(* storage error or the death of the process can separate any two.         *)
(***************************************************************************)
EXTENDS LedgerValidator

CONSTANTS
    IndexOf,        \* milestone index a coordinator-address tail claims, else 0
    Signed,         \* the tails whose structure and signature are right
    BundleOf,       \* the transactions of a milestone candidate's bundle
    LastMilestone,  \* conf.last_milestone: index of the built-in snapshot
    MaxMilestone,   \* conf.coordinator_max_milestone_index
    GenesisState,   \* state of the built-in snapshot
    NoTx,           \* no transaction
    MaxCrashes,     \* bound on the crashes of a behaviour
    MaxFaults       \* bound on the storage errors of a behaviour

Candidates == {t \in Tx : IndexOf[t] # 0}

(***************************************************************************)
(* The coordinator signs one milestone per index, and each milestone       *)
(* approves, directly or not, those before it.  The node checks neither.   *)
(***************************************************************************)
ASSUME CoordinatorAssumption ==
    /\ IndexOf \in [Tx -> Nat]
    /\ Signed \subseteq Candidates
    /\ \A s, t \in Signed :
           /\ IndexOf[s] = IndexOf[t] => s = t
           /\ IndexOf[s] < IndexOf[t] => s \in Cone[t]
    /\ BundleOf \in [Tx -> SUBSET Tx]
    /\ NoTx \notin Tx

ASSUME ConfigurationAssumption ==
    /\ LastMilestone \in Nat
    /\ MaxMilestone \in Nat
    /\ MaxCrashes \in Nat
    /\ MaxFaults \in Nat
    /\ GenesisState \in [Address -> Nat]

VARIABLES
    \* the database
    stored,         \* the transactions it holds
    snapshotIndex,  \* snapshot_index in the metadata of each, 0 when not set
    rows,           \* the transactions with a row in the milestone table
    deltas,         \* the delta column of those rows, empty when NULL
    \* the memory of the node
    mode,           \* "up", "down", or "building" in ledger_validator_init
    ledger,         \* state of latest_snapshot
    ledgerIndex,    \* metadata.index of latest_snapshot
    latestMilestone,\* latest_milestone_index
    latestSolid,    \* latest_solid_milestone_index
    cursor,         \* milestone.index of build_snapshot
    arriving,       \* stored, not yet handed to the tracker
    candidates,     \* the candidates queue
    candidate,      \* what the validator thread works on
    stage,          \* where the validator thread is
    current,        \* the milestone the solidifier thread works on
    pc,             \* where the solidifier thread is
    delta,          \* the delta update_snapshot computed
    crashes, faults \* how many there have been

database  == <<stored, snapshotIndex, rows, deltas>>
snapshot  == <<ledger, ledgerIndex>>
validator == <<arriving, candidates, candidate, stage>>
solidifier == <<current, pc, delta>>
vars == <<database, mode, snapshot, latestMilestone, latestSolid, cursor,
          validator, solidifier, crashes, faults>>

Solid(t) == Cone[t] \subseteq stored

\* The transactions milestones up to index i have confirmed.
Confirmed(i) == {t \in Tx : snapshotIndex[t] # 0 /\ snapshotIndex[t] <= i}

RowsAfter(i) == {t \in rows : IndexOf[t] > i}

\* iota_tangle_milestone_load_next
LoadNext(i) ==
    CHOOSE t \in RowsAfter(i) : \A s \in RowsAfter(i) : IndexOf[t] <= IndexOf[s]
-----------------------------------------------------------------------------
Init ==
    /\ stored = {}
    /\ snapshotIndex = [t \in Tx |-> 0]
    /\ rows = {}
    /\ deltas = [t \in Tx |-> EmptyDelta]
    /\ mode = "up"
    /\ ledger = GenesisState
    /\ ledgerIndex = LastMilestone
    /\ latestMilestone = LastMilestone
    /\ latestSolid = LastMilestone
    /\ cursor = LastMilestone + 1
    /\ arriving = {}
    /\ candidates = {}
    /\ candidate = NoTx
    /\ stage = "pop"
    /\ current = NoTx
    /\ pc = "scan"
    /\ delta = EmptyDelta
    /\ crashes = 0
    /\ faults = 0

\* A storage call of the running node returns an error.
Fault ==
    /\ faults < MaxFaults
    /\ faults' = faults + 1
-----------------------------------------------------------------------------
(* The gossip pipeline and the API store transactions in any order.        *)

StoreTx(t) ==
    /\ mode = "up"
    /\ t \notin stored
    /\ stored' = stored \cup {t}
    /\ arriving' = IF t \in Candidates THEN arriving \cup {t} ELSE arriving
    /\ UNCHANGED <<snapshotIndex, rows, deltas, mode, snapshot, latestMilestone,
                   latestSolid, cursor, candidates, candidate, stage,
                   solidifier, crashes, faults>>

\* iota_milestone_tracker_add_candidate; or, after an error in
\* update_status, the early return that skips it.
AddCandidate(t) ==
    /\ mode = "up"
    /\ t \in arriving
    /\ arriving' = arriving \ {t}
    /\ \/ candidates' = candidates \cup {t} /\ UNCHANGED faults
       \/ Fault /\ UNCHANGED candidates
    /\ UNCHANGED <<database, mode, snapshot, latestMilestone, latestSolid,
                   cursor, candidate, stage, solidifier, crashes>>
-----------------------------------------------------------------------------
(* The milestone_validator thread.                                         *)

PopCandidate(t) ==
    /\ mode = "up"
    /\ stage = "pop"
    /\ t \in candidates
    /\ candidates' = candidates \ {t}
    /\ candidate' = t
    /\ stage' = "validate"
    /\ UNCHANGED <<database, mode, snapshot, latestMilestone, latestSolid,
                   cursor, arriving, solidifier, crashes, faults>>

\* iota_milestone_tracker_validate_milestone answers MILESTONE_EXISTS.
MilestoneExists(t) ==
    \/ IndexOf[t] <= latestSolid /\ latestSolid # 0
    \/ IndexOf[t] = latestMilestone /\ latestMilestone # 0
    \/ t \in rows

\* MILESTONE_EXISTS and MILESTONE_INVALID drop the candidate, and so does a
\* storage error during the validation.
ValidateDrop ==
    /\ mode = "up"
    /\ stage = "validate"
    /\ \/ /\ \/ IndexOf[candidate] >= MaxMilestone
             \/ MilestoneExists(candidate)
             \/ BundleOf[candidate] \subseteq stored /\ candidate \notin Signed
          /\ UNCHANGED faults
       \/ Fault
    /\ candidate' = NoTx
    /\ stage' = "pop"
    /\ UNCHANGED <<database, mode, snapshot, latestMilestone, latestSolid,
                   cursor, arriving, candidates, solidifier, crashes>>

\* MILESTONE_INCOMPLETE puts the candidate back in the queue.
ValidateIncomplete ==
    /\ mode = "up"
    /\ stage = "validate"
    /\ IndexOf[candidate] < MaxMilestone
    /\ ~ MilestoneExists(candidate)
    /\ ~ BundleOf[candidate] \subseteq stored
    /\ candidates' = candidates \cup {candidate}
    /\ candidate' = NoTx
    /\ stage' = "pop"
    /\ UNCHANGED <<database, mode, snapshot, latestMilestone, latestSolid,
                   cursor, arriving, solidifier, crashes, faults>>

\* A faulty variant of ValidateStore: takes the milestone unverified.
StoreUnverified ==
    /\ mode = "up"
    /\ stage = "validate"
    /\ IndexOf[candidate] < MaxMilestone
    /\ ~ MilestoneExists(candidate)
    /\ BundleOf[candidate] \subseteq stored
    /\ rows' = rows \cup {candidate}
    /\ stage' = "update"
    /\ UNCHANGED <<stored, snapshotIndex, deltas, mode, snapshot,
                   latestMilestone, latestSolid, cursor, arriving, candidates,
                   candidate, solidifier, crashes, faults>>

\* MILESTONE_VALID: iota_tangle_milestone_store, its status ignored.
ValidateStore ==
    /\ mode = "up"
    /\ stage = "validate"
    /\ IndexOf[candidate] < MaxMilestone
    /\ ~ MilestoneExists(candidate)
    /\ BundleOf[candidate] \subseteq stored
    /\ candidate \in Signed
    /\ \/ rows' = rows \cup {candidate} /\ UNCHANGED faults
       \/ Fault /\ UNCHANGED rows
    /\ stage' = "update"
    /\ UNCHANGED <<stored, snapshotIndex, deltas, mode, snapshot,
                   latestMilestone, latestSolid, cursor, arriving, candidates,
                   candidate, solidifier, crashes>>

UpdateLatest ==
    /\ mode = "up"
    /\ stage = "update"
    /\ latestMilestone' = IF IndexOf[candidate] > latestMilestone
                          THEN IndexOf[candidate] ELSE latestMilestone
    /\ candidate' = NoTx
    /\ stage' = "pop"
    /\ UNCHANGED <<database, mode, snapshot, latestSolid, cursor, arriving,
                   candidates, solidifier, crashes, faults>>
-----------------------------------------------------------------------------
(* The milestone_solidifier thread: update_latest_solid_milestone, and     *)
(* iota_consensus_ledger_validator_update_snapshot inside it.              *)

\* Loads the next milestone; milestone.index <= latest_milestone_index.
Scan ==
    /\ mode = "up"
    /\ pc = "scan"
    /\ RowsAfter(latestSolid) # {}
    /\ IndexOf[LoadNext(latestSolid)] <= latestMilestone
    /\ current' = LoadNext(latestSolid)
    /\ pc' = "check"
    /\ UNCHANGED <<database, mode, snapshot, latestMilestone, latestSolid,
                   cursor, validator, delta, crashes, faults>>

\* What get_latest_delta selects for the milestone, and the verdict on it.
NextDelta == LatestDeltaTxs(current, {}, snapshotIndex, ledgerIndex)

\* A faulty variant of Consistent: leaves out the test of the bundles.
FundsSuffice == IsConsistent(CreatePatch(ledger, ValueOf[NextDelta]))

Consistent ==
    /\ NextDelta \cap InvalidTail = {}
    /\ IsConsistent(CreatePatch(ledger, ValueOf[NextDelta]))

\* What keeps the thread from confirming the milestone in this round: its
\* past cone is not complete, it is not the next index, its cone holds an
\* invalid bundle or a spend the ledger has no funds for.
CheckFails ==
    /\ mode = "up"
    /\ pc = "check"
    /\ \/ ~ Solid(current)
       \/ IndexOf[current] # latestSolid + 1
       \/ snapshotIndex[current] = 0 /\ ~ Consistent
    /\ current' = NoTx
    /\ pc' = "scan"
    /\ UNCHANGED <<database, mode, snapshot, latestMilestone, latestSolid,
                   cursor, validator, delta, crashes, faults>>

\* A milestone that already carries a snapshot index is not applied again.
AlreadyConfirmed ==
    /\ mode = "up"
    /\ pc = "check"
    /\ Solid(current)
    /\ IndexOf[current] = latestSolid + 1
    /\ snapshotIndex[current] # 0
    /\ pc' = "advance"
    /\ UNCHANGED <<database, mode, snapshot, latestMilestone, latestSolid,
                   cursor, validator, current, delta, crashes, faults>>

\* get_latest_delta and create_patch.
GetLatestDelta ==
    /\ mode = "up"
    /\ pc = "check"
    /\ Solid(current)
    /\ IndexOf[current] = latestSolid + 1
    /\ snapshotIndex[current] = 0
    /\ Consistent
    /\ delta' = ValueOf[NextDelta]
    /\ pc' = "mark"
    /\ UNCHANGED <<database, mode, snapshot, latestMilestone, latestSolid,
                   cursor, validator, current, crashes, faults>>

\* An error of a storage call of update_snapshot abandons the round.
Abandon ==
    /\ Fault
    /\ current' = NoTx
    /\ delta' = EmptyDelta
    /\ pc' = "scan"

\* update_snapshot_milestone, one SQL transaction.
MarkConfirmed ==
    /\ mode = "up"
    /\ pc = "mark"
    /\ \/ /\ snapshotIndex' =
               [t \in Tx |-> IF t \in MilestoneTxs(current, snapshotIndex)
                             THEN IndexOf[current] ELSE snapshotIndex[t]]
          /\ pc' = "store"
          /\ UNCHANGED <<current, delta, faults>>
       \/ Abandon /\ UNCHANGED snapshotIndex
    /\ UNCHANGED <<stored, rows, deltas, mode, snapshot, latestMilestone,
                   latestSolid, cursor, validator, crashes>>

\* A faulty variant of StoreDelta: carries on after a storage error.
StoreDeltaUnchecked ==
    /\ mode = "up"
    /\ pc = "store"
    /\ \/ /\ deltas' = IF DeltaEmpty(delta) THEN deltas
                       ELSE [deltas EXCEPT ![current] = delta]
          /\ UNCHANGED faults
       \/ Fault /\ UNCHANGED deltas
    /\ pc' = "apply"
    /\ UNCHANGED <<stored, snapshotIndex, rows, mode, snapshot, latestMilestone,
                   latestSolid, cursor, validator, current, delta, crashes>>

\* iota_tangle_state_delta_store, skipped for an empty delta.
StoreDelta ==
    /\ mode = "up"
    /\ pc = "store"
    /\ \/ /\ deltas' = IF DeltaEmpty(delta) THEN deltas
                       ELSE [deltas EXCEPT ![current] = delta]
          /\ pc' = "apply"
          /\ UNCHANGED <<current, delta, faults>>
       \/ ~ DeltaEmpty(delta) /\ Abandon /\ UNCHANGED deltas
    /\ UNCHANGED <<stored, snapshotIndex, rows, mode, snapshot, latestMilestone,
                   latestSolid, cursor, validator, crashes>>

\* iota_snapshot_apply_patch.
ApplyDelta ==
    /\ mode = "up"
    /\ pc = "apply"
    /\ DeltaSum(delta) = 0
    /\ ledger' = ApplyPatch(ledger, delta)
    /\ ledgerIndex' = IndexOf[current]
    /\ delta' = EmptyDelta
    /\ pc' = "advance"
    /\ UNCHANGED <<database, mode, latestMilestone, latestSolid, cursor,
                   validator, current, crashes, faults>>

\* has_snapshot: the milestone becomes the latest solid one.
Advance ==
    /\ mode = "up"
    /\ pc = "advance"
    /\ latestSolid' = IndexOf[current]
    /\ current' = NoTx
    /\ pc' = "scan"
    /\ UNCHANGED <<database, mode, snapshot, latestMilestone, cursor, validator,
                   delta, crashes, faults>>
-----------------------------------------------------------------------------
(* The death of the process, which leaves the database, and its restart.   *)

Crash ==
    /\ mode # "down"
    /\ crashes < MaxCrashes
    /\ crashes' = crashes + 1
    /\ mode' = "down"
    /\ arriving' = {}
    /\ candidates' = {}
    /\ candidate' = NoTx
    /\ stage' = "pop"
    /\ current' = NoTx
    /\ pc' = "scan"
    /\ delta' = EmptyDelta
    /\ UNCHANGED <<database, snapshot, latestMilestone, latestSolid, cursor,
                   faults>>

\* iota_snapshots_provider_init and iota_milestone_tracker_init.
Restart ==
    /\ mode = "down"
    /\ mode' = "building"
    /\ ledger' = GenesisState
    /\ ledgerIndex' = LastMilestone
    /\ latestMilestone' = LastMilestone
    /\ latestSolid' = LastMilestone
    /\ cursor' = LastMilestone + 1
    /\ UNCHANGED <<database, validator, solidifier, crashes, faults>>

RowAt(i) == {t \in rows : IndexOf[t] = i}

\* One iteration of build_snapshot.
BuildStep(t) ==
    /\ mode = "building"
    /\ t \in RowAt(cursor)
    /\ IF DeltaEmpty(deltas[t])
       THEN UNCHANGED <<snapshot, latestSolid>>
       ELSE /\ IsConsistent(CreatePatch(ledger, deltas[t]))
            /\ DeltaSum(deltas[t]) = 0
            /\ ledger' = ApplyPatch(ledger, deltas[t])
            /\ ledgerIndex' = cursor
            /\ latestSolid' = cursor
    /\ cursor' = cursor + 1
    /\ UNCHANGED <<database, mode, latestMilestone, validator, solidifier,
                   crashes, faults>>

\* A faulty variant of Start: forgets the candidates stored before the crash.
StartForgetful ==
    /\ mode = "building"
    /\ RowAt(cursor) = {}
    /\ mode' = "up"
    /\ latestMilestone' =
           IF rows = {} THEN latestMilestone
           ELSE CHOOSE i \in {IndexOf[t] : t \in rows} \cup {ledgerIndex} :
                    \A t \in rows : i >= IndexOf[t] /\ i >= ledgerIndex
    /\ UNCHANGED <<database, snapshot, latestSolid, cursor, validator,
                   solidifier, crashes, faults>>

\* The end of build_snapshot, and iota_milestone_tracker_start.
Start ==
    /\ mode = "building"
    /\ RowAt(cursor) = {}
    /\ mode' = "up"
    /\ latestMilestone' =
           IF rows = {} THEN latestMilestone
           ELSE CHOOSE i \in {IndexOf[t] : t \in rows} \cup {ledgerIndex} :
                    \A t \in rows : i >= IndexOf[t] /\ i >= ledgerIndex
    /\ candidates' = (Candidates \cap stored) \ rows
    /\ UNCHANGED <<database, snapshot, latestSolid, cursor, arriving, candidate,
                   stage, solidifier, crashes, faults>>
-----------------------------------------------------------------------------
Validator ==
    \/ \E t \in Tx : PopCandidate(t)
    \/ ValidateDrop \/ ValidateIncomplete \/ ValidateStore \/ UpdateLatest

Solidifier ==
    \/ Scan \/ CheckFails \/ AlreadyConfirmed \/ GetLatestDelta
    \/ MarkConfirmed \/ StoreDelta \/ ApplyDelta \/ Advance

Reboot == Restart \/ (\E t \in Tx : BuildStep(t)) \/ Start

Next ==
    \/ \E t \in Tx : StoreTx(t) \/ AddCandidate(t)
    \/ Validator
    \/ Solidifier
    \/ Crash
    \/ Reboot

Spec == Init /\ [][Next]_vars

(***************************************************************************)
(* The threads run as long as the process does, a dead process is started  *)
(* again, and gossip eventually brings every transaction (the requester    *)
(* asks for the missing ones).                                             *)
(***************************************************************************)
FairSpec ==
    /\ Spec
    /\ \A t \in Tx : WF_vars(StoreTx(t)) /\ WF_vars(AddCandidate(t))
    /\ \A t \in Tx : SF_vars(PopCandidate(t))
    /\ WF_vars(Validator)
    /\ WF_vars(Solidifier)
    /\ WF_vars(Reboot)
-----------------------------------------------------------------------------
\* What the database and the two threads hold: only signed milestones have a
\* row (iota_milestone_tracker_validate_milestone).
TypeOK ==
    /\ stored \subseteq Tx
    /\ snapshotIndex \in [Tx -> Nat]
    /\ rows \subseteq Signed
    /\ deltas \in [Tx -> Delta]
    /\ mode \in {"up", "down", "building"}
    /\ ledger \in Delta
    /\ ledgerIndex \in Nat
    /\ latestMilestone \in Nat
    /\ latestSolid \in Nat
    /\ cursor \in Nat
    /\ arriving \subseteq Candidates
    /\ candidates \subseteq Candidates
    /\ candidate \in Candidates \cup {NoTx}
    /\ stage \in {"pop", "validate", "update"}
    /\ stage # "pop" => candidate \in Candidates
    /\ current \in Signed \cup {NoTx}
    /\ pc \in {"scan", "check", "mark", "store", "apply", "advance"}
    /\ pc # "scan" => current \in Signed
    /\ delta \in Delta
    /\ crashes \in Nat
    /\ faults \in Nat

(***************************************************************************)
(* The latest snapshot is the initial one plus the value of exactly the    *)
(* transactions confirmed up to its index, however crashes and storage     *)
(* errors have separated the writes of update_snapshot.                    *)
(***************************************************************************)
LedgerMatchesConfirmed ==
    ledger = ApplyPatch(GenesisState, ValueOf[Confirmed(ledgerIndex)])

(***************************************************************************)
(* No address is overdrawn and the supply is what it was at the start      *)
(* (is_consistent before, and the zero-sum test in, apply_patch).          *)
(***************************************************************************)
SupplyConserved ==
    /\ \A a \in Address : ledger[a] >= 0
    /\ DeltaSum(ledger) = DeltaSum(GenesisState)

(***************************************************************************)
(* build_snapshot never meets a delta it has to reject: whatever the       *)
(* moment of the crash, the stored deltas replay from the initial snapshot *)
(* without RC_LEDGER_VALIDATOR_INCONSISTENT_DELTA, so the node starts.     *)
(***************************************************************************)
RebuildSucceeds ==
    mode = "building" =>
        \A t \in RowAt(cursor) :
            /\ IsConsistent(CreatePatch(ledger, deltas[t]))
            /\ DeltaSum(deltas[t]) = 0

(***************************************************************************)
(* The inductive invariant behind the three properties above.              *)
(*                                                                         *)
(* Marks: confirmation is past-closed and every snapshot index is that of  *)
(* a milestone which carries it itself.  Chain: the stored deltas lead     *)
(* from one DeltaPoint to the next, and no milestone below a confirmed one *)
(* lacks a row, so that build_snapshot finds them all.  Memory: what the   *)
(* latest snapshot lacks is what the solidifier is about to add to it.     *)
(***************************************************************************)
DeltaRows == {t \in Tx : ~ DeltaEmpty(deltas[t])}

DeltaPoints == {LastMilestone} \cup {IndexOf[m] : m \in DeltaRows}

StateAt(i) == ApplyPatch(GenesisState, ValueOf[Confirmed(i)])

HasRows(i) == \A j \in (LastMilestone + 1) .. i : RowAt(j) # {}

MarksInv ==
    \A t \in Tx : snapshotIndex[t] # 0 =>
        /\ t \notin InvalidTail
        /\ \A p \in Parents[t] : snapshotIndex[p] \in 1 .. snapshotIndex[t]
        /\ \E m \in rows : /\ IndexOf[m] = snapshotIndex[t]
                           /\ snapshotIndex[m] = snapshotIndex[t]
                           /\ t \in Cone[m]

ChainInv ==
    /\ \A m \in rows :
           /\ IndexOf[m] > LastMilestone
           /\ snapshotIndex[m] = IndexOf[m] => HasRows(IndexOf[m])
    /\ DeltaRows \subseteq rows
    /\ \A m \in DeltaRows :
           /\ snapshotIndex[m] = IndexOf[m]
           /\ DeltaSum(deltas[m]) = 0
           /\ \A a \in Address : StateAt(IndexOf[m])[a] >= 0
           /\ \A i \in DeltaPoints :
                  i < IndexOf[m] /\ (\A p \in DeltaPoints : p <= i \/ p >= IndexOf[m])
                  => StateAt(IndexOf[m]) = ApplyPatch(StateAt(i), deltas[m])

MemoryInv ==
    /\ ledger = StateAt(ledgerIndex)
    /\ \A a \in Address : ledger[a] >= 0
    /\ LastMilestone <= ledgerIndex
    /\ LastMilestone <= latestSolid
    /\ HasRows(latestSolid)
    /\ \/ mode = "down"
       \/ ledgerIndex <= latestSolid
       \/ pc = "advance" /\ ledgerIndex = IndexOf[current]
    /\ mode # "up" => pc = "scan" /\ current = NoTx
    /\ mode = "up" =>
          \A p \in DeltaPoints : (\A q \in DeltaPoints : q <= p) =>
              StateAt(p) = IF pc = "apply" THEN ApplyPatch(ledger, delta) ELSE ledger
    /\ mode = "building" =>
          /\ ledgerIndex \in DeltaPoints
          /\ ledgerIndex < cursor
          /\ \A p \in DeltaPoints : p <= ledgerIndex \/ p >= cursor
          /\ HasRows(cursor - 1)

SolidifierInv ==
    /\ current # NoTx => current \in rows
    /\ pc \in {"mark", "store", "apply", "advance"} => IndexOf[current] = latestSolid + 1
    /\ pc = "mark" =>
          /\ snapshotIndex[current] = 0
          /\ (Cone[current] \ Confirmed(ledgerIndex)) \cap InvalidTail = {}
          /\ delta = ValueOf[Cone[current] \ Confirmed(ledgerIndex)]
    /\ pc \in {"store", "apply"} =>
          /\ snapshotIndex[current] = IndexOf[current]
          /\ \A t \in Tx : snapshotIndex[t] <= IndexOf[current]
          /\ StateAt(IndexOf[current]) = ApplyPatch(ledger, delta)
    /\ pc = "store" => DeltaEmpty(deltas[current])
    /\ pc \in {"mark", "store", "apply"} =>
          DeltaSum(delta) = 0 /\ \A a \in Address : ledger[a] + delta[a] >= 0

ConfirmationInv == MarksInv /\ ChainInv /\ MemoryInv /\ SolidifierInv

(***************************************************************************)
(* What a read-locked caller of update_delta computes for a solid tip is   *)
(* the ledger in which everything confirmed and everything in the tip's    *)
(* past cone is applied once: also between the writes of update_snapshot,  *)
(* and while latest_snapshot lags behind the confirmed transactions.       *)
(***************************************************************************)
TipViewIsExact ==
    mode = "up" =>
        \A t \in stored :
            Solid(t) =>
                ApplyPatch(ledger, ValueOf[LatestDeltaTxs(t, {}, snapshotIndex,
                                                          ledgerIndex)])
                = ApplyPatch(GenesisState,
                             ValueOf[Confirmed(ledgerIndex) \cup Cone[t]])

(***************************************************************************)
(* checkConsistency answers true only for tails that can all be applied to *)
(* the latest snapshot together.  Stated by api.h ("False is returned if:  *)
(* ... Tails would lead to inconsistent ledger"), and not what the code    *)
(* does: state_delta_merge_patch keeps an entry of the walk's delta that   *)
(* the next tail cancels.                                                  *)
(***************************************************************************)
CheckConsistencyIsSound ==
    mode = "up" =>
        \A t1, t2, t3 \in {t \in stored : Solid(t)} :
            CheckConsistency(<<t1, t2, t3>>, snapshotIndex, ledger, ledgerIndex)
            => \A a \in Address :
                   GenesisState[a] + ValueOf[Confirmed(ledgerIndex) \cup Cone[t1]
                                            \cup Cone[t2] \cup Cone[t3]][a] >= 0

(***************************************************************************)
(* The same for a request with two tails, where it holds: the cancelled    *)
(* entry is wrong only for the tail after next.                            *)
(***************************************************************************)
CheckConsistencyOfPairs ==
    mode = "up" =>
        \A t1, t2 \in {t \in stored : Solid(t)} :
            CheckConsistency(<<t1, t2>>, snapshotIndex, ledger, ledgerIndex)
            <=> \A S \in {Cone[t1], Cone[t1] \cup Cone[t2]} :
                   /\ \A a \in Address :
                         GenesisState[a]
                            + ValueOf[Confirmed(ledgerIndex) \cup S][a] >= 0
                   /\ (S \ Confirmed(ledgerIndex)) \cap InvalidTail = {}

\* No milestone confirms a transaction whose bundle is invalid.
InvalidNeverConfirmed ==
    \A t \in InvalidTail : snapshotIndex[t] = 0

\* Confirmation is final: a snapshot index, once written, never changes.
ConfirmationIsFinal ==
    [][\A t \in Tx : snapshotIndex[t] # 0
                        => snapshotIndex'[t] = snapshotIndex[t]]_vars

(***************************************************************************)
(* While latest_snapshot does not change, no other step changes the set of *)
(* transactions get_latest_delta selects for a solid tip.  A traversal     *)
(* under the read lock therefore sees one ledger, although the solidifier  *)
(* thread rewrites snapshot indexes under it.                              *)
(***************************************************************************)
ReadersSeeOneLedger ==
    [][snapshotIndex' # snapshotIndex /\ UNCHANGED snapshot =>
         \A t \in stored :
             Solid(t) => LatestDeltaTxs(t, {}, snapshotIndex', ledgerIndex)
                         = LatestDeltaTxs(t, {}, snapshotIndex, ledgerIndex)]_vars

(***************************************************************************)
(* In a behaviour without storage errors every milestone of the            *)
(* coordinator, each of which the ledger can take, becomes the latest      *)
(* solid milestone in the end, across crashes and restarts.                *)
(***************************************************************************)
MilestonesSolidify ==
    [](faults = 0) => \A t \in Signed : <>[](latestSolid >= IndexOf[t])
=============================================================================
