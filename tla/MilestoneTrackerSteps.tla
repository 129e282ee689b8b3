----------------------- MODULE MilestoneTrackerSteps ------------------------
(***************************************************************************)
(* Proofs about MilestoneTracker, for every tangle, every ledger, every    *)
(* number of crashes and of storage errors: type correctness, and that the *)
(* steps up to the marking of a milestone's cone keep ConfirmationInv.     *)
(* MilestoneTrackerProofs has the other steps and the theorems.            *)
(***************************************************************************)
EXTENDS MilestoneTracker, LedgerValidatorProofs

USE CoordinatorAssumption, ConfigurationAssumption, ZenonT(10), SMTT(60)

LEMMA GenesisType == GenesisState \in Delta
  BY DEF Delta

LEMMA SignedInTx == Signed \subseteq Tx
  BY DEF Candidates

LEMMA IndexInt == IndexOf \in [Tx -> Int]
  OBVIOUS

\* iota_tangle_milestone_load_next returns a row after the given index.
LEMMA LoadNextRow ==
    ASSUME rows \subseteq Signed, NEW i \in Nat, RowsAfter(i) # {}
    PROVE  LoadNext(i) \in rows
<1>1. RowsAfter(i) \in SUBSET Tx
  BY SignedInTx DEF RowsAfter
<1>2. \E t \in RowsAfter(i) : \A s \in RowsAfter(i) : IndexOf[t] <= IndexOf[s]
  BY <1>1, IndexInt, TangleAssumption, LeastValue
<1>3. LoadNext(i) \in RowsAfter(i)
  BY <1>2 DEF LoadNext
<1> QED
  BY <1>3 DEF RowsAfter

LEMMA LatestRow ==
    ASSUME rows \subseteq Signed, rows # {}, ledgerIndex \in Nat
    PROVE  \E i \in {IndexOf[t] : t \in rows} \cup {ledgerIndex} :
                \A t \in rows : i >= IndexOf[t] /\ i >= ledgerIndex
<1>1. PICK t \in rows : \A s \in rows : IndexOf[s] <= IndexOf[t]
  BY SignedInTx, IndexInt, TangleAssumption, GreatestValue
<1>2. \A s \in rows : IndexOf[s] \in Nat
  BY SignedInTx
<1>3. CASE IndexOf[t] >= ledgerIndex
  BY <1>1, <1>2, <1>3
<1>4. CASE IndexOf[t] < ledgerIndex
  BY <1>1, <1>2, <1>4
<1> QED
  BY <1>2, <1>3, <1>4
-----------------------------------------------------------------------------
(***************************************************************************)
(* Type correctness.  Beyond the types it says that both threads only work *)
(* on candidates and milestones, never on what is not one.                 *)
(***************************************************************************)
LEMMA InitType == Init => TypeOK
  BY GenesisType, EmptyType DEF Init, TypeOK, Candidates

LEMMA NextType == TypeOK /\ [Next]_vars => TypeOK'
<1> SUFFICES ASSUME TypeOK, [Next]_vars PROVE TypeOK'
  OBVIOUS
<1> USE DEF vars, database, snapshot, validator, solidifier
<1>1. ASSUME NEW t \in Tx, StoreTx(t) PROVE TypeOK'
  BY <1>1 DEF StoreTx, TypeOK, Candidates
<1>2. ASSUME NEW t \in Tx, AddCandidate(t) PROVE TypeOK'
  BY <1>2 DEF AddCandidate, TypeOK, Fault
<1>3. ASSUME NEW t \in Tx, PopCandidate(t) PROVE TypeOK'
  BY <1>3 DEF PopCandidate, TypeOK
<1>4. CASE ValidateDrop
  BY <1>4 DEF ValidateDrop, TypeOK, Fault
<1>5. CASE ValidateIncomplete
  BY <1>5 DEF ValidateIncomplete, TypeOK
<1>6. CASE ValidateStore
  BY <1>6 DEF ValidateStore, TypeOK, Fault
<1>7. CASE UpdateLatest
  BY <1>7 DEF UpdateLatest, TypeOK, Candidates
<1>8. CASE Scan
  <2>1. LoadNext(latestSolid) \in Signed
    BY <1>8, LoadNextRow DEF Scan, TypeOK
  <2> QED
    BY <1>8, <2>1 DEF Scan, TypeOK
<1>9. CASE CheckFails
  BY <1>9 DEF CheckFails, TypeOK
<1>10. CASE AlreadyConfirmed
  BY <1>10 DEF AlreadyConfirmed, TypeOK
<1>11. CASE GetLatestDelta
  <2>1. NextDelta \in SUBSET Tx
    <3>1. current \in Tx /\ NotInSnapshot(snapshotIndex, ledgerIndex) \ {} \in SUBSET Tx
      BY <1>11, SignedInTx DEF GetLatestDelta, TypeOK, NotInSnapshot
    <3> QED
      BY <3>1, WalkReach DEF NextDelta, LatestDeltaTxs
  <2> QED
    BY <1>11, <2>1, ValueOfType DEF GetLatestDelta, TypeOK
<1>12. CASE MarkConfirmed
  <2>1. IndexOf[current] \in Nat
    BY <1>12, SignedInTx DEF MarkConfirmed, TypeOK
  <2> QED
    BY <1>12, <2>1, EmptyType DEF MarkConfirmed, TypeOK, Abandon, Fault
<1>13. CASE StoreDelta
  BY <1>13, EmptyType DEF StoreDelta, TypeOK, Abandon, Fault
<1>14. CASE ApplyDelta
  <2>1. ApplyPatch(ledger, delta) \in Delta /\ IndexOf[current] \in Nat
    BY <1>14, SignedInTx, PatchType DEF ApplyDelta, TypeOK
  <2> QED
    BY <1>14, <2>1, EmptyType DEF ApplyDelta, TypeOK
<1>15. CASE Advance
  BY <1>15, SignedInTx DEF Advance, TypeOK
<1>16. CASE Crash
  BY <1>16, EmptyType DEF Crash, TypeOK
<1>17. CASE Restart
  BY <1>17, GenesisType DEF Restart, TypeOK
<1>18. ASSUME NEW t \in Tx, BuildStep(t) PROVE TypeOK'
  <2>1. ApplyPatch(ledger, deltas[t]) \in Delta
    BY <1>18, PatchType DEF BuildStep, TypeOK
  <2> QED
    BY <1>18, <2>1 DEF BuildStep, TypeOK
<1>19. CASE Start
  <2>1. latestMilestone' \in Nat
    <3>1. CASE rows = {}
      BY <1>19, <3>1 DEF Start, TypeOK
    <3>2. CASE rows # {}
      <4>1. {IndexOf[t] : t \in rows} \cup {ledgerIndex} \subseteq Nat
        BY SignedInTx DEF TypeOK
      <4>2. latestMilestone' \in {IndexOf[t] : t \in rows} \cup {ledgerIndex}
        BY <1>19, <3>2, LatestRow DEF Start, TypeOK
      <4> QED BY <4>1, <4>2
    <3> QED BY <3>1, <3>2
  <2> QED
    BY <1>19, <2>1 DEF Start, TypeOK, Candidates
<1>20. CASE UNCHANGED vars
  BY <1>20 DEF TypeOK
<1> QED
  BY <1>1, <1>2, <1>3, <1>4, <1>5, <1>6, <1>7, <1>8, <1>9, <1>10, <1>11, <1>12,
     <1>13, <1>14, <1>15, <1>16, <1>17, <1>18, <1>19, <1>20
     DEF Next, Validator, Solidifier, Reboot

THEOREM TypeCorrect == Spec => []TypeOK
  BY InitType, NextType, PTL DEF Spec
-----------------------------------------------------------------------------
(* What the invariant says about confirmed transactions.                   *)

LEMMA ConfirmedClosed ==
    ASSUME TypeOK, MarksInv, NEW i \in Nat
    PROVE  Confirmed(i) \in SUBSET Tx /\ PastClosed(Confirmed(i))
<1>1. Confirmed(i) \in SUBSET Tx
  BY DEF Confirmed
<1>2. ASSUME NEW t \in Confirmed(i), NEW p \in Parents[t] PROVE p \in Confirmed(i)
  <2>1. /\ t \in Tx /\ p \in Tx /\ snapshotIndex[t] \in Nat /\ snapshotIndex[p] \in Nat
        /\ snapshotIndex[t] # 0 /\ snapshotIndex[t] <= i
    BY <1>2, TangleAssumption DEF Confirmed, TypeOK
  <2>2. snapshotIndex[p] \in 1 .. snapshotIndex[t]
    BY <1>2, <2>1 DEF MarksInv
  <2> QED
    BY <2>1, <2>2 DEF Confirmed
<1> QED
  BY <1>1, <1>2 DEF PastClosed

LEMMA MarkedClosed ==
    ASSUME TypeOK, MarksInv
    PROVE  PastClosed({t \in Tx : snapshotIndex[t] # 0})
<1> SUFFICES ASSUME NEW t \in Tx, snapshotIndex[t] # 0, NEW p \in Parents[t]
             PROVE  p \in Tx /\ snapshotIndex[p] # 0
  BY DEF PastClosed
<1>1. snapshotIndex[p] \in 1 .. snapshotIndex[t] /\ snapshotIndex[t] \in Nat
  BY DEF MarksInv, TypeOK
<1> QED
  BY <1>1, TangleAssumption

LEMMA StateAtType ==
    ASSUME NEW i PROVE StateAt(i) \in Delta
<1>1. Confirmed(i) \in SUBSET Tx
  BY DEF Confirmed
<1> QED
  BY <1>1, ValueOfType, GenesisType, PatchType DEF StateAt

\* get_latest_delta finds the whole past cone of a tip, without what the
\* latest snapshot contains.
LEMMA LatestDeltaIs ==
    ASSUME TypeOK, MarksInv, NEW t \in Tx
    PROVE  LatestDeltaTxs(t, {}, snapshotIndex, ledgerIndex) = Cone[t] \ Confirmed(ledgerIndex)
<1>1. NotInSnapshot(snapshotIndex, ledgerIndex) \ {} = Tx \ Confirmed(ledgerIndex)
  BY DEF TypeOK, NotInSnapshot, Confirmed
<1>2. ledgerIndex \in Nat
  BY DEF TypeOK
<1> QED
  BY <1>1, <1>2, ConfirmedClosed, WalkSkipsHandled DEF LatestDeltaTxs

LEMMA MilestoneTxsIs ==
    ASSUME TypeOK, MarksInv, NEW t \in Tx
    PROVE  MilestoneTxs(t, snapshotIndex) = {u \in Cone[t] : snapshotIndex[u] = 0}
<1> DEFINE D == {u \in Tx : snapshotIndex[u] # 0}
<1>1. {u \in Tx : snapshotIndex[u] = 0} = Tx \ D
  OBVIOUS
<1>2. PastClosed(D)
  BY MarkedClosed
<1>3. Cone[t] \ D = {u \in Cone[t] : snapshotIndex[u] = 0}
  BY ConeClosed
<1> HIDE DEF D
<1>4. D \in SUBSET Tx
  BY DEF D
<1> QED
  BY <1>1, <1>2, <1>3, <1>4, WalkSkipsHandled DEF MilestoneTxs

\* A milestone that is not confirmed is above every confirmed one, and has
\* all that is confirmed in its past.
LEMMA MarksBelow ==
    ASSUME TypeOK, MarksInv, NEW m \in rows, snapshotIndex[m] = 0, NEW t \in Tx
    PROVE  /\ snapshotIndex[t] < IndexOf[m]
           /\ snapshotIndex[t] # 0 => t \in Cone[m]
<1>0. m \in Signed /\ m \in Tx /\ IndexOf[m] \in Nat /\ IndexOf[m] # 0
  BY SignedInTx DEF TypeOK, Candidates
<1>1. CASE snapshotIndex[t] = 0
  BY <1>0, <1>1
<1>2. CASE snapshotIndex[t] # 0
  <2>1. PICK r \in rows : /\ IndexOf[r] = snapshotIndex[t]
                          /\ snapshotIndex[r] = snapshotIndex[t] /\ t \in Cone[r]
    BY <1>2 DEF MarksInv
  <2>2. /\ r \in Signed /\ r \in Tx /\ IndexOf[r] = snapshotIndex[t]
        /\ IndexOf[r] \in Nat /\ snapshotIndex[r] # 0
    BY <1>2, <2>1, SignedInTx DEF TypeOK
  <2>3. IndexOf[r] # IndexOf[m]
    BY <1>0, <2>2
  <2>4. m \notin Cone[r]
    <3> DEFINE D == {u \in Tx : snapshotIndex[u] # 0}
    <3>1. r \in D /\ m \notin D /\ D \in SUBSET Tx /\ PastClosed(D)
      BY <2>2, MarkedClosed
    <3> HIDE DEF D
    <3> QED BY <2>2, <3>1, ConeLeast
  <2>5. IndexOf[r] < IndexOf[m]
    BY <1>0, <2>2, <2>3, <2>4
  <2>6. t \in Cone[m]
    BY <1>0, <2>1, <2>2, <2>5, ConeTransitive
  <2> QED
    BY <2>2, <2>5, <2>6
<1> QED
  BY <1>1, <1>2

\* Two consecutive indexes of the ledger differ by the transactions between.
LEMMA StateSplit ==
    ASSUME NEW S \in SUBSET Tx, NEW i \in Nat, Confirmed(i) \subseteq S
    PROVE  ApplyPatch(GenesisState, ValueOf[S])
             = ApplyPatch(StateAt(i), ValueOf[S \ Confirmed(i)])
<1>1. Confirmed(i) \in SUBSET Tx /\ Confirmed(i) \in SUBSET S
  BY DEF Confirmed
<1>2. ValueOf[S] = ApplyPatch(ValueOf[Confirmed(i)], ValueOf[S \ Confirmed(i)])
  BY <1>1, ValueOfSplit
<1>3. ValueOf[Confirmed(i)] \in Delta /\ ValueOf[S \ Confirmed(i)] \in Delta
  BY <1>1, ValueOfType
<1> QED
  BY <1>2, <1>3, GenesisType, PatchAssociative DEF StateAt

LEMMA NothingAtStart ==
    ASSUME TypeOK, MarksInv, ChainInv
    PROVE  StateAt(LastMilestone) = GenesisState
<1>1. Confirmed(LastMilestone) = {}
  <2> SUFFICES ASSUME NEW t \in Confirmed(LastMilestone) PROVE FALSE
    OBVIOUS
  <2>1. /\ t \in Tx /\ snapshotIndex[t] # 0 /\ snapshotIndex[t] <= LastMilestone
        /\ snapshotIndex[t] \in Nat
    BY DEF Confirmed, TypeOK
  <2>2. PICK m \in rows : IndexOf[m] = snapshotIndex[t]
    BY <2>1 DEF MarksInv
  <2>3. IndexOf[m] > LastMilestone
    BY <2>2 DEF ChainInv
  <2> QED BY <2>1, <2>2, <2>3
<1> QED
  BY <1>1, ValueOfEmpty, GenesisType, PatchEmpty DEF StateAt
-----------------------------------------------------------------------------
(* The invariant, action by action.                                        *)

LEMMA InitConfirmation == Init => ConfirmationInv
<1> SUFFICES ASSUME Init PROVE ConfirmationInv
  OBVIOUS
<1>1. DeltaRows = {} /\ DeltaPoints = {LastMilestone}
  BY DEF Init, DeltaRows, DeltaPoints, DeltaEmpty
<1>2. Confirmed(LastMilestone) = {}
  BY DEF Init, Confirmed
<1>3. StateAt(LastMilestone) = GenesisState
  BY <1>2, ValueOfEmpty, GenesisType, PatchEmpty DEF StateAt
<1>4. MarksInv
  BY DEF Init, MarksInv
<1>5. ChainInv
  BY <1>1 DEF Init, ChainInv
<1>6. HasRows(LastMilestone)
  BY DEF HasRows
<1>7. MemoryInv
  BY <1>1, <1>3, <1>6 DEF Init, MemoryInv
<1>8. SolidifierInv
  BY DEF Init, SolidifierInv
<1> QED
  BY <1>4, <1>5, <1>7, <1>8 DEF ConfirmationInv

\* Steps that leave the database's confirmations alone.
LEMMA DatabaseFrame ==
    ASSUME UNCHANGED <<snapshotIndex, rows, deltas>>
    PROVE  /\ MarksInv => MarksInv'
           /\ ChainInv => ChainInv'
           /\ DeltaPoints' = DeltaPoints
           /\ \A i : StateAt(i)' = StateAt(i)
           /\ \A i : Confirmed(i)' = Confirmed(i)
           /\ \A i : HasRows(i)' = HasRows(i)
<1>2. \A i : HasRows(i)' = HasRows(i)
  BY DEF HasRows, RowAt
<1>3. \A i : Confirmed(i)' = Confirmed(i)
  BY DEF Confirmed
<1>4. \A i : StateAt(i)' = StateAt(i)
  BY DEF StateAt, Confirmed
<1>5. DeltaRows' = DeltaRows /\ DeltaPoints' = DeltaPoints
  BY DEF DeltaRows, DeltaPoints, DeltaEmpty
<1>6. MarksInv => MarksInv'
  BY DEF MarksInv
<1>7. ChainInv => ChainInv'
  BY <1>2, <1>4, <1>5 DEF ChainInv
<1> QED
  BY <1>2, <1>3, <1>4, <1>5, <1>6, <1>7

confirmationVars == <<snapshotIndex, rows, deltas, mode, ledger, ledgerIndex,
                      latestSolid, cursor, current, pc, delta>>

LEMMA QuietStep ==
    ASSUME ConfirmationInv, UNCHANGED confirmationVars
    PROVE  ConfirmationInv'
<1> USE DEF confirmationVars
<1>1. MarksInv' /\ ChainInv'
  BY DatabaseFrame DEF ConfirmationInv
<1>2. MemoryInv'
  BY DatabaseFrame DEF ConfirmationInv, MemoryInv
<1>3. SolidifierInv'
  BY DatabaseFrame DEF ConfirmationInv, SolidifierInv, DeltaEmpty
<1> QED
  BY <1>1, <1>2, <1>3 DEF ConfirmationInv

\* iota_tangle_milestone_store: a new row changes no confirmation.
LEMMA NewRowStep ==
    ASSUME TypeOK, ConfirmationInv, ValidateStore
    PROVE  ConfirmationInv'
<1> USE DEF database, snapshot, solidifier
<1>1. CASE UNCHANGED rows
  BY <1>1, QuietStep DEF ValidateStore, confirmationVars
<1>2. CASE rows' = rows \cup {candidate}
  <2>1. /\ candidate \in Signed /\ candidate \in Tx /\ candidate \notin rows
        /\ UNCHANGED <<snapshotIndex, deltas, mode, ledger, ledgerIndex, latestSolid,
                       cursor, current, pc, delta>>
    BY SignedInTx DEF ValidateStore, MilestoneExists
  <2>2. IndexOf[candidate] > LastMilestone
    BY <2>1 DEF ValidateStore, MilestoneExists, ConfirmationInv, MemoryInv, TypeOK, Candidates
  <2>3. DeltaRows' = DeltaRows /\ DeltaPoints' = DeltaPoints
    BY <2>1 DEF DeltaRows, DeltaPoints, DeltaEmpty
  <2>4. \A i : StateAt(i)' = StateAt(i) /\ Confirmed(i)' = Confirmed(i)
    BY <2>1 DEF StateAt, Confirmed
  <2>6. \A i : HasRows(i) => HasRows(i)'
    BY <1>2 DEF HasRows, RowAt
  <2>7. MarksInv'
    BY <1>2, <2>1 DEF ConfirmationInv, MarksInv
  <2>8. snapshotIndex[candidate] # IndexOf[candidate]
    <3> SUFFICES ASSUME snapshotIndex[candidate] = IndexOf[candidate] PROVE FALSE
      OBVIOUS
    <3>1. snapshotIndex[candidate] # 0
      BY <2>1 DEF Candidates
    <3>2. PICK m \in rows : IndexOf[m] = snapshotIndex[candidate]
      BY <2>1, <3>1 DEF ConfirmationInv, MarksInv
    <3>3. m \in Signed /\ IndexOf[m] = IndexOf[candidate]
      BY <3>2 DEF TypeOK
    <3> QED
      BY <2>1, <3>3
  <2>9. ChainInv'
    BY <1>2, <2>1, <2>2, <2>3, <2>4, <2>6, <2>8 DEF ConfirmationInv, ChainInv
  <2>10. MemoryInv'
    BY <2>1, <2>3, <2>4, <2>6 DEF ConfirmationInv, MemoryInv
  <2>11. SolidifierInv'
    BY <1>2, <2>1, <2>4 DEF ConfirmationInv, SolidifierInv, DeltaEmpty
  <2> QED
    BY <2>7, <2>9, <2>10, <2>11 DEF ConfirmationInv
<1> QED
  BY <1>1, <1>2 DEF ValidateStore

\* Steps of the solidifier that decide what to do with the next milestone.
LEMMA DecideStep ==
    ASSUME TypeOK, ConfirmationInv, Scan \/ CheckFails \/ AlreadyConfirmed
    PROVE  ConfirmationInv'
<1> USE DEF database, snapshot, solidifier
<1>1. /\ UNCHANGED <<snapshotIndex, rows, deltas, mode, ledger, ledgerIndex,
                     latestSolid, cursor, delta>>
      /\ mode = "up" /\ pc \in {"scan", "check"}
  BY DEF Scan, CheckFails, AlreadyConfirmed
<1>2. /\ pc' \in {"scan", "check", "advance"}
      /\ current' # NoTx => current' \in rows
      /\ pc' = "advance" => IndexOf[current'] = latestSolid + 1
  <2>1. CASE Scan
    BY <2>1, LoadNextRow DEF Scan, TypeOK
  <2>2. CASE CheckFails
    BY <2>2 DEF CheckFails
  <2>3. CASE AlreadyConfirmed
    BY <2>3 DEF AlreadyConfirmed, ConfirmationInv, SolidifierInv
  <2> QED BY <2>1, <2>2, <2>3
<1>3. MarksInv' /\ ChainInv'
  BY <1>1, DatabaseFrame DEF ConfirmationInv
<1>4. MemoryInv'
  BY <1>1, <1>2, DatabaseFrame DEF ConfirmationInv, MemoryInv
<1>5. SolidifierInv'
  BY <1>1, <1>2 DEF SolidifierInv
<1> QED
  BY <1>3, <1>4, <1>5 DEF ConfirmationInv

\* get_latest_delta and create_patch: the delta is the past cone of the
\* milestone without what is in the latest snapshot, and the ledger has the
\* funds for it.
LEMMA GetLatestDeltaStep ==
    ASSUME TypeOK, ConfirmationInv, GetLatestDelta
    PROVE  ConfirmationInv'
<1> USE DEF database, snapshot, solidifier
<1>1. /\ UNCHANGED <<snapshotIndex, rows, deltas, mode, ledger, ledgerIndex,
                     latestSolid, cursor, current>>
      /\ mode = "up" /\ pc = "check" /\ pc' = "mark"
      /\ IndexOf[current] = latestSolid + 1 /\ snapshotIndex[current] = 0
  BY DEF GetLatestDelta
<1>2. current \in rows /\ current \in Tx
  BY <1>1, SignedInTx DEF ConfirmationInv, SolidifierInv, TypeOK
<1> DEFINE X == Cone[current] \ Confirmed(ledgerIndex)
<1>3. NextDelta = X
  BY <1>2, LatestDeltaIs DEF NextDelta, ConfirmationInv
<1>4. X \in SUBSET Tx
  BY <1>2, ConeClosed
<1>5. X \cap InvalidTail = {} /\ delta' = ValueOf[X]
  BY <1>3 DEF GetLatestDelta, Consistent
<1>6. DeltaSum(delta') = 0
  BY <1>4, <1>5, ValidSumsToZero
<1>7. ValueOf[X] \in Delta
  BY <1>4, ValueOfType
<1>8. \A a \in Address : ledger[a] + delta'[a] >= 0
  <2> SUFFICES ASSUME NEW a \in Address PROVE ledger[a] + ValueOf[X][a] >= 0
    BY <1>5
  <2>1. ValueOf[X][a] \in Int /\ ledger[a] \in Int /\ ledger[a] >= 0
    BY <1>7 DEF Delta, TypeOK, ConfirmationInv, MemoryInv
  <2>2. CASE ValueOf[X][a] = 0
    BY <2>1, <2>2
  <2>3. CASE ValueOf[X][a] # 0
    <3>1. IsConsistent(CreatePatch(ledger, ValueOf[X]))
      BY <1>3 DEF GetLatestDelta, Consistent
    <3> HIDE DEF X
    <3> QED BY <2>3, <3>1 DEF IsConsistent, CreatePatch
  <2> QED BY <2>2, <2>3
<1>9. MarksInv' /\ ChainInv'
  BY <1>1, DatabaseFrame DEF ConfirmationInv
<1>10. MemoryInv'
  BY <1>1, DatabaseFrame DEF ConfirmationInv, MemoryInv
<1>11. SolidifierInv'
  BY <1>1, <1>2, <1>5, <1>6, <1>8, DatabaseFrame DEF SolidifierInv
<1> QED
  BY <1>9, <1>10, <1>11 DEF ConfirmationInv

\* A storage error between the writes of update_snapshot.
LEMMA AbandonStep ==
    ASSUME TypeOK, ConfirmationInv, mode = "up", pc \in {"mark", "store"}, Abandon,
           UNCHANGED <<snapshotIndex, rows, deltas, mode, ledger, ledgerIndex,
                       latestSolid, cursor>>
    PROVE  ConfirmationInv'
<1>1. pc' = "scan" /\ current' = NoTx
  BY DEF Abandon
<1>2. MarksInv' /\ ChainInv'
  BY DatabaseFrame DEF ConfirmationInv
<1>3. MemoryInv'
  BY <1>1, DatabaseFrame DEF ConfirmationInv, MemoryInv
<1>4. SolidifierInv'
  BY <1>1 DEF SolidifierInv
<1> QED
  BY <1>2, <1>3, <1>4 DEF ConfirmationInv

\* update_snapshot_milestone: the milestone confirms the rest of its past
\* cone.  Nothing confirmed before changes its index.
LEMMA MarkStep ==
    ASSUME TypeOK, ConfirmationInv, MarkConfirmed
    PROVE  ConfirmationInv'
<1> USE DEF database, snapshot, solidifier
<1>1. CASE Abandon /\ UNCHANGED snapshotIndex
  BY <1>1, AbandonStep DEF MarkConfirmed
<1>2. CASE /\ snapshotIndex' = [t \in Tx |-> IF t \in MilestoneTxs(current, snapshotIndex)
                                             THEN IndexOf[current] ELSE snapshotIndex[t]]
           /\ pc' = "store"
           /\ UNCHANGED <<current, delta, faults>>
  <2>0. PICK k \in Nat, l \in Nat : k = IndexOf[current] /\ l = ledgerIndex
    BY SignedInTx DEF MarkConfirmed, TypeOK
  <2>1. /\ UNCHANGED <<rows, deltas, mode, ledger, ledgerIndex, latestSolid, cursor,
                       current, delta>>
        /\ mode = "up" /\ pc = "mark" /\ pc' = "store"
    BY <1>2 DEF MarkConfirmed
  <2>2. /\ current \in rows /\ current \in Signed /\ current \in Tx
        /\ k \in Nat /\ k # 0 /\ k = latestSolid + 1 /\ snapshotIndex[current] = 0
        /\ latestSolid \in Nat /\ l < k /\ LastMilestone < k
    BY <2>0, <2>1, SignedInTx DEF ConfirmationInv, SolidifierInv, MemoryInv, TypeOK, Candidates
  <2>3. Cone[current] \subseteq Tx /\ current \in Cone[current] /\ PastClosed(Cone[current])
    BY <2>2, ConeClosed
  <2>4. \A t \in Tx : /\ snapshotIndex[t] \in Nat /\ snapshotIndex[t] < k
                      /\ snapshotIndex[t] # 0 => t \in Cone[current]
    <3>1. \A t \in Tx : snapshotIndex[t] \in Nat
      BY DEF TypeOK
    <3>2. ASSUME NEW t \in Tx
          PROVE  /\ snapshotIndex[t] < IndexOf[current]
                 /\ snapshotIndex[t] # 0 => t \in Cone[current]
      BY <2>2, MarksBelow DEF ConfirmationInv
    <3> QED BY <2>0, <3>1, <3>2
  <2>5. \A t \in Tx : snapshotIndex'[t] =
                          IF t \in Cone[current] /\ snapshotIndex[t] = 0
                          THEN k ELSE snapshotIndex[t]
    <3>1. MilestoneTxs(current, snapshotIndex) = {u \in Cone[current] : snapshotIndex[u] = 0}
      BY <2>2, MilestoneTxsIs DEF ConfirmationInv
    <3> QED BY <1>2, <2>0, <3>1
  <2>6. \A i \in Nat : i < k => Confirmed(i)' = Confirmed(i)
    BY <2>2, <2>4, <2>5 DEF Confirmed
  <2>7. \A i \in Nat : i < k => StateAt(i)' = StateAt(i)
    BY <2>6 DEF StateAt
  <2>8. Confirmed(k)' = Cone[current]
    BY <2>2, <2>3, <2>4, <2>5 DEF Confirmed
  <2>9. Confirmed(l) \subseteq Cone[current]
    BY <2>4 DEF Confirmed
  <2>10. StateAt(k)' = ApplyPatch(ledger, delta)
    <3>1. StateAt(k)' = ApplyPatch(GenesisState, ValueOf[Cone[current]])
      BY <2>8 DEF StateAt
    <3>2. delta = ValueOf[Cone[current] \ Confirmed(l)]
      BY <2>0, <2>1 DEF ConfirmationInv, SolidifierInv
    <3>3. ledger = StateAt(l)
      BY <2>0 DEF ConfirmationInv, MemoryInv
    <3> QED
      BY <2>2, <2>3, <2>9, <3>1, <3>2, <3>3, StateSplit
  <2>11. DeltaRows' = DeltaRows /\ DeltaPoints' = DeltaPoints
    BY <2>1 DEF DeltaRows, DeltaPoints, DeltaEmpty
  <2>12. \A m \in DeltaRows : /\ m \in Tx /\ m \in rows /\ IndexOf[m] \in Nat
                              /\ IndexOf[m] < k /\ snapshotIndex[m] = IndexOf[m]
                              /\ IndexOf[m] # 0
    BY <2>4, SignedInTx DEF ConfirmationInv, ChainInv, TypeOK, Candidates
  <2>13. \A p \in DeltaPoints : p \in Nat /\ p < k
    BY <2>2, <2>12 DEF DeltaPoints
  <2>14. \A i : HasRows(i)' = HasRows(i)
    BY <2>1 DEF HasRows, RowAt
  <2>15. MarksInv'
    <3> SUFFICES ASSUME NEW t \in Tx, snapshotIndex'[t] # 0
                 PROVE  /\ t \notin InvalidTail
                        /\ \A p \in Parents[t] : snapshotIndex'[p] \in 1 .. snapshotIndex'[t]
                        /\ \E m \in rows : /\ IndexOf[m] = snapshotIndex'[t]
                                           /\ snapshotIndex'[m] = snapshotIndex'[t]
                                           /\ t \in Cone[m]
      BY <2>1 DEF MarksInv
    <3>1. CASE snapshotIndex[t] # 0
      <4>1. /\ t \notin InvalidTail
            /\ \A p \in Parents[t] : snapshotIndex[p] \in 1 .. snapshotIndex[t]
        BY <3>1 DEF ConfirmationInv, MarksInv
      <4>2. PICK m \in rows : /\ IndexOf[m] = snapshotIndex[t]
                              /\ snapshotIndex[m] = snapshotIndex[t] /\ t \in Cone[m]
        BY <3>1 DEF ConfirmationInv, MarksInv
      <4>3. m \in Tx
        BY SignedInTx DEF TypeOK
      <4>4. snapshotIndex'[t] = snapshotIndex[t] /\ snapshotIndex'[m] = snapshotIndex[m]
        BY <2>5, <3>1, <4>2, <4>3
      <4>5. \A p \in Parents[t] : p \in Tx /\ snapshotIndex'[p] = snapshotIndex[p]
        BY <2>4, <2>5, <4>1, TangleAssumption
      <4> QED
        BY <4>1, <4>2, <4>4, <4>5
    <3>2. CASE snapshotIndex[t] = 0
      <4>1. t \in Cone[current] /\ snapshotIndex'[t] = k
        BY <2>5, <3>2
      <4>2. t \notin InvalidTail
        <5>1. t \in Cone[current] \ Confirmed(l)
          BY <3>2, <4>1 DEF Confirmed
        <5> QED
          BY <2>0, <2>1, <5>1 DEF ConfirmationInv, SolidifierInv
      <4>3. ASSUME NEW p \in Parents[t] PROVE snapshotIndex'[p] \in 1 .. k
        <5>1. p \in Cone[current] /\ p \in Tx
          BY <2>3, <4>1 DEF PastClosed
        <5> QED
          BY <2>2, <2>4, <2>5, <5>1
      <4>4. snapshotIndex'[current] = k /\ IndexOf[current] = k
        BY <2>0, <2>2, <2>3, <2>5
      <4> QED
        BY <2>2, <4>1, <4>2, <4>3, <4>4
    <3> QED BY <3>1, <3>2
  <2>16. HasRows(k)
    <3>1. HasRows(latestSolid)
      BY DEF ConfirmationInv, MemoryInv
    <3>2. current \in RowAt(k)
      BY <2>0, <2>2 DEF RowAt
    <3>3. \A j \in (LastMilestone + 1) .. k : j = k \/ j \in (LastMilestone + 1) .. latestSolid
      BY <2>2
    <3> QED BY <3>1, <3>2, <3>3 DEF HasRows
  <2>17. ChainInv'
    <3>1. ASSUME NEW m \in rows
          PROVE  /\ IndexOf[m] > LastMilestone
                 /\ snapshotIndex'[m] = IndexOf[m] => HasRows(IndexOf[m])'
      <4>1. m \in Tx /\ IndexOf[m] > LastMilestone
        BY SignedInTx DEF TypeOK, ConfirmationInv, ChainInv
      <4>2. snapshotIndex'[m] = IndexOf[m] => IndexOf[m] = k \/ snapshotIndex[m] = IndexOf[m]
        BY <2>5, <4>1
      <4>3. snapshotIndex[m] = IndexOf[m] => HasRows(IndexOf[m])
        BY DEF ConfirmationInv, ChainInv
      <4> QED BY <2>14, <2>16, <4>1, <4>2, <4>3
    <3>2. ASSUME NEW m \in DeltaRows PROVE snapshotIndex'[m] = IndexOf[m]
      BY <2>5, <2>12
    <3>3. DeltaRows \subseteq rows
      BY <2>12
    <3>4. ASSUME NEW m \in DeltaRows
          PROVE  /\ DeltaSum(deltas[m]) = 0
                 /\ \A a \in Address : StateAt(IndexOf[m])'[a] >= 0
                 /\ \A i \in DeltaPoints :
                       i < IndexOf[m] /\ (\A p \in DeltaPoints : p <= i \/ p >= IndexOf[m])
                       => StateAt(IndexOf[m])' = ApplyPatch(StateAt(i)', deltas[m])
      <4>1. StateAt(IndexOf[m])' = StateAt(IndexOf[m])
        BY <2>7, <2>12
      <4>2. \A i \in DeltaPoints : StateAt(i)' = StateAt(i)
        BY <2>7, <2>13
      <4> QED
        BY <4>1, <4>2 DEF ConfirmationInv, ChainInv
    <3> QED
      BY <2>1, <2>11, <3>1, <3>2, <3>3, <3>4 DEF ChainInv
  <2>18. MemoryInv'
    <3>1. \A p \in DeltaPoints : StateAt(p)' = StateAt(p)
      BY <2>7, <2>13
    <3>2. StateAt(l)' = StateAt(l)
      BY <2>2, <2>7
    <3> QED
      BY <2>0, <2>1, <2>2, <2>11, <2>14, <3>1, <3>2 DEF ConfirmationInv, MemoryInv
  <2>19. SolidifierInv'
    <3>1. \A t \in Tx : snapshotIndex'[t] <= k
      BY <2>2, <2>4, <2>5
    <3>2. snapshotIndex'[current] = k
      BY <2>2, <2>3, <2>5
    <3>3. DeltaEmpty(deltas[current])
      BY <2>2, <2>12 DEF DeltaRows
    <3>4. DeltaSum(delta) = 0 /\ \A a \in Address : ledger[a] + delta[a] >= 0
      BY <2>1 DEF ConfirmationInv, SolidifierInv
    <3> QED
      BY <2>0, <2>1, <2>2, <2>10, <3>1, <3>2, <3>3, <3>4 DEF SolidifierInv, DeltaEmpty
  <2> QED
    BY <2>15, <2>17, <2>18, <2>19 DEF ConfirmationInv
<1> QED
  BY <1>1, <1>2 DEF MarkConfirmed
=============================================================================
