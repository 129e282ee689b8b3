----------------------- MODULE MilestoneTrackerProofs -----------------------
(***************************************************************************)
(* Proofs about MilestoneTracker, for every tangle, every ledger, every    *)
(* number of crashes and of storage errors: the steps from the storing of  *)
(* a delta on, and the theorems.                                           *)
(***************************************************************************)
EXTENDS MilestoneTrackerSteps

USE CoordinatorAssumption, ConfigurationAssumption, ZenonT(10), SMTT(60)

\* iota_tangle_state_delta_store: the chain of stored deltas gets a new end.
LEMMA StoreDeltaStep ==
    ASSUME TypeOK, ConfirmationInv, StoreDelta
    PROVE  ConfirmationInv'
<1> USE DEF database, snapshot, solidifier
<1>1. CASE Abandon /\ UNCHANGED deltas
  BY <1>1, AbandonStep DEF StoreDelta
<1>2. CASE /\ deltas' = IF DeltaEmpty(delta) THEN deltas
                        ELSE [deltas EXCEPT ![current] = delta]
           /\ pc' = "apply"
           /\ UNCHANGED <<current, delta, faults>>
  <2>0. PICK k \in Nat : k = IndexOf[current]
    BY SignedInTx DEF StoreDelta, TypeOK
  <2>1. /\ UNCHANGED <<snapshotIndex, rows, mode, ledger, ledgerIndex, latestSolid,
                       cursor, current, delta>>
        /\ mode = "up" /\ pc = "store" /\ pc' = "apply"
    BY <1>2 DEF StoreDelta
  <2>2. /\ current \in rows /\ current \in Signed /\ current \in Tx /\ LastMilestone < k
        /\ ledger \in Delta /\ delta \in Delta /\ deltas \in [Tx -> Delta]
    BY <2>0, <2>1, SignedInTx DEF ConfirmationInv, SolidifierInv, MemoryInv, TypeOK
  <2>3. /\ snapshotIndex[current] = k
        /\ \A t \in Tx : snapshotIndex[t] <= k
        /\ StateAt(k) = ApplyPatch(ledger, delta)
        /\ DeltaEmpty(deltas[current])
        /\ DeltaSum(delta) = 0 /\ \A a \in Address : ledger[a] + delta[a] >= 0
    BY Zenon, <2>0, <2>1 DEF ConfirmationInv, SolidifierInv
  <2>4. /\ \A i : StateAt(i)' = StateAt(i)
        /\ \A i : HasRows(i)' = HasRows(i)
    BY <2>1 DEF StateAt, Confirmed, HasRows, RowAt
  <2>5. MarksInv'
    BY <2>1 DEF ConfirmationInv, MarksInv
  <2>6. \A p \in DeltaPoints : (\A q \in DeltaPoints : q <= p) => StateAt(p) = ledger
    BY <2>1 DEF ConfirmationInv, MemoryInv
  <2>7. SolidifierInv'
    BY <2>0, <2>1, <2>2, <2>3, <2>4 DEF ConfirmationInv, SolidifierInv
  <2>8. CASE DeltaEmpty(delta)
    <3>1. UNCHANGED <<snapshotIndex, rows, deltas>>
      BY <1>2, <2>1, <2>8
    <3>2. ApplyPatch(ledger, delta) = ledger
      BY <2>2, <2>8, PatchEmpty DEF DeltaEmpty
    <3>3. ChainInv' /\ DeltaPoints' = DeltaPoints
      BY <3>1, DatabaseFrame DEF ConfirmationInv
    <3>4. MemoryInv'
      BY <2>1, <2>4, <3>2, <3>3 DEF ConfirmationInv, MemoryInv
    <3> QED
      BY <2>5, <2>7, <3>3, <3>4 DEF ConfirmationInv
  <2>9. CASE ~ DeltaEmpty(delta)
    <3>1. \A t \in Tx : deltas'[t] = IF t = current THEN delta ELSE deltas[t]
      BY <1>2, <2>2, <2>9
    <3>2. DeltaRows' = DeltaRows \cup {current} /\ current \notin DeltaRows
      BY <2>2, <2>3, <2>9, <3>1 DEF DeltaRows, DeltaEmpty
    <3>3. DeltaPoints' = DeltaPoints \cup {k}
      BY <2>0, <3>2 DEF DeltaPoints
    <3>4. \A m \in DeltaRows : /\ m \in Tx /\ m \in rows /\ IndexOf[m] \in Nat
                               /\ IndexOf[m] < k
      <4> SUFFICES ASSUME NEW m \in DeltaRows
                   PROVE  m \in Tx /\ m \in rows /\ IndexOf[m] \in Nat /\ IndexOf[m] < k
        OBVIOUS
      <4>1. m \in Tx /\ m \in rows /\ m \in Signed /\ snapshotIndex[m] = IndexOf[m]
        BY SignedInTx DEF ConfirmationInv, ChainInv, TypeOK
      <4>2. IndexOf[m] <= k /\ IndexOf[m] \in Nat
        BY <2>3, <4>1
      <4>3. IndexOf[m] # k
        BY <2>0, <2>2, <3>2, <4>1
      <4> QED BY <4>1, <4>2, <4>3
    <3>5. \A p \in DeltaPoints : p \in Nat /\ p < k
      BY <2>2, <3>4 DEF DeltaPoints
    <3>6. \A i \in DeltaPoints' : i < k /\ (\A p \in DeltaPoints' : p <= i \/ p >= k)
             => StateAt(k) = ApplyPatch(StateAt(i), delta)
      <4> SUFFICES ASSUME NEW i \in DeltaPoints, \A p \in DeltaPoints : p <= i
                   PROVE  StateAt(k) = ApplyPatch(StateAt(i), delta)
        BY <3>3, <3>5
      <4> QED BY <2>3, <2>6
    <3>7. ASSUME NEW m \in DeltaRows,
                 NEW i \in DeltaPoints',
                 i < IndexOf[m] /\ (\A p \in DeltaPoints' : p <= i \/ p >= IndexOf[m])
          PROVE  StateAt(IndexOf[m]) = ApplyPatch(StateAt(i), deltas[m])
      <4>1. i \in DeltaPoints
        BY <3>3, <3>4, <3>5, <3>7
      <4>2. i < IndexOf[m] /\ (\A p \in DeltaPoints : p <= i \/ p >= IndexOf[m])
        BY <3>3, <3>7
      <4> QED
        BY <4>1, <4>2 DEF ConfirmationInv, ChainInv
    <3>8. \A a \in Address : StateAt(k)[a] >= 0
      BY <2>2, <2>3, PatchType
    <3>9. ChainInv'
      <4>1. \A m \in rows :
               /\ IndexOf[m] > LastMilestone
               /\ snapshotIndex[m] = IndexOf[m] => HasRows(IndexOf[m])
        BY DEF ConfirmationInv, ChainInv
      <4>2. DeltaRows' \subseteq rows
        BY <2>2, <3>2, <3>4
      <4>3. ASSUME NEW m \in DeltaRows'
            PROVE  /\ snapshotIndex[m] = IndexOf[m]
                   /\ DeltaSum(deltas'[m]) = 0
                   /\ \A a \in Address : StateAt(IndexOf[m])[a] >= 0
                   /\ \A i \in DeltaPoints' :
                        i < IndexOf[m] /\ (\A p \in DeltaPoints' : p <= i \/ p >= IndexOf[m])
                        => StateAt(IndexOf[m]) = ApplyPatch(StateAt(i), deltas'[m])
        <5>1. CASE m = current
          BY <2>0, <2>2, <2>3, <3>1, <3>6, <3>8, <5>1
        <5>2. CASE m \in DeltaRows
          <6>1. deltas'[m] = deltas[m]
            BY <3>1, <3>2, <3>4, <5>2
          <6>2. /\ snapshotIndex[m] = IndexOf[m]
                /\ DeltaSum(deltas[m]) = 0
                /\ \A a \in Address : StateAt(IndexOf[m])[a] >= 0
            BY <5>2 DEF ConfirmationInv, ChainInv
          <6> QED BY <3>7, <5>2, <6>1, <6>2
        <5> QED BY <3>2, <5>1, <5>2
      <4> QED
        BY <2>1, <2>4, <4>1, <4>2, <4>3 DEF ChainInv
    <3>10. MemoryInv'
      <4>1. \A p \in DeltaPoints' : (\A q \in DeltaPoints' : q <= p) =>
               StateAt(p) = ApplyPatch(ledger, delta)
        BY <2>3, <3>3, <3>5
      <4> QED
        BY <2>1, <2>4, <4>1 DEF ConfirmationInv, MemoryInv
    <3> QED
      BY <2>5, <2>7, <3>9, <3>10 DEF ConfirmationInv
  <2> QED BY <2>8, <2>9
<1> QED
  BY <1>1, <1>2 DEF StoreDelta

\* iota_snapshot_apply_patch: the latest snapshot catches up.
LEMMA ApplyDeltaStep ==
    ASSUME TypeOK, ConfirmationInv, ApplyDelta
    PROVE  ConfirmationInv'
<1> USE DEF database, snapshot, solidifier
<1>0. PICK k \in Nat : k = IndexOf[current]
  BY SignedInTx DEF ApplyDelta, TypeOK
<1>1. /\ UNCHANGED <<snapshotIndex, rows, deltas, mode, latestSolid, cursor, current>>
      /\ mode = "up" /\ pc = "apply" /\ pc' = "advance"
      /\ ledger' = ApplyPatch(ledger, delta) /\ ledgerIndex' = k
  BY <1>0 DEF ApplyDelta
<1>2. /\ StateAt(k) = ApplyPatch(ledger, delta)
      /\ \A a \in Address : ledger[a] + delta[a] >= 0
      /\ k = latestSolid + 1 /\ latestSolid \in Nat
      /\ current # NoTx => current \in rows
  BY Zenon, <1>0, <1>1 DEF ConfirmationInv, SolidifierInv, TypeOK
<1>3. \A a \in Address : ledger'[a] >= 0
  BY <1>1, <1>2, PatchType DEF TypeOK
<1>4. MarksInv' /\ ChainInv'
  BY <1>1, DatabaseFrame DEF ConfirmationInv
<1>5. StateAt(k)' = StateAt(k)
  BY <1>1, DatabaseFrame
<1>6. ledger' = StateAt(ledgerIndex)'
  BY <1>1, <1>2, <1>5
<1>7. MemoryInv'
  BY <1>0, <1>1, <1>2, <1>3, <1>6, DatabaseFrame DEF ConfirmationInv, MemoryInv
<1>8. SolidifierInv'
  BY <1>0, <1>1, <1>2 DEF SolidifierInv
<1> QED
  BY <1>4, <1>7, <1>8 DEF ConfirmationInv

LEMMA AdvanceStep ==
    ASSUME TypeOK, ConfirmationInv, Advance
    PROVE  ConfirmationInv'
<1> USE DEF database, snapshot, solidifier
<1>0. PICK k \in Nat : k = IndexOf[current]
  BY SignedInTx DEF Advance, TypeOK
<1>1. /\ UNCHANGED <<snapshotIndex, rows, deltas, mode, ledger, ledgerIndex, cursor>>
      /\ mode = "up" /\ pc = "advance" /\ pc' = "scan" /\ current' = NoTx
      /\ latestSolid' = k
  BY <1>0 DEF Advance
<1>2. /\ current \in rows /\ k = latestSolid + 1 /\ latestSolid \in Nat /\ ledgerIndex \in Nat
      /\ HasRows(latestSolid)
  BY <1>0, <1>1, SignedInTx DEF ConfirmationInv, SolidifierInv, MemoryInv, TypeOK
<1>3. MarksInv' /\ ChainInv'
  BY Zenon, <1>1, DatabaseFrame DEF ConfirmationInv
<1>4. HasRows(k)
  <2>1. current \in RowAt(k)
    BY Zenon, <1>0, <1>2 DEF RowAt
  <2>2. \A j \in (LastMilestone + 1) .. k : j = k \/ j \in (LastMilestone + 1) .. latestSolid
    BY <1>2
  <2> QED BY <1>2, <2>1, <2>2 DEF HasRows
<1>5. HasRows(latestSolid)'
  <2>1. HasRows(k)'
    BY <1>1, <1>4, DatabaseFrame
  <2> QED BY <1>1, <2>1
<1>6. MemoryInv'
  BY <1>0, <1>1, <1>2, <1>5, DatabaseFrame DEF ConfirmationInv, MemoryInv
<1>7. SolidifierInv'
  BY Zenon, <1>1 DEF SolidifierInv
<1> QED
  BY <1>3, <1>6, <1>7 DEF ConfirmationInv

\* The database survives the death of the process at any point.
LEMMA CrashStep ==
    ASSUME TypeOK, ConfirmationInv, Crash
    PROVE  ConfirmationInv'
<1> USE DEF database, snapshot, solidifier
<1>1. /\ UNCHANGED <<snapshotIndex, rows, deltas, ledger, ledgerIndex, latestSolid, cursor>>
      /\ mode' = "down" /\ pc' = "scan" /\ current' = NoTx
  BY DEF Crash
<1>2. MarksInv' /\ ChainInv'
  BY <1>1, DatabaseFrame DEF ConfirmationInv
<1>3. MemoryInv'
  BY <1>1, DatabaseFrame DEF ConfirmationInv, MemoryInv
<1>4. SolidifierInv'
  BY <1>1 DEF SolidifierInv
<1> QED
  BY <1>2, <1>3, <1>4 DEF ConfirmationInv

LEMMA RestartStep ==
    ASSUME TypeOK, ConfirmationInv, Restart
    PROVE  ConfirmationInv'
<1> USE DEF database, snapshot, solidifier
<1>1. /\ UNCHANGED <<snapshotIndex, rows, deltas, current, pc, delta>>
      /\ mode = "down" /\ mode' = "building"
      /\ ledger' = GenesisState /\ ledgerIndex' = LastMilestone
      /\ latestSolid' = LastMilestone /\ cursor' = LastMilestone + 1
  BY DEF Restart
<1>2. pc = "scan" /\ current = NoTx
  BY <1>1 DEF ConfirmationInv, MemoryInv
<1>3. MarksInv' /\ ChainInv'
  BY <1>1, DatabaseFrame DEF ConfirmationInv
<1>4. StateAt(ledgerIndex)' = GenesisState
  <2>1. StateAt(LastMilestone)' = GenesisState
    BY <1>1, NothingAtStart, DatabaseFrame DEF ConfirmationInv
  <2> QED BY <1>1, <2>1
<1>5. HasRows(latestSolid)' /\ HasRows(cursor - 1)'
  BY <1>1 DEF HasRows
<1>6. \A p \in DeltaPoints : p \in Nat
  BY DEF DeltaPoints, DeltaRows
<1>7. DeltaPoints' = DeltaPoints /\ LastMilestone \in DeltaPoints
  BY Zenon, <1>1, DatabaseFrame DEF DeltaPoints
<1>8. MemoryInv'
  BY <1>1, <1>2, <1>4, <1>5, <1>6, <1>7 DEF MemoryInv
<1>9. SolidifierInv'
  BY <1>1, <1>2 DEF SolidifierInv
<1> QED
  BY <1>3, <1>8, <1>9 DEF ConfirmationInv

\* One iteration of build_snapshot: the next delta of the chain.
LEMMA BuildStepStep ==
    ASSUME TypeOK, ConfirmationInv, NEW t \in Tx, BuildStep(t)
    PROVE  ConfirmationInv'
<1> USE DEF database, snapshot, solidifier
<1>0. PICK c \in Nat, l \in Nat : c = cursor /\ l = ledgerIndex
  BY DEF TypeOK
<1>1. /\ UNCHANGED <<snapshotIndex, rows, deltas, mode, current, pc, delta>>
      /\ mode = "building" /\ cursor' = c + 1
      /\ t \in rows /\ t \in Signed /\ IndexOf[t] = c
  BY Zenon, <1>0 DEF BuildStep, RowAt, TypeOK
<1>2. /\ pc = "scan" /\ current = NoTx
      /\ l \in DeltaPoints /\ l < c /\ LastMilestone <= l
      /\ \A p \in DeltaPoints : p <= l \/ p >= c
      /\ HasRows(c - 1) /\ ledger = StateAt(l)
  BY <1>0, <1>1 DEF ConfirmationInv, MemoryInv
<1>3. MarksInv' /\ ChainInv'
  BY <1>1, DatabaseFrame DEF ConfirmationInv
<1>4. SolidifierInv'
  BY <1>1, <1>2 DEF SolidifierInv
<1>5. HasRows(c)
  <2>1. t \in RowAt(c)
    BY <1>1 DEF RowAt
  <2>2. \A j \in (LastMilestone + 1) .. c : j = c \/ j \in (LastMilestone + 1) .. (c - 1)
    OBVIOUS
  <2> QED BY <1>2, <2>1, <2>2 DEF HasRows
<1>6. HasRows(cursor - 1)'
  <2>1. HasRows(c)'
    BY <1>1, <1>5, DatabaseFrame
  <2>2. (c + 1) - 1 = c
    OBVIOUS
  <2> QED BY <1>1, <2>1, <2>2
<1>7. \A p \in DeltaPoints : p \in Nat /\ (p = c => \E m \in DeltaRows : IndexOf[m] = c)
  BY <1>2 DEF DeltaPoints, DeltaRows
<1>8. DeltaPoints' = DeltaPoints /\ StateAt(c)' = StateAt(c) /\ StateAt(l)' = StateAt(l)
  BY Zenon, <1>1, DatabaseFrame
<1>9. CASE DeltaEmpty(deltas[t])
  <2>1. UNCHANGED <<ledger, ledgerIndex, latestSolid>>
    BY <1>9 DEF BuildStep
  <2>2. c \notin DeltaPoints
    <3> SUFFICES ASSUME NEW m \in DeltaRows, IndexOf[m] = c PROVE FALSE
      BY <1>7
    <3>1. m \in Signed
      BY DEF ConfirmationInv, ChainInv, TypeOK
    <3>2. m = t
      BY <1>1, <3>1
    <3> QED BY <1>9, <3>2 DEF DeltaRows
  <2>3. \A p \in DeltaPoints : p <= l \/ p >= c + 1
    <3> SUFFICES ASSUME NEW p \in DeltaPoints, ~ p <= l PROVE p >= c + 1
      OBVIOUS
    <3>1. p \in Nat /\ p >= c /\ p # c
      BY <1>2, <1>7, <2>2
    <3> QED BY <3>1
  <2>4. HasRows(latestSolid)'
    BY <1>1, <2>1, DatabaseFrame DEF HasRows, RowAt, ConfirmationInv, MemoryInv
  <2>5. StateAt(ledgerIndex)' = ledger
    BY <1>0, <1>2, <1>8, <2>1
  <2>6. MemoryInv'
    BY <1>0, <1>1, <1>2, <1>6, <1>8, <2>1, <2>3, <2>4, <2>5 DEF ConfirmationInv, MemoryInv
  <2> QED BY <1>3, <1>4, <2>6 DEF ConfirmationInv
<1>10. CASE ~ DeltaEmpty(deltas[t])
  <2>1. /\ ledger' = ApplyPatch(ledger, deltas[t]) /\ ledgerIndex' = c /\ latestSolid' = c
    BY Zenon, <1>0, <1>10 DEF BuildStep
  <2>2. t \in DeltaRows /\ c \in DeltaPoints
    BY <1>1, <1>10 DEF DeltaRows, DeltaPoints
  <2>3. /\ StateAt(c) = ApplyPatch(StateAt(l), deltas[t])
        /\ \A a \in Address : StateAt(c)[a] >= 0
    BY Zenon, <1>1, <1>2, <2>2 DEF ConfirmationInv, ChainInv
  <2>4. ledger' = StateAt(ledgerIndex)'
    BY <1>2, <1>8, <2>1, <2>3
  <2>5. \A a \in Address : ledger'[a] >= 0
    BY <1>2, <2>1, <2>3
  <2>6. HasRows(latestSolid)'
    <3>1. HasRows(c)'
      BY <1>1, <1>5, DatabaseFrame
    <3> QED BY <2>1, <3>1
  <2>7. \A p \in DeltaPoints : p <= c \/ p >= c + 1
    BY <1>7
  <2>8. MemoryInv'
    BY <1>1, <1>2, <1>6, <1>8, <2>1, <2>2, <2>4, <2>5, <2>6, <2>7 DEF MemoryInv
  <2> QED BY <1>3, <1>4, <2>8 DEF ConfirmationInv
<1> QED
  BY <1>9, <1>10

\* build_snapshot ends at the last delta: what has no row has no delta.
LEMMA StartStep ==
    ASSUME TypeOK, ConfirmationInv, Start
    PROVE  ConfirmationInv'
<1> USE DEF database, snapshot, solidifier
<1>1. /\ UNCHANGED <<snapshotIndex, rows, deltas, ledger, ledgerIndex, latestSolid, cursor,
                     current, pc, delta>>
      /\ mode = "building" /\ mode' = "up" /\ RowAt(cursor) = {}
  BY Zenon DEF Start
<1>2. /\ pc = "scan" /\ current = NoTx
      /\ ledgerIndex \in DeltaPoints /\ ledgerIndex < cursor /\ LastMilestone <= ledgerIndex
      /\ \A p \in DeltaPoints : p <= ledgerIndex \/ p >= cursor
      /\ ledger = StateAt(ledgerIndex) /\ ledgerIndex \in Nat /\ cursor \in Nat
  BY <1>1 DEF ConfirmationInv, MemoryInv, TypeOK
<1>3. ASSUME NEW p \in DeltaPoints, p >= cursor PROVE FALSE
  <2>1. PICK m \in DeltaRows : IndexOf[m] = p
    BY <1>2, <1>3 DEF DeltaPoints
  <2>2. m \in rows /\ snapshotIndex[m] = IndexOf[m] /\ IndexOf[m] \in Nat
    BY SignedInTx DEF ConfirmationInv, ChainInv, TypeOK
  <2>3. HasRows(p)
    BY <2>1, <2>2 DEF ConfirmationInv, ChainInv
  <2> QED
    BY <1>1, <1>2, <1>3, <2>1, <2>2, <2>3 DEF HasRows
<1>4. ASSUME NEW p \in DeltaPoints, \A q \in DeltaPoints : q <= p
      PROVE  StateAt(p) = ledger
  <2>1. p <= ledgerIndex /\ ledgerIndex <= p /\ p \in Nat
    BY <1>2, <1>3, <1>4 DEF DeltaPoints, DeltaRows
  <2>2. p = ledgerIndex
    BY <1>2, <2>1
  <2> QED BY <1>2, <2>2
<1>5. MarksInv' /\ ChainInv'
  BY <1>1, DatabaseFrame DEF ConfirmationInv
<1>6. MemoryInv'
  BY Zenon, <1>1, <1>2, <1>4, DatabaseFrame DEF ConfirmationInv, MemoryInv
<1>7. SolidifierInv'
  BY <1>1, <1>2 DEF SolidifierInv
<1> QED
  BY <1>5, <1>6, <1>7 DEF ConfirmationInv
-----------------------------------------------------------------------------
LEMMA NextConfirmation ==
    TypeOK /\ ConfirmationInv /\ [Next]_vars => ConfirmationInv'
<1> SUFFICES ASSUME TypeOK, ConfirmationInv, [Next]_vars PROVE ConfirmationInv'
  OBVIOUS
<1> USE DEF vars, database, snapshot, validator, solidifier
<1>1. ASSUME NEW t \in Tx, StoreTx(t) \/ AddCandidate(t) PROVE ConfirmationInv'
  BY <1>1, QuietStep DEF StoreTx, AddCandidate, confirmationVars
<1>2. CASE Validator
  <2>1. CASE ValidateStore
    BY <2>1, NewRowStep
  <2>2. CASE ~ ValidateStore
    BY Zenon, <1>2, <2>2, QuietStep
       DEF Validator, PopCandidate, ValidateDrop, ValidateIncomplete, UpdateLatest,
           confirmationVars
  <2> QED BY <2>1, <2>2
<1>3. CASE Solidifier
  BY Zenon, <1>3, DecideStep, GetLatestDeltaStep, MarkStep, StoreDeltaStep, ApplyDeltaStep,
     AdvanceStep DEF Solidifier
<1>4. CASE Crash
  BY <1>4, CrashStep
<1>5. CASE Reboot
  BY <1>5, RestartStep, BuildStepStep, StartStep DEF Reboot
<1>6. CASE UNCHANGED vars
  BY <1>6, QuietStep DEF confirmationVars
<1> QED
  BY Zenon, <1>1, <1>2, <1>3, <1>4, <1>5, <1>6 DEF Next

(***************************************************************************)
(* ConfirmationInv holds in every reachable state.                         *)
(***************************************************************************)
THEOREM ConfirmationInvariant == Spec => [](TypeOK /\ ConfirmationInv)
<1>1. Init => TypeOK /\ ConfirmationInv
  BY InitType, InitConfirmation
<1>2. TypeOK /\ ConfirmationInv /\ [Next]_vars => (TypeOK /\ ConfirmationInv)'
  BY NextType, NextConfirmation
<1> QED
  BY <1>1, <1>2, PTL DEF Spec

(***************************************************************************)
(* The latest snapshot is always the initial one plus the value of the     *)
(* transactions confirmed up to its index, whatever crashes and storage    *)
(* errors come between the three writes of update_snapshot.                *)
(***************************************************************************)
THEOREM LedgerCorrect == Spec => []LedgerMatchesConfirmed
<1>1. ConfirmationInv => LedgerMatchesConfirmed
  BY DEF ConfirmationInv, MemoryInv, StateAt, LedgerMatchesConfirmed
<1> QED
  BY <1>1, ConfirmationInvariant, PTL

(***************************************************************************)
(* No address is ever overdrawn and no funds appear or disappear: the      *)
(* latest snapshot keeps the supply of the initial one.                    *)
(***************************************************************************)
THEOREM SupplyIsConserved == Spec => []SupplyConserved
<1>1. TypeOK /\ ConfirmationInv => SupplyConserved
  <2> SUFFICES ASSUME TypeOK, ConfirmationInv PROVE SupplyConserved
    OBVIOUS
  <2>1. \A a \in Address : ledger[a] >= 0
    BY DEF ConfirmationInv, MemoryInv
  <2> DEFINE C == Confirmed(ledgerIndex)
  <2>2. C \in SUBSET Tx /\ C \cap InvalidTail = {}
    BY DEF Confirmed, ConfirmationInv, MarksInv
  <2>3. DeltaSum(ValueOf[C]) = 0 /\ ValueOf[C] \in Delta
    BY <2>2, ValidSumsToZero, ValueOfType
  <2>4. ledger = ApplyPatch(GenesisState, ValueOf[C])
    BY DEF ConfirmationInv, MemoryInv, StateAt
  <2>5. DeltaSum(ledger) = DeltaSum(GenesisState)
    BY <2>3, <2>4, GenesisType, DeltaSumAdd
  <2> QED BY <2>1, <2>5 DEF SupplyConserved
<1> QED
  BY <1>1, ConfirmationInvariant, PTL

(***************************************************************************)
(* A node that restarts always gets through build_snapshot.                *)
(***************************************************************************)
THEOREM RebuildAlwaysSucceeds == Spec => []RebuildSucceeds
<1>1. TypeOK /\ ConfirmationInv => RebuildSucceeds
  <2> SUFFICES ASSUME TypeOK, ConfirmationInv, mode = "building", NEW t \in RowAt(cursor)
               PROVE  /\ IsConsistent(CreatePatch(ledger, deltas[t]))
                      /\ DeltaSum(deltas[t]) = 0
    BY DEF RebuildSucceeds
  <2>1. t \in Tx /\ IndexOf[t] = cursor
    BY SignedInTx DEF RowAt, TypeOK
  <2>2. CASE DeltaEmpty(deltas[t])
    BY <2>2, EmptySum, EmptyType DEF DeltaEmpty, IsConsistent, CreatePatch
  <2>3. CASE ~ DeltaEmpty(deltas[t])
    <3>1. t \in DeltaRows
      BY <2>1, <2>3 DEF DeltaRows
    <3>2. StateAt(IndexOf[t]) = ApplyPatch(StateAt(ledgerIndex), deltas[t])
      BY <2>1, <3>1 DEF ConfirmationInv, ChainInv, MemoryInv
    <3>3. /\ \A a \in Address : StateAt(IndexOf[t])[a] >= 0
          /\ DeltaSum(deltas[t]) = 0
      BY Zenon, <3>1 DEF ConfirmationInv, ChainInv
    <3>4. ledger = StateAt(ledgerIndex)
      BY DEF ConfirmationInv, MemoryInv
    <3>5. \A a \in Address : ledger[a] + deltas[t][a] >= 0
      BY <3>2, <3>3, <3>4 DEF ApplyPatch
    <3> QED BY <3>3, <3>5 DEF IsConsistent, CreatePatch
  <2> QED BY <2>2, <2>3
<1> QED
  BY <1>1, ConfirmationInvariant, PTL

(***************************************************************************)
(* What update_delta computes for a solid tip is the ledger with all that  *)
(* is confirmed and all that the tip approves, each applied once.          *)
(***************************************************************************)
THEOREM TipViewExact == Spec => []TipViewIsExact
<1>1. TypeOK /\ ConfirmationInv => TipViewIsExact
  <2> SUFFICES ASSUME TypeOK, ConfirmationInv, NEW t \in stored
               PROVE  ApplyPatch(ledger, ValueOf[LatestDeltaTxs(t, {}, snapshotIndex,
                                                                ledgerIndex)])
                      = ApplyPatch(GenesisState,
                                   ValueOf[Confirmed(ledgerIndex) \cup Cone[t]])
    BY Zenon DEF TipViewIsExact
  <2>1. t \in Tx /\ ledgerIndex \in Nat
    BY DEF TypeOK
  <2> DEFINE S == Confirmed(ledgerIndex) \cup Cone[t]
  <2>2. LatestDeltaTxs(t, {}, snapshotIndex, ledgerIndex) = Cone[t] \ Confirmed(ledgerIndex)
    BY <2>1, LatestDeltaIs DEF ConfirmationInv
  <2>3. S \ Confirmed(ledgerIndex) = Cone[t] \ Confirmed(ledgerIndex)
    OBVIOUS
  <2>4. S \in SUBSET Tx /\ Confirmed(ledgerIndex) \subseteq S
    BY <2>1, ConeClosed DEF Confirmed
  <2>5. ApplyPatch(GenesisState, ValueOf[S])
           = ApplyPatch(StateAt(ledgerIndex), ValueOf[S \ Confirmed(ledgerIndex)])
    <3> HIDE DEF S
    <3> QED BY <2>1, <2>4, StateSplit
  <2>6. ledger = StateAt(ledgerIndex)
    BY DEF ConfirmationInv, MemoryInv
  <2> QED BY Zenon, <2>2, <2>3, <2>5, <2>6
<1> QED
  BY <1>1, ConfirmationInvariant, PTL

\* No milestone confirms a transaction whose bundle is invalid.
THEOREM InvalidIsNeverConfirmed == Spec => []InvalidNeverConfirmed
<1>1. TypeOK /\ ConfirmationInv => InvalidNeverConfirmed
  BY LedgerValidatorAssumption DEF ConfirmationInv, MarksInv, InvalidNeverConfirmed
<1> QED
  BY <1>1, ConfirmationInvariant, PTL

\* A snapshot index, once written, never changes.
THEOREM ConfirmationFinal == Spec => ConfirmationIsFinal
<1>1. TypeOK /\ ConfirmationInv /\ [Next]_vars
        => [\A t \in Tx : snapshotIndex[t] # 0 => snapshotIndex'[t] = snapshotIndex[t]]_vars
  <2> SUFFICES ASSUME TypeOK, ConfirmationInv, Next, NEW t \in Tx, snapshotIndex[t] # 0
               PROVE  snapshotIndex'[t] = snapshotIndex[t]
    OBVIOUS
  <2>1. CASE MarkConfirmed
    <3>1. pc = "mark" /\ current \in Tx
      BY <2>1, SignedInTx DEF MarkConfirmed, TypeOK
    <3>2. t \notin MilestoneTxs(current, snapshotIndex)
      BY <3>1, MilestoneTxsIs DEF ConfirmationInv
    <3> QED
      BY <2>1, <3>2 DEF MarkConfirmed
  <2>2. CASE ~ MarkConfirmed
    BY Zenon, <2>2 DEF Next, Validator, Solidifier, Reboot, StoreTx, AddCandidate, PopCandidate,
       ValidateDrop, ValidateIncomplete, ValidateStore, UpdateLatest, Scan, CheckFails,
       AlreadyConfirmed, GetLatestDelta, StoreDelta, ApplyDelta, Advance, Crash, Restart,
       BuildStep, Start, database
  <2> QED BY <2>1, <2>2
<1> QED
  BY <1>1, ConfirmationInvariant, PTL DEF Spec, ConfirmationIsFinal
=============================================================================
