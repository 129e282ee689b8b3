------------------------ MODULE LocalSnapshotsProofs ------------------------
(***************************************************************************)
(* Proofs about LocalSnapshots, for every tangle, every number of          *)
(* milestones, of crashes and of storage errors, and every configuration   *)
(* of snapshots and pruning.                                               *)
(***************************************************************************)
EXTENDS LocalSnapshotsSteps
USE ZenonT(10), SMTT(60)
-----------------------------------------------------------------------------
(* What is known, and the rows that are still needed.                      *)

LEMMA KnownStep ==
    ASSUME TypeInv, OrderInv, CountInv, GraphInv, KnownInv, [Next]_vars
    PROVE  KnownInv'
<1> USE DEF world, database, files, ledger, plan, manager, pruning, bounds, history
<1>1. CASE UNCHANGED vars \/ \E t \in Tx : Receive(t)
  BY <1>1 DEF vars, Receive, KnownInv
<1>2. CASE Prunes
  BY <1>2, PruningFrame DEF KnownInv
<1>3. lpc \in Aimed => Known(sindex, target)
  BY BelowSolid, Numbers DEF KnownInv, Known
<1>4. CASE Managing
  <2>1. UNCHANGED <<sindex, solidIndex>>
    BY <1>4, ManagerFrame
  <2>2. CASE metaFile' = metaFile
    BY <2>1, <2>2 DEF KnownInv
  <2>3. CASE WriteMeta
    <3>1. metaFile'.index = target /\ lpc \in Aimed
      BY <2>3 DEF WriteMeta, iota_snapshot_metadata_serialize_str, OrderInv, Named, Aimed
    <3> QED
      BY <1>3, <2>1, <3>1 DEF KnownInv
  <2>4. CASE TruncMeta
    BY <2>1, <2>4 DEF TruncMeta, KnownInv
  <2>5. CASE WriteFailed /\ lpc = "writeMeta"
    <3>1. next.index = target /\ lpc \in Aimed /\ next.index \in Index
      BY <2>5, Numbers DEF OrderInv, Named, Aimed
    <3>2. iota_snapshot_metadata_serialize_str(next) \in Meta
      BY <3>1, TextIsMeta DEF TypeInv
    <3>3. iota_snapshot_metadata_serialize_str(next).index = target
      BY <3>1 DEF iota_snapshot_metadata_serialize_str
    <3>4. metaFile' = TornFile \/ metaFile'.index = target
      BY <2>5, <3>2, <3>3, CutIsMeta DEF WriteFailed
    <3> QED
      BY <1>3, <2>1, <3>1, <3>4 DEF KnownInv
  <2>6. metaFile' = metaFile \/ WriteMeta \/ TruncMeta \/ (WriteFailed /\ lpc = "writeMeta")
    <3> USE DEF Abandon, Finish
    <3>1. CASE Check \/ DetermineFrom(initial.index) \/ ReplayRow \/ ReplayDone
      BY <3>1 DEF Check, DetermineFrom, ReplayRow, ReplayDone
    <3>2. CASE Metadata \/ OldSeps \/ CollectSeps({Coo[cursor]}) \/ SepsDone
      BY <3>2 DEF Metadata, OldSeps, CollectSeps, SepsDone
    <3>3. CASE UpdateIndex \/ UpdateSeps \/ TruncState \/ WriteState
      BY <3>3 DEF UpdateIndex, UpdateSeps, TruncState, WriteState
    <3>4. CASE Install \/ ManagerFault \/ WriteFailed
      BY <3>4 DEF Install, ManagerFault, WriteFailed
    <3> QED
      BY <1>4, <3>1, <3>2, <3>3, <3>4 DEF Managing, Manager, Determine, NewSeps
  <2> QED
    BY <2>2, <2>3, <2>4, <2>5, <2>6
<1>5. CASE Crash
  <2>1. UNCHANGED <<sindex, stateFile>> /\ solidIndex' = latest'.index
    BY <1>5 DEF Crash
  <2>2. metaFile' \notin {NoFile, TornFile} => Known(sindex, metaFile'.index)
    BY <1>3, <1>5, CrashFacts DEF KnownInv, Aimed
  <2>3. Known(sindex, initial'.index)
    <3>1. initial' = Loaded(metaFile')
      BY <1>5, CrashFacts
    <3>2. CASE ~ReadsMetadata(metaFile') \/ ~ReadsState(stateFile)
      BY <3>1, <3>2 DEF Loaded, BuiltIn, Known
    <3>3. CASE ReadsMetadata(metaFile') /\ ReadsState(stateFile)
      BY <2>2, <3>1, <3>3 DEF Loaded, ReadsMetadata, iota_snapshot_metadata_deserialize_str
    <3> QED
      BY <3>2, <3>3
  <2>4. latest'.index = initial'.index \/ latest'.index \in Deltas(initial'.index)
    BY <1>5, CrashFacts, RebuiltIs
  <2>5. \A i \in Deltas(initial'.index) : Known(sindex, i)
    BY SnapshotsAssumption DEF Deltas, GraphInv
  <2> QED
    BY <2>1, <2>2, <2>3, <2>4, <2>5 DEF KnownInv
<1> QED
  BY <1>1, <1>2, <1>4, <1>5, GraphOfConfirm DEF Next, Managing, Prunes

LEMMA RowsStep ==
    ASSUME TypeInv, OrderInv, CountInv, RowsInv, [Next]_vars
    PROVE  RowsInv'
<1> USE DEF world, database, files, ledger, plan, manager, pruning, bounds, history
<1>1. CASE UNCHANGED vars \/ \E t \in Tx : Receive(t)
  BY <1>1 DEF vars, Receive, RowsInv
<1>2. CASE Confirm
  <2>1. /\ UNCHANGED <<rows, initial, toPrune>> /\ solidIndex' = solidIndex + 1
        /\ solidIndex + 1 \in rows
    BY <1>2 DEF Confirm
  <2> QED
    BY <2>1, Numbers DEF RowsInv
<1>3. CASE Managing
  <2>1. UNCHANGED <<rows, solidIndex>>
    BY <1>3, ManagerFrame
  <2>2. CASE UpdateIndex
    <3>1. toPrune <= toPrune' /\ toPrune' \in Int /\ initial' = initial
      BY <2>2, Numbers DEF UpdateIndex, OrderInv, Aimed, Named
    <3> QED
      BY <2>1, <3>1, Numbers DEF RowsInv
  <2>3. CASE Install
    <3>1. initial.index <= initial'.index /\ initial'.index \in Int /\ toPrune' = toPrune
      BY <2>3, Numbers DEF Install, OrderInv, Aimed, Named
    <3> QED
      BY <2>1, <3>1, Numbers DEF RowsInv
  <2>4. UNCHANGED <<initial, toPrune>> \/ UpdateIndex \/ Install
    <3> USE DEF Abandon, Finish
    <3>1. CASE Check \/ DetermineFrom(initial.index) \/ ReplayRow \/ ReplayDone
      BY <3>1 DEF Check, DetermineFrom, ReplayRow, ReplayDone
    <3>2. CASE Metadata \/ OldSeps \/ CollectSeps({Coo[cursor]}) \/ SepsDone
      BY <3>2 DEF Metadata, OldSeps, CollectSeps, SepsDone
    <3>3. CASE UpdateSeps \/ TruncState \/ WriteState \/ TruncMeta \/ WriteMeta
      BY <3>3 DEF UpdateSeps, TruncState, WriteState, TruncMeta, WriteMeta
    <3>4. CASE ManagerFault \/ WriteFailed
      BY <3>4 DEF ManagerFault, WriteFailed
    <3> QED
      BY <1>3, <3>1, <3>2, <3>3, <3>4 DEF Managing, Manager, Determine, NewSeps
  <2> QED
    BY <2>1, <2>2, <2>3, <2>4 DEF RowsInv
<1>4. CASE Prunes
  <2>1. UNCHANGED <<initial, solidIndex, toPrune>>
    BY <1>4, PruningFrame
  <2>2. CASE DeleteRow
    <3>1. rows' = rows \ {lastPruned + 1} /\ lastPruned + 1 <= toPrune
      BY <2>2, Numbers DEF DeleteRow, OrderInv, Deleting
    <3> QED
      BY <2>1, <3>1, Numbers DEF RowsInv
  <2>3. rows' = rows \/ DeleteRow
    BY <1>4 DEF Prunes, Pruning, PruneStart, Collect, CollectUpTo, Record, RecordAnd, DeleteCone,
                DeleteMilestone, CollectFault, DeleteFault
  <2> QED
    BY <2>1, <2>2, <2>3 DEF RowsInv
<1>5. CASE Crash
  <2>1. rows' = rows /\ solidIndex' = latest'.index
    BY <1>5 DEF Crash
  <2>2. /\ latest'.index = initial'.index \/ latest'.index \in Deltas(initial'.index)
        /\ initial'.index \in 0 .. N
    BY <1>5, CrashFacts, RebuiltIs DEF Snapshot
  <2>3. \A i \in Index : i <= latest'.index /\ i > initial'.index => i \in rows
    BY <2>2, Numbers DEF Deltas
  <2> QED
    BY <2>1, <2>3 DEF RowsInv
<1> QED
  BY <1>1, <1>2, <1>3, <1>4, <1>5 DEF Next, Managing, Prunes

-----------------------------------------------------------------------------
(* Spent addresses.                                                        *)

LEMMA SpentStep ==
    ASSUME TypeInv, OrderInv, GraphInv, KnownInv, SpentInv, [Next]_vars,
           \A i \in Index : Coo[i] \notin Spenders
    PROVE  SpentInv'
<1> USE DEF world, database, files, ledger, plan, manager, pruning, bounds, history
<1>1. CASE UNCHANGED vars
  BY <1>1 DEF vars, SpentInv, SpentIsRecorded
<1>2. ASSUME NEW t \in Tx, Receive(t) PROVE SpentInv'
  <2>1. /\ sindex[t] = 0 /\ stored' = stored \cup {t} /\ UNCHANGED <<sindex, spentDb, ppc, batch>>
    BY <1>2 DEF Receive
  <2> QED
    BY <2>1 DEF SpentInv, SpentIsRecorded, GraphInv
<1>3. CASE Confirm
  <2>1. UNCHANGED <<stored, spentDb, ppc, batch>>
    BY <1>3 DEF Confirm
  <2>2. \A t \in Tx : sindex'[t] # 0 => sindex[t] # 0 \/ t \in stored
    <3>1. CASE sindex[Coo[solidIndex + 1]] = 0
      <4> DEFINE W == DfsToPast[Coo[solidIndex + 1]][Unconfirmed]
      <4>1. /\ sindex' = [t \in Tx |-> IF t \in W THEN solidIndex + 1 ELSE sindex[t]]
            /\ W \subseteq Unconfirmed
        BY <1>3, <3>1, ConfirmedSoFar
      <4> QED
        BY <4>1 DEF Unconfirmed
    <3>2. CASE sindex[Coo[solidIndex + 1]] # 0
      BY <1>3, <3>2 DEF Confirm
    <3> QED
      BY <3>1, <3>2
  <2> QED
    BY <2>1, <2>2, SnapshotsAssumption DEF SpentInv, SpentIsRecorded
<1>4. CASE Managing
  BY <1>4, ManagerFrame DEF SpentInv, SpentIsRecorded
<1>5. CASE Crash
  BY <1>5 DEF Crash, SpentInv, SpentIsRecorded
<1>6. CASE Prunes
  <2>0. sindex' = sindex
    BY <1>6, PruningFrame
  <2>1. CASE PruneStart \/ CollectUpTo(toPrune) \/ CollectFault \/ DeleteRow \/ DeleteFault
    BY <2>0, <2>1
       DEF PruneStart, CollectUpTo, CollectFault, DeleteRow, DeleteFault, SpentInv, SpentIsRecorded
  <2>2. CASE RecordAnd(batch, {})
    BY <2>0, <2>2 DEF RecordAnd, SpentInv, SpentIsRecorded
  <2>3. CASE DeleteCone
    BY <2>0, <2>3 DEF DeleteCone, SpentInv, SpentIsRecorded
  <2>4. CASE DeleteMilestone
    <3>1. Pruned \notin Spenders
      BY <2>4, PrunedIsKnown DEF DeleteMilestone, OrderInv, Deleting, Pruned
    <3> QED
      BY <2>0, <2>4, <3>1 DEF DeleteMilestone, SpentInv, SpentIsRecorded
  <2> QED
    BY <1>6, <2>1, <2>2, <2>3, <2>4 DEF Prunes, Pruning, Collect, Record
<1> QED
  BY <1>1, <1>2, <1>3, <1>4, <1>5, <1>6 DEF Next, Managing, Prunes

-----------------------------------------------------------------------------
(* What a milestone confirmed is deleted before the milestone.             *)

LEMMA ConeOfReceive ==
    ASSUME TypeInv, OrderInv, GraphInv, KnownInv, ConeInv, faults = 0, NEW t \in Tx, Receive(t)
    PROVE  ConeInv'
<1>0. /\ sindex[t] = 0 /\ t \notin stored /\ stored' = stored \cup {t} /\ rows \subseteq rows'
      /\ tips' = (tips \ Parents[t]) \cup {t}
      /\ UNCHANGED <<sindex, ppc, lastPruned, batch, faults>>
  BY DEF Receive, pruning, bounds
<1>1. \A i \in Index : Confirmed(stored', sindex, i) = Confirmed(stored, sindex, i)
  BY <1>0, Numbers DEF Confirmed
<1>2. ppc \in Deleting => lastPruned + 1 \in Index /\ Pruned # t /\ Pruned' = Pruned
  BY <1>0, PrunedIsKnown DEF OrderInv, Pruned
<1>3. ppc \in {"record", "deleteCone"} => t \notin batch
  BY <1>0 DEF GraphInv
<1>4. \A i \in Index : sindex[Coo[i]] = i => Coo[i] # t
  BY <1>0, Numbers
<1> QED
  BY <1>0, <1>1, <1>2, <1>3, <1>4 DEF ConeInv, Deleting

LEMMA ConeOfConfirm ==
    ASSUME TypeInv, OrderInv, GraphInv, KnownInv, ConeInv, faults = 0, Confirm
    PROVE  ConeInv'
<1> DEFINE i == solidIndex + 1
           W == DfsToPast[Coo[i]][Unconfirmed]
<1>0. UNCHANGED <<stored, rows, tips, ppc, lastPruned, batch, faults>> /\ i \in rows
  BY DEF Confirm, pruning, bounds
<1>1. CASE sindex[Coo[i]] # 0
  <2>1. sindex' = sindex
    BY <1>1 DEF Confirm
  <2> QED
    BY <1>0, <2>1 DEF ConeInv, Pruned
<1>2. CASE sindex[Coo[i]] = 0
  <2>1. /\ sindex' = [t \in Tx |-> IF t \in W THEN i ELSE sindex[t]]
        /\ W \subseteq Unconfirmed /\ Coo[i] \in W /\ i \in Index /\ Coo[i] \in Tx
        /\ \A t \in Tx : sindex[t] # 0 => sindex'[t] = sindex[t] /\ sindex[t] <= solidIndex
    BY <1>2, ConfirmedSoFar
  <2>2. W \subseteq DfsToPast[Coo[i]][W]
    <3>1. Unconfirmed \in SUBSET Tx
      BY DEF Unconfirmed, TypeInv
    <3> QED
      BY <2>1, <3>1, WalkAgain
  <2> HIDE DEF W
  <2>3. W \subseteq stored /\ W \subseteq Tx /\ \A t \in W : sindex[t] = 0 /\ sindex'[t] = i
    BY <2>1 DEF Unconfirmed, TypeInv
  <2>4. i \in 1 .. N /\ solidIndex \in Nat /\ i = solidIndex + 1
    BY <2>1, Numbers
  <2>5. \A t \in Tx : sindex'[t] = i => t \in W
    <3>1. \A t \in Tx : sindex[t] # i
      <4>1. \A t \in Tx : sindex[t] # 0 => sindex[t] <= solidIndex
        BY <2>1
      <4> QED
        BY <2>4, <4>1
    <3> QED
      BY <2>1, <3>1
  <2> HIDE DEF i
  <2>6. \A j \in Index : \A t \in Tx : j # i => (sindex'[t] = j <=> sindex[t] = j)
    BY <2>1, <2>3, Numbers
  <2>7. \A t \in stored : t \in Tx
    BY DEF TypeInv
  <2>8. Confirmed(stored, sindex', i) = W
    BY <2>3, <2>5, <2>7 DEF Confirmed
  <2>9. \A j \in Index : j # i => Confirmed(stored, sindex', j) = Confirmed(stored, sindex, j)
    BY <2>6, <2>7 DEF Confirmed
  <2>10. \A j \in Index : Coo[j] \in Tx
    BY SnapshotsAssumption
  <2>11. \A j \in Index : sindex'[Coo[j]] = j /\ Coo[j] \notin stored => Confirmed(stored, sindex', j) = {}
    BY <1>0, <2>1, <2>3, <2>6, <2>9, <2>10 DEF ConeInv
  <2>12. \A j \in Index : sindex'[Coo[j]] = j /\ Coo[j] \in stored
            => LET C == Confirmed(stored, sindex', j) IN C \subseteq DfsToPast[Coo[j]][C]
    BY <2>2, <2>6, <2>8, <2>9, <2>10 DEF ConeInv
  <2>13. \A t \in stored : sindex'[t] # 0 => sindex'[t] \in rows
    BY <1>0, <2>1, <2>7 DEF ConeInv
  <2>14. ppc \in Deleting => lastPruned + 1 \in Index /\ lastPruned + 1 # i /\ Pruned' = Pruned
    <3>1. ppc \in Deleting => lastPruned + 1 \in Index /\ lastPruned + 1 <= solidIndex
      BY PrunedIsKnown DEF OrderInv
    <3> QED
      BY <1>0, <2>4, <3>1 DEF Pruned
  <2> QED
    BY <1>0, <2>9, <2>11, <2>12, <2>13, <2>14 DEF ConeInv, Deleting
<1> QED
  BY <1>1, <1>2

\* What is collected at a milestone is what the milestone confirmed.
LEMMA CollectedIsCone ==
    ASSUME TypeInv, OrderInv, GraphInv, KnownInv, ConeInv, faults = 0,
           lastPruned < toPrune, ppc # "start"
    PROVE  Pruned \in ToPrune /\ ToPrune \cap stored = Confirmed(stored, sindex, lastPruned + 1)
<1> DEFINE p == lastPruned + 1
           B == {t \in stored : sindex[t] >= p}
           W == DfsToPast[Pruned][B]
           C == Confirmed(stored, sindex, p)
<1>1. Pruned \in Tx /\ sindex[Pruned] # 0 /\ B \in SUBSET Tx /\ p \in Index /\ Pruned = Coo[p]
  BY PrunedIsKnown DEF TypeInv, Pruned
<1>2. ToPrune = {Pruned} \cup W \cup UNION {Parents[t] : t \in W}
  BY DEF ToPrune, Visited
<1>3. \A t \in Tx : sindex[t] \in 0 .. N
  BY DEF TypeInv
<1>4. p \in 1 .. N /\ N \in Nat /\ lastPruned \in Nat
  BY <1>1, Numbers
<1>5. sindex[Pruned] <= p
  BY <1>1 DEF GraphInv
<1>6. W \subseteq {t \in B : sindex[t] <= p}
  <2> DEFINE S == {t \in B : sindex[t] <= p}
  <2>1. \A t \in S : \A x \in Parents[t] : x \in B => x \in S
    <3> SUFFICES ASSUME NEW t \in S, NEW x \in Parents[t], x \in B PROVE sindex[x] <= p
      OBVIOUS
    <3>1. t \in Tx /\ x \in Tx /\ sindex[t] # 0 /\ sindex[t] <= p
      BY <1>1, <1>3, <1>4
    <3>2. sindex[x] <= sindex[t]
      BY <3>1 DEF GraphInv
    <3> QED
      BY <1>3, <1>4, <3>1, <3>2
  <2>2. WalkClosed(S, Pruned, B)
    BY <1>5, <2>1 DEF WalkClosed
  <2>3. S \in SUBSET B
    OBVIOUS
  <2> HIDE DEF S, B
  <2>4. W \subseteq S
    BY <1>1, <2>2, <2>3, WalkReach
  <2> QED
    BY <2>4 DEF S
<1>7. \A t \in W : t \in Tx /\ sindex[t] # 0 /\ sindex[t] <= p
  BY <1>1, <1>3, <1>4, <1>6
<1>8. \A t \in ToPrune : t \in Tx /\ sindex[t] # 0 /\ sindex[t] <= p
  <2> HIDE DEF W
  <2>1. \A t \in W : \A x \in Parents[t] : x \in Tx /\ sindex[x] # 0 /\ sindex[x] <= p
    <3> SUFFICES ASSUME NEW t \in W, NEW x \in Parents[t]
                 PROVE  x \in Tx /\ sindex[x] # 0 /\ sindex[x] <= p
      OBVIOUS
    <3>1. x \in Tx /\ sindex[x] # 0 /\ sindex[x] <= sindex[t]
      BY <1>7, ParentsAreTx DEF GraphInv
    <3> QED
      BY <1>3, <1>4, <1>7, <3>1
  <2> QED
    BY <1>1, <1>2, <1>5, <1>7, <2>1
<1>9. \A t \in stored : sindex[t] # 0 => sindex[t] > lastPruned
  BY DEF ConeInv, GraphInv
<1>10. ToPrune \cap stored \subseteq C
  <2> SUFFICES ASSUME NEW t \in ToPrune, t \in stored PROVE sindex[t] = p
    BY DEF Confirmed
  <2>1. sindex[t] \in 0 .. N /\ sindex[t] <= p /\ sindex[t] > lastPruned
    BY <1>3, <1>8, <1>9
  <2> QED
    BY <1>4, <2>1
<1>11. C \subseteq ToPrune
  <2>1. CASE sindex[Pruned] = p /\ Pruned \in stored
    <3>1. C \subseteq DfsToPast[Pruned][C]
      BY <1>1, <2>1 DEF ConeInv
    <3>2. C \in SUBSET B
      BY <1>4 DEF Confirmed
    <3>3. DfsToPast[Pruned][C] \subseteq W
      BY <1>1, <3>2, WalkGrows
    <3> QED
      BY <1>2, <3>1, <3>3
  <2>2. CASE sindex[Pruned] = p /\ Pruned \notin stored
    BY <1>1, <2>2 DEF ConeInv
  <2>3. CASE sindex[Pruned] # p
    <3>1. \A t \in Tx : sindex[t] # p
      BY <1>1, <1>4, <2>3 DEF GraphInv
    <3> QED
      BY <3>1 DEF Confirmed, TypeInv
  <2> QED
    BY <2>1, <2>2, <2>3
<1>12. C \subseteq stored
  BY DEF Confirmed
<1> QED
  BY <1>2, <1>10, <1>11, <1>12

\* The deletion of some of what the milestone being pruned confirmed.
LEMMA ConeOfDelete ==
    ASSUME TypeInv, GraphInv, ConeInv, faults = 0, lastPruned + 1 \in Index, NEW S, S \subseteq stored,
           \A t \in stored \ S : sindex[t] = lastPruned + 1,
           Confirmed(S, sindex, lastPruned + 1) \subseteq {Pruned}
    PROVE  /\ \A i \in Index : sindex[Coo[i]] = i /\ Coo[i] \notin S => Confirmed(S, sindex, i) = {}
           /\ \A i \in Index : sindex[Coo[i]] = i /\ Coo[i] \in S
                               => LET C == Confirmed(S, sindex, i) IN C \subseteq DfsToPast[Coo[i]][C]
<1> DEFINE p == lastPruned + 1
<1>1. Pruned = Coo[p] /\ Pruned \in Tx /\ S \subseteq Tx
  BY SnapshotsAssumption DEF Pruned, TypeInv
<1>2. \A i \in Index : i # p => Confirmed(S, sindex, i) = Confirmed(stored, sindex, i)
  BY DEF Confirmed
<1>3. \A i \in Index : i # p /\ sindex[Coo[i]] = i => (Coo[i] \in S <=> Coo[i] \in stored)
  OBVIOUS
<1>4. Pruned \notin S => Confirmed(S, sindex, p) = {}
  BY DEF Confirmed
<1>5. ASSUME Pruned \in S, sindex[Pruned] = p
      PROVE  LET C == Confirmed(S, sindex, p) IN C \subseteq DfsToPast[Coo[p]][C]
  <2>1. Confirmed(S, sindex, p) = {Pruned}
    BY <1>5 DEF Confirmed
  <2>2. {Pruned} \in SUBSET Tx
    BY <1>1
  <2>3. WalkClosed(DfsToPast[Pruned][{Pruned}], Pruned, {Pruned})
    BY <1>1, <2>2, WalkReach
  <2>4. Pruned \in DfsToPast[Pruned][{Pruned}]
    BY <2>3 DEF WalkClosed
  <2> QED
    BY <1>1, <2>1, <2>4
<1> HIDE DEF p
<1>6. ASSUME NEW i \in Index, sindex[Coo[i]] = i, Coo[i] \notin S PROVE Confirmed(S, sindex, i) = {}
  BY <1>1, <1>2, <1>3, <1>4, <1>6 DEF ConeInv
<1>7. ASSUME NEW i \in Index, sindex[Coo[i]] = i, Coo[i] \in S
      PROVE  LET C == Confirmed(S, sindex, i) IN C \subseteq DfsToPast[Coo[i]][C]
  <2>1. CASE i = p
    BY <1>1, <1>5, <1>7, <2>1
  <2>2. CASE i # p
    BY <1>2, <1>3, <1>7, <2>2 DEF ConeInv
  <2> QED
    BY <2>1, <2>2
<1> QED
  BY <1>6, <1>7

LEMMA ConeOfPruning ==
    ASSUME TypeInv, OrderInv, GraphInv, KnownInv, ConeInv, faults = 0, faults' = 0, Prunes
    PROVE  ConeInv'
<1> USE DEF world, database, files, ledger, plan, manager, pruning, bounds, history
<1>0. sindex' = sindex /\ ~Fault
  <2>1. ~Fault
    BY DEF Fault
  <2> QED
    BY <2>1, PruningFrame
<1>1. CASE PruneStart
  <2>1. UNCHANGED <<stored, rows, tips>> /\ ppc' = "wait"
    BY <1>1 DEF PruneStart
  <2> QED
    BY <1>0, <2>1 DEF ConeInv
<1>2. CASE Collect
  <2>1. /\ UNCHANGED <<stored, rows, tips, lastPruned>> /\ ppc' = "record" /\ batch' = ToPrune
        /\ ppc = "wait" /\ lastPruned < toPrune
    BY <1>2 DEF Collect, CollectUpTo
  <2>2. Pruned \in ToPrune /\ ToPrune \cap stored = Confirmed(stored, sindex, lastPruned + 1)
    BY <2>1, CollectedIsCone
  <2> QED
    BY <1>0, <2>1, <2>2 DEF ConeInv, Pruned
<1>3. CASE Record
  <2>1. /\ UNCHANGED <<stored, rows, lastPruned, batch>> /\ ppc' = "deleteCone" /\ ppc = "record"
        /\ tips' = tips \ batch
    BY <1>0, <1>3 DEF Record, RecordAnd
  <2> QED
    BY <1>0, <2>1 DEF ConeInv, Pruned
<1>4. ppc \in Deleting => lastPruned + 1 \in Index /\ Pruned \in Tx /\ sindex[Pruned] # 0
  BY PrunedIsKnown DEF OrderInv
<1>5. CASE DeleteCone
  <2>1. /\ UNCHANGED <<rows, tips, lastPruned>> /\ ppc' = "deleteMilestone" /\ ppc = "deleteCone"
        /\ stored' = stored \ (batch \ {Pruned}) /\ Pruned' = Pruned
    BY <1>5 DEF DeleteCone, Pruned
  <2>2. /\ Pruned \in batch /\ batch \cap tips = {} /\ tips \subseteq stored
        /\ batch \cap stored = Confirmed(stored, sindex, lastPruned + 1)
    BY <2>1 DEF ConeInv
  <2>3. /\ stored' \subseteq stored /\ (\A t \in stored \ stored' : sindex[t] = lastPruned + 1)
        /\ Confirmed(stored', sindex, lastPruned + 1) \subseteq {Pruned}
    BY <2>1, <2>2 DEF Confirmed
  <2>4. /\ \A i \in Index : sindex[Coo[i]] = i /\ Coo[i] \notin stored' => Confirmed(stored', sindex, i) = {}
        /\ \A i \in Index : sindex[Coo[i]] = i /\ Coo[i] \in stored'
                            => LET C == Confirmed(stored', sindex, i) IN C \subseteq DfsToPast[Coo[i]][C]
    BY <1>4, <2>1, <2>3, ConeOfDelete DEF Deleting
  <2> QED
    BY <1>0, <2>1, <2>2, <2>3, <2>4 DEF ConeInv
<1>6. CASE DeleteMilestone
  <2>1. /\ UNCHANGED <<rows, tips, lastPruned>> /\ ppc' = "deleteRow" /\ ppc = "deleteMilestone"
        /\ stored' = stored \ {Pruned} /\ Pruned' = Pruned
    BY <1>6 DEF DeleteMilestone, Pruned
  <2>2. /\ Pruned \notin tips /\ tips \subseteq stored
        /\ Confirmed(stored, sindex, lastPruned + 1) \subseteq {Pruned}
    BY <2>1 DEF ConeInv
  <2>3. Pruned \in stored => sindex[Pruned] = lastPruned + 1
    <3>1. sindex[Pruned] <= lastPruned + 1 /\ sindex[Pruned] \in 0 .. N /\ sindex[Pruned] # 0
      BY <1>4, <2>1 DEF Deleting, GraphInv, Pruned, TypeInv
    <3>2. Pruned \in stored => sindex[Pruned] > lastPruned
      BY <2>1, <3>1 DEF ConeInv, GraphInv
    <3> QED
      BY <3>1, <3>2, Numbers
  <2>4. /\ stored' \subseteq stored /\ (\A t \in stored \ stored' : sindex[t] = lastPruned + 1)
        /\ Confirmed(stored', sindex, lastPruned + 1) = {}
    BY <2>1, <2>2, <2>3 DEF Confirmed
  <2>5. /\ \A i \in Index : sindex[Coo[i]] = i /\ Coo[i] \notin stored' => Confirmed(stored', sindex, i) = {}
        /\ \A i \in Index : sindex[Coo[i]] = i /\ Coo[i] \in stored'
                            => LET C == Confirmed(stored', sindex, i) IN C \subseteq DfsToPast[Coo[i]][C]
    BY <1>4, <2>1, <2>4, ConeOfDelete DEF Deleting
  <2> QED
    BY <1>0, <2>1, <2>2, <2>4, <2>5 DEF ConeInv
<1>7. CASE DeleteRow
  <2>1. /\ UNCHANGED <<stored, tips>> /\ ppc' = "wait" /\ ppc = "deleteRow"
        /\ rows' = rows \ {lastPruned + 1}
    BY <1>7 DEF DeleteRow
  <2>2. \A t \in stored : sindex[t] # lastPruned + 1
    BY <2>1 DEF ConeInv, Confirmed
  <2> QED
    BY <1>0, <2>1, <2>2 DEF ConeInv
<1>8. CASE CollectFault \/ DeleteFault
  BY <1>0, <1>8 DEF CollectFault, DeleteFault
<1> QED
  BY <1>1, <1>2, <1>3, <1>5, <1>6, <1>7, <1>8 DEF Prunes, Pruning

LEMMA ConeStep ==
    ASSUME TypeInv, OrderInv, GraphInv, KnownInv, ConeInv, [Next]_vars
    PROVE  ConeInv'
<1> SUFFICES ASSUME faults' = 0 PROVE ConeInv'
  BY DEF ConeInv
<1>0. faults = 0
  BY FaultsGrow, TypeFacts
<1>1. CASE UNCHANGED vars
  BY <1>1 DEF vars, world, database, pruning, bounds, ConeInv, Pruned
<1>2. CASE Managing
  BY <1>0, <1>2, ManagerFrame DEF ConeInv, Pruned
<1>3. CASE Crash
  BY <1>0, <1>3 DEF Crash, database, ConeInv
<1> QED
  BY <1>0, <1>1, <1>2, <1>3, ConeOfReceive, ConeOfConfirm, ConeOfPruning DEF Next, Managing, Prunes

-----------------------------------------------------------------------------
(* No delta is lost and none is applied twice.                             *)

\* A milestone with a delta is not in the past of an earlier one.
InOrder == \A i \in Index : \A j \in Valued : i < j => Coo[j] \notin Cone[Coo[i]]

\* A milestone with a delta confirms itself.
LEMMA ValuedOwn ==
    ASSUME TypeInv, GraphInv, InOrder, NEW j \in Valued, sindex[Coo[j]] # 0
    PROVE  sindex[Coo[j]] = j /\ Known(sindex, j)
<1>1. j \in Index /\ Coo[j] \in Tx
  BY SnapshotsAssumption
<1>2. sindex[Coo[j]] \in 0 .. N /\ sindex[Coo[j]] <= j /\ Coo[j] \in Cone[Coo[sindex[Coo[j]]]]
  BY <1>1 DEF TypeInv, GraphInv
<1>3. sindex[Coo[j]] \in Index
  BY <1>2, Numbers
<1>4. ~(sindex[Coo[j]] < j)
  BY <1>2, <1>3 DEF InOrder
<1>5. sindex[Coo[j]] = j
  BY <1>1, <1>2, <1>4, Numbers
<1> QED
  BY <1>1, <1>5 DEF GraphInv

\* A row that a known milestone has lost does not come back.
LEMMA RowsStayGone ==
    ASSUME TypeInv, NEW t \in Tx, Receive(t), NEW i, Known(sindex, i), NEW r \in 1 .. i, r \notin rows
    PROVE  r \notin rows'
  BY DEF Receive, Known

LEMMA SkipStep ==
    ASSUME TypeInv, OrderInv, CountInv, GraphInv, KnownInv, SkipInv, InOrder, [Next]_vars
    PROVE  SkipInv'
<1> USE DEF world, database, files, ledger, plan, manager, pruning, bounds, history
<1>0. \A j \in Valued : j \in Index /\ j \in 1 .. N
  BY SnapshotsAssumption DEF Index
<1>1. CASE UNCHANGED vars
  BY <1>1 DEF vars, SkipInv
<1>2. ASSUME NEW t \in Tx, Receive(t) PROVE SkipInv'
  <2>1. UNCHANGED <<sindex, latest, solidIndex>>
    BY <1>2 DEF Receive
  <2>2. ASSUME NEW j \in Valued, j > solidIndex, sindex[Coo[j]] # 0
        PROVE  \E k \in solidIndex + 1 .. j : k \notin rows'
    <3>1. PICK k \in solidIndex + 1 .. j : k \notin rows
      BY <2>2 DEF SkipInv
    <3>2. Known(sindex, j)
      BY <2>2, ValuedOwn
    <3>3. k \in 1 .. j
      BY <1>0, <3>1, Numbers
    <3> QED
      BY <1>2, <3>1, <3>2, <3>3, RowsStayGone
  <2> QED
    BY <2>1, <2>2 DEF SkipInv
<1>3. CASE Confirm
  <2> DEFINE i == solidIndex + 1
  <2>1. i \in rows /\ solidIndex' = i /\ rows' = rows /\ i \in Index
    BY <1>3, Numbers DEF Confirm
  <2>2. \A j \in Valued : j > i /\ sindex[Coo[j]] # 0 => \E k \in i + 1 .. j : k \notin rows
    <3> SUFFICES ASSUME NEW j \in Valued, j > i, sindex[Coo[j]] # 0
                 PROVE  \E k \in i + 1 .. j : k \notin rows
      OBVIOUS
    <3>1. PICK k \in i .. j : k \notin rows
      BY <1>0, Numbers DEF SkipInv
    <3> QED
      BY <1>0, <2>1, <3>1, Numbers
  <2>3. CASE sindex[Coo[i]] = 0
    <3> DEFINE W == DfsToPast[Coo[i]][Unconfirmed]
    <3>1. latest'.index = i
      BY <1>3, <2>1, <2>3, ConfirmFacts
    <3>2. /\ sindex' = [t \in Tx |-> IF t \in W THEN i ELSE sindex[t]]
          /\ W \subseteq Cone[Coo[i]]
      BY <1>3, <2>3, ConfirmedSoFar
    <3> HIDE DEF W
    <3>3. \A j \in Valued : j > i => Coo[j] \in Tx /\ Coo[j] \notin W
      BY <1>0, <2>1, <3>2, SnapshotsAssumption, Numbers DEF InOrder
    <3>4. \A j \in Valued : j > i => sindex'[Coo[j]] = sindex[Coo[j]]
      BY <3>2, <3>3
    <3>5. \A j \in Valued : j <= latest'.index \/ j > i
      BY <1>0, <2>1, <3>1, Numbers
    <3> QED
      BY <2>1, <2>2, <3>4, <3>5 DEF SkipInv
  <2>4. CASE sindex[Coo[i]] # 0
    <3>1. sindex' = sindex /\ latest' = latest
      BY <1>3, <2>4 DEF Confirm
    <3>2. i \notin Valued
      <4> SUFFICES ASSUME i \in Valued PROVE FALSE
        OBVIOUS
      <4>1. PICK k \in i .. i : k \notin rows
        BY <2>4, Numbers DEF SkipInv
      <4> QED
        BY <2>1, <4>1, Numbers
    <3>3. \A j \in Valued : j <= latest.index \/ j > i
      <4> SUFFICES ASSUME NEW j \in Valued, ~(j > i) PROVE j <= latest.index
        OBVIOUS
      <4>1. j # i
        BY <3>2
      <4>2. ~(j > solidIndex)
        BY <1>0, <4>1, Numbers
      <4> QED
        BY <4>2 DEF SkipInv
    <3> QED
      BY <2>1, <2>2, <3>1, <3>3 DEF SkipInv
  <2> QED
    BY <2>3, <2>4
<1>4. CASE Managing
  BY <1>4, ManagerFrame DEF SkipInv
<1>5. CASE Prunes
  <2>1. UNCHANGED <<sindex, latest, solidIndex>>
    BY <1>5, PruningFrame
  <2>2. rows' \subseteq rows
    BY <1>5 DEF Prunes, Pruning, PruneStart, Collect, CollectUpTo, Record, RecordAnd, DeleteCone,
                DeleteMilestone, DeleteRow, CollectFault, DeleteFault
  <2> QED
    BY <2>1, <2>2 DEF SkipInv
<1>6. CASE Crash
  <2> DEFINE f == initial'.index
             m == latest'.index
  <2>1. UNCHANGED <<sindex, rows>> /\ solidIndex' = m
    BY <1>6 DEF Crash
  <2>2. /\ m \in Deltas(f) \cup {f} /\ m \in 0 .. N /\ f \in 0 .. N /\ f <= m
        /\ \A i \in Deltas(f) : i <= m
    BY <1>6, CrashFacts, RebuiltIs DEF Snapshot
  <2> HIDE DEF f, m
  <2>3. ASSUME NEW j \in Valued, j > m, sindex[Coo[j]] # 0
        PROVE  \E k \in m + 1 .. j : k \notin rows
    <3>1. sindex[Coo[j]] = j
      BY <2>3, ValuedOwn
    <3>2. j \notin Deltas(f)
      BY <1>0, <2>2, <2>3, Numbers
    <3>3. j > f
      BY <1>0, <2>2, <2>3, Numbers
    <3>4. PICK k \in f + 1 .. j : k \notin rows
      BY <1>0, <3>1, <3>2, <3>3 DEF Deltas
    <3>5. m = f \/ f + 1 .. m \subseteq rows
      BY <2>2 DEF Deltas
    <3>6. k \in m + 1 .. j
      BY <1>0, <2>2, <3>4, <3>5, Numbers
    <3> QED
      BY <3>4, <3>6
  <2>4. \A j \in Valued : j <= m \/ j > m
    BY <1>0, <2>2, Numbers
  <2> QED
    BY <2>1, <2>3, <2>4 DEF SkipInv, m
<1> QED
  BY <1>1, <1>2, <1>3, <1>4, <1>5, <1>6 DEF Next, Managing, Prunes

LEMMA EarlyStep ==
    ASSUME TypeInv, OrderInv, CountInv, EarlyInv, [Next]_vars
    PROVE  EarlyInv'
<1> USE DEF world, database, files, ledger, plan, manager, pruning, bounds, history
<1> SUFFICES ASSUME Calm', lpc' \notin Told \/ ~PruningEnabled PROVE toPrune' <= initial'.index
  BY DEF EarlyInv, Told
<1>0. Calm
  BY FaultsGrow, TypeFacts DEF Calm
<1>1. CASE UNCHANGED <<initial, toPrune, lpc>>
  BY <1>0, <1>1 DEF EarlyInv
<1>2. CASE UNCHANGED vars \/ (\E t \in Tx : Receive(t)) \/ Confirm
  BY <1>1, <1>2 DEF vars, Receive, Confirm
<1>3. CASE Prunes
  BY <1>1, <1>3, PruningFrame
<1>4. CASE Crash
  <2>1. toPrune' = initial'.index /\ initial'.index \in 0 .. N
    BY <1>4, CrashFacts DEF Crash, Snapshot
  <2> QED
    BY <2>1
<1>5. CASE Managing
  <2> USE DEF Goto, Abandon, Finish
  <2>1. CASE lpc \notin Told /\ UNCHANGED <<initial, toPrune>>
    BY <1>0, <2>1 DEF EarlyInv
  <2>2. CASE Check \/ DetermineFrom(initial.index) \/ ReplayRow \/ ReplayDone
    BY <2>1, <2>2 DEF Check, DetermineFrom, ReplayRow, ReplayDone, Told
  <2>3. CASE Metadata \/ OldSeps \/ CollectSeps({Coo[cursor]}) \/ SepsDone \/ ManagerFault
    BY <2>1, <2>3 DEF Metadata, OldSeps, CollectSeps, SepsDone, ManagerFault, Told
  <2>4. CASE UpdateIndex
    BY <2>4 DEF UpdateIndex, Told, OrderInv
  <2>5. CASE UpdateSeps \/ TruncState \/ WriteState \/ TruncMeta \/ WriteMeta
    BY <1>0, <2>5 DEF UpdateSeps, TruncState, WriteState, TruncMeta, WriteMeta, Told, EarlyInv
  <2>6. CASE Install
    BY <2>6 DEF Install, OrderInv, Aimed, Named
  <2>7. CASE WriteFailed
    <3>1. faults' # 0
      BY <2>7, TypeFacts DEF WriteFailed, Fault
    <3> QED
      BY <1>0, <2>7, <3>1 DEF WriteFailed, EarlyInv, Calm
  <2> QED
    BY <1>5, <2>2, <2>3, <2>4, <2>5, <2>6, <2>7 DEF Managing, Manager, Determine, NewSeps
<1> QED
  BY <1>2, <1>3, <1>4, <1>5 DEF Next, Managing, Prunes

LEMMA ShortStep ==
    ASSUME TypeInv, OrderInv, KnownInv, ShortInv, [Next]_vars
    PROVE  ShortInv'
<1> USE DEF world, database, files, ledger, plan, manager, pruning, bounds, history
<1>1. CASE UNCHANGED vars \/ Confirm
  BY <1>1 DEF vars, Confirm, ShortInv
<1>2. ASSUME NEW t \in Tx, Receive(t) PROVE ShortInv'
  <2>1. UNCHANGED <<lpc, cursor, target>>
    BY <1>2 DEF Receive
  <2>2. lpc \in {"metadata", "oldSeps"} /\ cursor < target => cursor + 1 \in 1 .. solidIndex
    BY BelowSolid, Numbers DEF Aimed
  <2> QED
    BY <1>2, <2>1, <2>2, RowsStayGone DEF ShortInv, KnownInv
<1>3. CASE Prunes
  <2>1. rows' \subseteq rows
    BY <1>3 DEF Prunes, Pruning, PruneStart, Collect, CollectUpTo, Record, RecordAnd, DeleteCone,
                DeleteMilestone, DeleteRow, CollectFault, DeleteFault
  <2> QED
    BY <1>3, <2>1, PruningFrame DEF ShortInv
<1>4. CASE Crash
  BY <1>4 DEF Crash, ShortInv
<1>5. CASE Managing
  <2> USE DEF Goto, Abandon, Finish
  <2>0. rows' = rows
    BY <1>5, ManagerFrame
  <2>1. CASE Check \/ DetermineFrom(initial.index) \/ ReplayRow
    BY <2>0, <2>1 DEF Check, DetermineFrom, ReplayRow, ShortInv
  <2>2. CASE ReplayDone
    BY <2>0, <2>2, Numbers DEF ReplayDone, ShortInv
  <2>3. CASE Metadata
    BY <2>0, <2>3 DEF Metadata, AfterSeps, ShortInv
  <2>4. CASE OldSeps \/ CollectSeps({Coo[cursor]}) \/ SepsDone \/ ManagerFault
    BY <2>0, <2>4 DEF OldSeps, CollectSeps, SepsDone, AfterSeps, ManagerFault, ShortInv
  <2>5. CASE UpdateIndex \/ UpdateSeps \/ TruncState \/ WriteState \/ TruncMeta \/ WriteMeta
    BY <2>0, <2>5 DEF UpdateIndex, UpdateSeps, TruncState, WriteState, TruncMeta, WriteMeta, ShortInv
  <2>6. CASE Install \/ WriteFailed
    BY <2>0, <2>6 DEF Install, WriteFailed, ShortInv
  <2> QED
    BY <1>5, <2>1, <2>2, <2>3, <2>4, <2>5, <2>6 DEF Managing, Manager, Determine, NewSeps
<1> QED
  BY <1>1, <1>2, <1>3, <1>4, <1>5 DEF Next, Managing, Prunes

\* One more delta on an exact state.
LEMMA AppliedNext ==
    ASSUME NEW i \in Int, NEW k \in Index, i < k, N \in Nat,
           \A j \in Valued : j <= i \/ j >= k
    PROVE  [Applied(i) EXCEPT ![k] = IF k \in Valued THEN @ + 1 ELSE @] = Applied(k)
<1> DEFINE new == [Applied(i) EXCEPT ![k] = IF k \in Valued THEN @ + 1 ELSE @]
<1>0. k \in 1 .. N
  BY DEF Index
<1>1. Applied(i)[k] = 0
  BY <1>0 DEF Applied
<1>2. new[k] = Applied(k)[k]
  BY <1>0, <1>1 DEF Applied
<1>3. ASSUME NEW j \in Index, j # k PROVE new[j] = Applied(k)[j]
  <2>1. new[j] = Applied(i)[j] /\ j \in 1 .. N
    BY <1>3 DEF Applied, Index
  <2>2. j \in Valued => (j <= i <=> j <= k)
    BY <1>0, <1>3, <2>1
  <2> QED
    BY <2>1, <2>2 DEF Applied
<1>4. new = [j \in Index |-> new[j]] /\ Applied(k) = [j \in Index |-> Applied(k)[j]]
  BY DEF Applied
<1> HIDE DEF new
<1>5. \A j \in Index : new[j] = Applied(k)[j]
  BY <1>2, <1>3
<1> QED
  BY <1>4, <1>5 DEF new

\* Rebuilding an exact snapshot gives an exact snapshot.
LEMMA RebuiltExact ==
    ASSUME TypeInv, GraphInv, InOrder, NEW from \in Snapshot, from.state = Applied(from.index)
    PROVE  Rebuilt(from).state = Applied(Rebuilt(from).index)
<1> DEFINE f == from.index
           m == Rebuilt(from).index
           D == Deltas(f)
<1>1. /\ m \in D \cup {f} /\ m \in 0 .. N /\ f <= m /\ \A i \in D : i <= m
      /\ Rebuilt(from).state = [i \in Index |-> IF i \in D THEN from.state[i] + 1 ELSE from.state[i]]
  BY RebuiltIs
<1>2. f \in 0 .. N /\ N \in Nat /\ Index = 1 .. N /\ Valued \subseteq Index
  BY Numbers, SnapshotsAssumption DEF Snapshot
<1>3. \A i \in D : i \in Valued /\ i > f
  BY DEF Deltas
<1>4. ASSUME NEW i \in Valued, i > f, i <= m PROVE i \in D
  <2>1. m \in D /\ m \in Index
    BY <1>1, <1>2, <1>4
  <2>2. f + 1 .. m \subseteq rows /\ sindex[Coo[m]] = m /\ m \in Valued
    BY <2>1 DEF Deltas
  <2>3. f + 1 .. i \subseteq rows
    BY <1>2, <1>4, <2>1, <2>2
  <2>4. Known(sindex, m)
    BY <1>2, <2>1, <2>2, ValuedOwn
  <2>5. sindex[Coo[i]] # 0
    BY <1>2, <1>4, <2>1, <2>4 DEF Known
  <2>6. sindex[Coo[i]] = i
    BY <2>5, ValuedOwn
  <2> QED
    BY <1>2, <1>4, <2>3, <2>6 DEF Deltas
<1> HIDE DEF D, m, f
<1>5. ASSUME NEW i \in Index
      PROVE  (IF i \in D THEN from.state[i] + 1 ELSE from.state[i]) = IF i <= m /\ i \in Valued THEN 1 ELSE 0
  <2>1. from.state[i] = IF i <= f /\ i \in Valued THEN 1 ELSE 0
    BY DEF Applied, f
  <2>2. CASE i \in D
    BY <1>1, <1>2, <1>3, <2>1, <2>2
  <2>3. CASE i \notin D
    <3>1. i \in Valued => (i <= f <=> i <= m)
      BY <1>1, <1>2, <1>4, <2>3
    <3> QED
      BY <2>1, <2>3, <3>1
  <2> QED
    BY <2>2, <2>3
<1> QED
  BY <1>1, <1>5 DEF Applied, m

\* What the constants allow: the entry points of a snapshot are always
\* collected, or pruning does not meet a snapshot that was given up.
Careful == MaxDepth >= N \/ MaxFaults = 0 \/ ~PruningEnabled

LEMMA ExactOfManager ==
    ASSUME TypeInv, OrderInv, GraphInv, KnownInv, RowsInv, EarlyInv, ShortInv, ExactInv, Careful, Managing
    PROVE  ExactInv'
<1> USE DEF world, database, files, ledger, plan, manager, pruning, bounds, history,
            Goto, Abandon, Finish
<1>0. UNCHANGED <<stored, rows, latest>>
  BY ManagerFrame
<1>1. CASE Check \/ ManagerFault
  BY <1>0, <1>1 DEF Check, ManagerFault, ExactInv, Told
<1>2. CASE Determine
  BY <1>0, <1>2 DEF Determine, DetermineFrom, ExactInv, Told
<1>3. CASE ReplayRow
  <2>1. /\ lpc = "replay" /\ UNCHANGED <<lpc, initial, target, stateFile, metaFile, cut>>
        /\ cursor' = cursor + 1 /\ cursor + 1 \in Index /\ cursor < cursor + 1 /\ cursor \in Int
    BY <1>3, Numbers DEF ReplayRow
  <2>2. next'.state = [next.state EXCEPT ![cursor + 1] = IF cursor + 1 \in Valued THEN @ + 1 ELSE @]
    BY <1>3 DEF ReplayRow, TypeInv, Snapshot
  <2>3. \A j \in Valued : j <= cursor \/ j >= cursor + 1
    BY SnapshotsAssumption, Numbers
  <2>4. [Applied(cursor) EXCEPT ![cursor + 1] = IF cursor + 1 \in Valued THEN @ + 1 ELSE @]
          = Applied(cursor + 1)
    BY <2>1, <2>3, AppliedNext, Numbers
  <2> QED
    BY <1>0, <2>1, <2>2, <2>4 DEF ExactInv, Told
<1>4. CASE ReplayDone
  <2>1. [next EXCEPT !.index = cursor].state = next.state
    BY DEF TypeInv, Snapshot
  <2> QED
    BY <1>0, <1>4, <2>1 DEF ReplayDone, ExactInv, Told
<1>5. CASE Metadata
  <2>1. /\ next'.state = next.state /\ lpc = "metadata"
        /\ UNCHANGED <<initial, target, cursor, stateFile, metaFile, cut>>
    BY <1>5 DEF Metadata, TypeInv, Snapshot
  <2>2. CASE latest.index - target <= MaxDepth
    <3>1. lpc' = "oldSeps"
      BY <1>5, <2>2 DEF Metadata
    <3> QED
      BY <1>0, <2>1, <3>1 DEF ExactInv, Told
  <2>3. CASE ~(latest.index - target <= MaxDepth)
    <3>1. lpc' \in {"index", "truncState"}
      BY <1>5, <2>3 DEF Metadata, AfterSeps
    <3>2. ~(MaxDepth >= N)
      BY <2>3, Numbers
    <3>3. Calm
      BY <3>2, TypeFacts DEF Careful, Calm
    <3>4. toPrune <= initial.index
      BY <2>1, <3>3 DEF EarlyInv, Told
    <3>5. cursor < target => cursor + 1 \in rows
      <4> SUFFICES ASSUME cursor < target PROVE cursor + 1 \in rows
        OBVIOUS
      <4>1. initial.index <= cursor /\ target <= solidIndex
        BY <2>1, BelowSolid DEF OrderInv, Aimed
      <4>2. /\ cursor + 1 \in Index /\ cursor + 1 <= solidIndex
            /\ cursor + 1 > initial.index /\ cursor + 1 > toPrune
        BY <3>4, <4>1, Numbers
      <4> QED
        BY <4>2 DEF RowsInv
    <3>6. cursor = target
      BY <2>1, <3>5, Numbers DEF ShortInv, OrderInv
    <3> QED
      BY <1>0, <2>1, <3>1, <3>6 DEF ExactInv, Told
  <2> QED
    BY <2>2, <2>3
<1>6. CASE OldSeps
  <2>1. CASE Coo[target] \in stored
    <3>1. /\ next'.state = next.state /\ lpc = "oldSeps" /\ lpc' = "newSeps" /\ cursor' = target
          /\ UNCHANGED <<initial, target, stateFile, metaFile, cut>>
      BY <1>6, <2>1 DEF OldSeps, TypeInv, Snapshot
    <3>2. initial.index <= cursor /\ cursor <= target /\ initial.index < target
      BY <3>1 DEF OrderInv, Aimed
    <3>3. target \in rows /\ target \in Index
      BY <2>1, <3>2, Numbers DEF GraphInv
    <3>4. cursor = target \/ Missing(target)
      <4> SUFFICES ASSUME cursor # target PROVE Missing(target)
        OBVIOUS
      <4>1. cursor < target /\ cursor + 1 \notin rows
        BY <3>1, <3>2, Numbers DEF ShortInv
      <4>2. cursor + 1 # target
        BY <3>3, <4>1
      <4>3. cursor + 1 \in Index /\ initial.index < cursor + 1 /\ cursor + 1 < target
        BY <3>2, <4>1, <4>2, Numbers
      <4> QED
        BY <4>1, <4>3 DEF Missing
    <3>5. Missing(target) => Missing(cursor)'
      BY <1>0, <3>1 DEF Missing
    <3> QED
      BY <1>0, <3>1, <3>4, <3>5 DEF ExactInv, Told
  <2>2. CASE Coo[target] \notin stored
    BY <1>0, <1>6, <2>2 DEF OldSeps, ExactInv, Told
  <2> QED
    BY <2>1, <2>2
<1>7. CASE NewSeps
  <2>1. CASE cursor - 1 \notin rows /\ cursor - 1 > initial.index
    BY <1>0, <1>7, <2>1 DEF NewSeps, CollectSeps, ExactInv, Told
  <2>2. CASE ~(cursor - 1 \notin rows /\ cursor - 1 > initial.index)
    <3>1. /\ next'.state = next.state /\ lpc = "newSeps" /\ lpc' = lpc
          /\ cursor' = IF cursor - 1 \in rows THEN cursor - 1 ELSE cursor
          /\ UNCHANGED <<initial, target, stateFile, metaFile, cut>>
      BY <1>7, <2>2 DEF NewSeps, CollectSeps, TypeInv, Snapshot
    <3>2. Missing(cursor) => Missing(cursor)'
      <4> SUFFICES ASSUME NEW r \in Index, initial.index < r, r < cursor, r \notin rows
                   PROVE  r < cursor'
        BY <1>0, <3>1 DEF Missing
      <4> QED
        BY <3>1, Numbers
    <3> QED
      BY <1>0, <3>1, <3>2 DEF ExactInv, Told
  <2> QED
    BY <2>1, <2>2
<1>8. CASE SepsDone
  <2>1. ~Missing(cursor)
    BY <1>8, Numbers DEF SepsDone, Missing
  <2> QED
    BY <1>0, <1>8, <2>1 DEF SepsDone, AfterSeps, ExactInv, Told
<1>9. CASE UpdateIndex \/ UpdateSeps
  BY <1>0, <1>9 DEF UpdateIndex, UpdateSeps, ExactInv, Told
<1>10. CASE TruncState \/ WriteState \/ TruncMeta
  BY <1>0, <1>10 DEF TruncState, WriteState, TruncMeta, ExactInv, Told
<1>11. CASE WriteMeta
  <2>1. metaFile'.index = target
    BY <1>11 DEF WriteMeta, iota_snapshot_metadata_serialize_str, OrderInv, Named, Aimed
  <2> QED
    BY <1>0, <1>11, <2>1 DEF WriteMeta, ExactInv, Told
<1>12. CASE Install
  <2>1. next.index = target
    BY <1>12 DEF Install, OrderInv, Named, Aimed
  <2> QED
    BY <1>0, <1>12, <2>1 DEF Install, ExactInv, Told
<1>13. CASE WriteFailed
  BY <1>0, <1>13 DEF WriteFailed, ExactInv, Told
<1> QED
  BY <1>1, <1>2, <1>3, <1>4, <1>5, <1>6, <1>7, <1>8, <1>9, <1>10, <1>11, <1>12, <1>13
     DEF Managing, Manager

LEMMA ExactStep ==
    ASSUME TypeInv, OrderInv, CountInv, GraphInv, KnownInv, RowsInv, SkipInv, EarlyInv, ShortInv,
           ExactInv, InOrder, Careful, [Next]_vars
    PROVE  ExactInv'
<1> USE DEF world, database, files, ledger, plan, manager, pruning, bounds, history
<1>1. CASE UNCHANGED vars
  BY <1>1 DEF vars, ExactInv, Missing, Told
<1>2. ASSUME NEW t \in Tx, Receive(t) PROVE ExactInv'
  <2>1. UNCHANGED <<initial, latest, next, lpc, target, cursor, stateFile, metaFile, cut>>
    BY <1>2 DEF Receive
  <2>2. lpc = "newSeps" /\ Missing(cursor) => Missing(cursor)'
    <3> SUFFICES ASSUME lpc = "newSeps", NEW r \in Index, initial.index < r, r < cursor, r \notin rows
                 PROVE  r \notin rows'
      BY <2>1 DEF Missing
    <3>1. r \in 1 .. solidIndex
      BY BelowSolid, Numbers DEF OrderInv, Aimed
    <3> QED
      BY <1>2, <3>1, RowsStayGone DEF KnownInv
  <2> QED
    BY <2>1, <2>2 DEF ExactInv, Told
<1>3. CASE Confirm
  <2>1. UNCHANGED <<initial, next, lpc, target, cursor, stateFile, metaFile, cut, rows>>
    BY <1>3 DEF Confirm
  <2>2. latest.state = Applied(latest.index) => latest'.state = Applied(latest'.index)
    <3> DEFINE i == solidIndex'
    <3>1. i \in Index /\ i = solidIndex + 1
      BY <1>3, ConfirmFacts
    <3>2. CASE sindex[Coo[i]] # 0
      BY <1>3, <3>2, ConfirmFacts
    <3>3. CASE sindex[Coo[i]] = 0
      <4>1. /\ latest'.index = i
            /\ latest'.state = [latest.state EXCEPT ![i] = IF i \in Valued THEN @ + 1 ELSE @]
        BY <1>3, <3>3, ConfirmFacts
      <4>2. latest.index < i /\ latest.index \in Int /\ N \in Nat
        BY <3>1, Numbers DEF OrderInv
      <4>3. \A j \in Valued : j <= latest.index \/ j >= i
        BY <3>1, SnapshotsAssumption, Numbers DEF SkipInv
      <4> HIDE DEF i
      <4>4. [Applied(latest.index) EXCEPT ![i] = IF i \in Valued THEN @ + 1 ELSE @] = Applied(i)
        BY <3>1, <4>2, <4>3, AppliedNext
      <4> QED
        BY <4>1, <4>4
    <3> QED
      BY <3>2, <3>3
  <2> QED
    BY <2>1, <2>2 DEF ExactInv, Missing, Told
<1>4. CASE Prunes
  <2>1. rows' \subseteq rows
    BY <1>4 DEF Prunes, Pruning, PruneStart, Collect, CollectUpTo, Record, RecordAnd, DeleteCone,
                DeleteMilestone, DeleteRow, CollectFault, DeleteFault
  <2>2. Missing(cursor) => Missing(cursor)'
    BY <1>4, <2>1, PruningFrame DEF Missing
  <2> QED
    BY <1>4, <2>2, PruningFrame DEF ExactInv, Told
<1>5. CASE Crash
  <2> SUFFICES ASSUME ~cut' PROVE ExactInv'
    BY DEF ExactInv
  <2>1. ~cut /\ lpc \notin Writing /\ metaFile' = metaFile /\ stateFile' = stateFile /\ lpc' = "check"
    BY <1>5 DEF Crash, Writing
  <2>2. initial' = Loaded(metaFile) /\ latest' = Rebuilt(initial') /\ initial' \in Snapshot
    BY <1>5, <2>1, CrashFacts
  <2>3. /\ metaFile \notin {NoFile, TornFile} /\ stateFile \notin {NoFile, TornFile}
           => stateFile = Applied(metaFile.index)
    BY <2>1 DEF ExactInv, Writing
  <2>4. initial'.state = Applied(initial'.index)
    BY <2>2, <2>3
       DEF Loaded, ReadsMetadata, ReadsState, BuiltIn, iota_snapshot_metadata_deserialize_str
  <2>5. latest'.state = Applied(latest'.index)
    BY <2>2, <2>4, RebuiltExact
  <2> QED
    BY <2>1, <2>3, <2>4, <2>5 DEF ExactInv, Told
<1> QED
  BY <1>1, <1>2, <1>3, <1>4, <1>5, ExactOfManager DEF Next, Managing, Prunes

-----------------------------------------------------------------------------
(* A restart rebuilds the ledger.                                          *)

\* The entry points of a new snapshot come to hold its milestones.
LEMMA RestartOfManager ==
    ASSUME TypeInv, OrderInv, RowsInv, ExactInv, RestartInv, MaxDepth >= N,
           faults = 0, faults' = 0, Managing
    PROVE  RestartInv'
<1> USE DEF world, database, files, ledger, plan, manager, pruning, bounds, history,
            Goto, Abandon, Finish
<1>0. UNCHANGED <<rows, latest, solidIndex, ppc, lastPruned, raced>> /\ ~Fault
  <2>1. ~Fault
    BY DEF Fault
  <2> QED
    BY <2>1, ManagerFrame
<1>1. CASE Check \/ Determine \/ ReplayRow \/ ReplayDone
  <2>1. /\ lpc \in {"check", "determine", "replay"} /\ UNCHANGED <<initial, stateFile, metaFile, cut>>
        /\ lpc' \in {"check", "determine", "replay", "metadata"}
    BY <1>1 DEF Check, Determine, DetermineFrom, ReplayRow, ReplayDone
  <2> QED
    BY <1>0, <2>1 DEF RestartInv, Writing, OnDisk, Deleting
<1>2. CASE Metadata
  <2>1. latest.index - target <= MaxDepth
    BY Numbers
  <2>2. lpc = "metadata" /\ lpc' = "oldSeps" /\ UNCHANGED <<initial, stateFile, metaFile, cut>>
    BY <1>2, <2>1 DEF Metadata
  <2> QED
    BY <1>0, <2>2 DEF RestartInv, Writing, OnDisk, Deleting
<1>3. CASE OldSeps
  <2>1. /\ lpc = "oldSeps" /\ UNCHANGED <<initial, target, stateFile, metaFile, cut>>
        /\ lpc' = "check" \/ (lpc' = "newSeps" /\ cursor' = target)
    BY <1>3 DEF OldSeps
  <2>2. \A i \in Index : ~(target < i /\ i <= target)
    BY Numbers
  <2> QED
    BY <1>0, <2>1, <2>2 DEF RestartInv, Writing, OnDisk, Deleting
<1>4. CASE NewSeps
  <2>1. CASE cursor - 1 \notin rows /\ cursor - 1 > initial.index
    <3>1. lpc = "newSeps" /\ lpc' = "check" /\ UNCHANGED <<initial, stateFile, metaFile, cut>>
      BY <1>4, <2>1 DEF NewSeps, CollectSeps
    <3> QED
      BY <1>0, <3>1 DEF RestartInv, Writing, OnDisk, Deleting
  <2>2. CASE ~(cursor - 1 \notin rows /\ cursor - 1 > initial.index)
    <3>1. /\ lpc = "newSeps" /\ lpc' = lpc /\ UNCHANGED <<initial, target, stateFile, metaFile, cut>>
          /\ cursor' = IF cursor - 1 \in rows THEN cursor - 1 ELSE cursor
          /\ cursor \in Index
      BY <1>4, <2>2, Numbers DEF NewSeps, CollectSeps
    <3>2. PICK kept \in SUBSET EntryPointsOf(cursor) :
              next' = [next EXCEPT !.seps = MapAdd(@, kept \cup {Coo[cursor]}, cursor)]
      BY <1>4, <2>2 DEF NewSeps, CollectSeps
    <3>3. DOMAIN next'.seps = DOMAIN next.seps \cup kept \cup {Coo[cursor]}
      BY <3>2 DEF MapAdd, TypeInv, Snapshot
    <3>4. \A i \in Index : cursor' < i => i = cursor \/ cursor < i
      BY <3>1, Numbers
    <3>5. \A i \in Index : cursor' < i /\ i <= target => Coo[i] \in DOMAIN next'.seps
      BY <3>1, <3>3, <3>4 DEF RestartInv
    <3> QED
      BY <1>0, <3>1, <3>5 DEF RestartInv, Writing, OnDisk, Deleting
  <2> QED
    BY <2>1, <2>2
<1>5. CASE SepsDone
  <2>1. /\ lpc = "newSeps" /\ lpc' = AfterSeps
        /\ UNCHANGED <<initial, next, target, stateFile, metaFile, cut>>
    BY <1>5 DEF SepsDone
  <2>2. \A i \in Index : initial.index < i /\ 1 < i => cursor < i
    BY <1>5, Numbers DEF SepsDone
  <2>3. lpc' \in {"index", "truncState"} /\ (lpc' = "truncState" => ~PruningEnabled)
    BY <2>1 DEF AfterSeps
  <2>4. \A i \in Index : initial.index < i /\ 1 < i /\ i <= target => Coo[i] \in DOMAIN next.seps
    BY <2>1, <2>2 DEF RestartInv
  <2> QED
    BY <1>0, <2>1, <2>3, <2>4 DEF RestartInv, Writing, OnDisk, Deleting
<1>6. CASE UpdateIndex
  <2>1. /\ lpc = "index" /\ lpc' = "seps"
        /\ UNCHANGED <<initial, next, target, stateFile, metaFile, cut>>
    BY <1>6 DEF UpdateIndex
  <2> QED
    BY <1>0, <2>1 DEF RestartInv, Writing, OnDisk, Deleting
<1>7. CASE UpdateSeps
  <2>1. /\ lpc = "seps" /\ lpc' = "truncState" /\ psSeps' = DOMAIN next.seps
        /\ UNCHANGED <<initial, next, target, stateFile, metaFile, cut>>
    BY <1>7 DEF UpdateSeps
  <2> QED
    BY <1>0, <2>1 DEF RestartInv, Writing, OnDisk, Deleting
<1>8. CASE TruncState \/ WriteState \/ TruncMeta
  <2>1. lpc' \in Writing
    BY <1>8 DEF TruncState, WriteState, TruncMeta, Writing
  <2> QED
    BY <2>1 DEF RestartInv, Writing
<1>9. CASE WriteMeta
  <2>1. /\ lpc = "writeMeta" /\ lpc' = "install" /\ UNCHANGED <<next, stateFile, cut>>
        /\ metaFile' = iota_snapshot_metadata_serialize_str(next)
    BY <1>9 DEF WriteMeta
  <2>2. next.index \in Index /\ next \in Snapshot /\ next.state \in State
    BY <2>1, Numbers, TypeFacts DEF OrderInv, Named, Aimed, TypeInv
  <2>3. metaFile' \in Meta /\ metaFile'.index = next.index
    BY <2>1, <2>2, TextIsMeta DEF iota_snapshot_metadata_serialize_str
  <2>4. metaFile' # TornFile /\ next.state \notin {NoFile, TornFile}
    BY <2>2, <2>3, FilesAssumption
  <2>5. cut \/ stateFile = next.state
    BY <2>1 DEF ExactInv
  <2> QED
    BY <2>1, <2>3, <2>4, <2>5 DEF RestartInv, Writing, OnDisk
<1>10. CASE Install
  <2>1. /\ lpc = "install" /\ lpc' = "check" /\ initial' = next
        /\ UNCHANGED <<stateFile, metaFile, cut, toPrune>>
    BY <1>10 DEF Install
  <2>2. next.index = target /\ initial.index < target /\ toPrune <= target
    BY <2>1 DEF OrderInv, Named, Aimed
  <2>3. ppc \in Deleting => lastPruned < next.index
    BY <2>2, Numbers DEF OrderInv
  <2>4. \A i \in Index : next.index < i /\ i <= solidIndex => i \in rows
    <3> SUFFICES ASSUME NEW i \in Index, next.index < i, i <= solidIndex PROVE i \in rows
      OBVIOUS
    <3>1. i > initial.index /\ i > toPrune
      BY <2>2, Numbers
    <3> QED
      BY <3>1 DEF RowsInv
  <2> QED
    BY <1>0, <2>1, <2>3, <2>4 DEF RestartInv, Writing, OnDisk, Deleting
<1>11. CASE ManagerFault \/ WriteFailed
  BY <1>0, <1>11 DEF ManagerFault, WriteFailed
<1> QED
  BY <1>1, <1>2, <1>3, <1>4, <1>5, <1>6, <1>7, <1>8, <1>9, <1>10, <1>11 DEF Managing, Manager

\* They hold the pruning back.
LEMMA RestartOfPruning ==
    ASSUME TypeInv, OrderInv, EarlyInv, RestartInv, faults = 0, faults' = 0, Prunes
    PROVE  RestartInv'
<1> USE DEF world, database, files, ledger, plan, manager, pruning, bounds, history
<1>0. ~Fault
  BY DEF Fault
<1>1. UNCHANGED <<initial, solidIndex, lpc, target, cursor, next, psSeps, stateFile, metaFile, cut>>
  BY PruningFrame
<1> DEFINE Held(at, last, left) ==
        /\ at \in Deleting => last < initial.index \/ last = 0
        /\ \A i \in Index : initial.index < i /\ 1 < i /\ i <= solidIndex => i \in left
<1>2. SUFFICES ASSUME ~raced', lpc \notin Writing \cup {"install"} PROVE Held(ppc', lastPruned', rows')
  BY <1>1 DEF RestartInv, Writing, OnDisk, Deleting
<1>3. CASE raced
  BY <1>0, <1>2, <1>3
     DEF Prunes, Pruning, PruneStart, Collect, CollectUpTo, Record, RecordAnd, DeleteCone,
         DeleteMilestone, DeleteRow, CollectFault, DeleteFault
<1>4. CASE ~raced
  <2>1. Held(ppc, lastPruned, rows)
    BY <1>2, <1>4 DEF RestartInv
  <2>2. CASE PruneStart
    <3>1. ppc' = "wait" /\ rows' = rows
      BY <2>2 DEF PruneStart
    <3> QED
      BY <2>1, <3>1 DEF Deleting
  <2>3. CASE Collect
    <3>1. /\ UNCHANGED <<rows, lastPruned>> /\ lastPruned < toPrune /\ lpc # "seps"
          /\ ToPrune \cap psSeps = {}
      BY <1>2, <2>3 DEF Collect, CollectUpTo
    <3>2. lastPruned < initial.index \/ lastPruned = 0
      <4> SUFFICES ASSUME ~(lastPruned < initial.index), lastPruned # 0 PROVE FALSE
        OBVIOUS
      <4>1. ~(toPrune <= initial.index)
        BY <3>1, Numbers
      <4>2. lpc = "truncState" /\ PruningEnabled
        BY <1>2, <3>1, <4>1 DEF EarlyInv, Calm, Told, Writing
      <4>3. toPrune <= target
        BY <4>2 DEF OrderInv, Aimed
      <4>4. /\ lastPruned + 1 \in Index /\ initial.index < lastPruned + 1 /\ 1 < lastPruned + 1
            /\ lastPruned + 1 <= target
        BY <3>1, <4>3, Numbers
      <4>5. Pruned \in psSeps
        BY <4>2, <4>4 DEF RestartInv, Pruned
      <4>6. Pruned \in ToPrune
        BY DEF ToPrune, Visited
      <4> QED
        BY <3>1, <4>5, <4>6
    <3> QED
      BY <2>1, <3>1, <3>2
  <2>4. CASE Record \/ DeleteCone \/ DeleteMilestone
    <3>1. ppc \in Deleting /\ UNCHANGED <<rows, lastPruned>>
      BY <2>4 DEF Record, RecordAnd, DeleteCone, DeleteMilestone, Deleting
    <3> QED
      BY <2>1, <3>1
  <2>5. CASE DeleteRow
    <3>1. ppc = "deleteRow" /\ ppc' = "wait" /\ rows' = rows \ {lastPruned + 1}
      BY <2>5 DEF DeleteRow
    <3>2. lastPruned < initial.index \/ lastPruned = 0
      BY <2>1, <3>1 DEF Deleting
    <3>3. \A i \in Index : initial.index < i /\ 1 < i => i # lastPruned + 1
      BY <3>2, Numbers
    <3> QED
      BY <2>1, <3>1, <3>3 DEF Deleting
  <2>6. CASE CollectFault \/ DeleteFault
    BY <1>0, <2>6 DEF CollectFault, DeleteFault
  <2> QED
    BY <2>2, <2>3, <2>4, <2>5, <2>6 DEF Prunes, Pruning
<1> QED
  BY <1>3, <1>4

LEMMA RestartStep ==
    ASSUME TypeInv, OrderInv, CountInv, RowsInv, EarlyInv, ExactInv, RestartInv,
           MaxDepth >= N, [Next]_vars
    PROVE  RestartInv'
<1> SUFFICES ASSUME faults' = 0 PROVE RestartInv'
  BY DEF RestartInv
<1> USE DEF world, database, files, ledger, plan, manager, pruning, bounds, history
<1>0. faults = 0
  BY FaultsGrow, TypeFacts
<1>1. CASE UNCHANGED vars
  BY <1>1 DEF vars, RestartInv, Writing, OnDisk, Deleting
<1>2. ASSUME NEW t \in Tx, Receive(t) PROVE RestartInv'
  <2>1. /\ UNCHANGED <<initial, solidIndex, lpc, target, cursor, next, psSeps, stateFile, metaFile, cut,
                       raced, ppc, lastPruned>>
        /\ rows \subseteq rows'
    BY <1>2 DEF Receive
  <2> QED
    BY <1>0, <2>1 DEF RestartInv, Writing, OnDisk, Deleting
<1>3. CASE Confirm
  <2>1. /\ UNCHANGED <<initial, lpc, target, cursor, next, psSeps, stateFile, metaFile, cut, raced,
                       ppc, lastPruned, rows>>
        /\ solidIndex' = solidIndex + 1 /\ solidIndex + 1 \in rows
    BY <1>3 DEF Confirm
  <2>2. \A i \in Index : i <= solidIndex' => i <= solidIndex \/ i \in rows
    BY <2>1, Numbers
  <2> QED
    BY <1>0, <2>1, <2>2 DEF RestartInv, Writing, OnDisk, Deleting
<1>4. CASE Crash
  <2>1. lpc' = "check" /\ ppc' = "start" /\ solidIndex' = latest'.index /\ rows' = rows
    BY <1>4 DEF Crash
  <2>2. \A i \in Index : initial'.index < i /\ i <= latest'.index => i \in rows
    <3> DEFINE f == initial'.index
               m == latest'.index
    <3>1. /\ m \in Deltas(f) \cup {f} /\ m \in 0 .. N /\ f \in 0 .. N
      BY <1>4, CrashFacts, RebuiltIs DEF Snapshot
    <3> HIDE DEF f, m
    <3>2. m = f \/ f + 1 .. m \subseteq rows
      BY <3>1 DEF Deltas
    <3>3. \A i \in Index : f < i /\ i <= m => i \in rows
      BY <3>1, <3>2, Numbers
    <3> QED
      BY <3>3 DEF f, m
  <2>3. cut' \/ metaFile' = NoFile \/
          /\ metaFile' # TornFile /\ stateFile' \notin {NoFile, TornFile}
          /\ metaFile'.index = initial'.index /\ stateFile' = initial'.state
    <3> SUFFICES ASSUME ~cut', metaFile' # NoFile
                 PROVE  /\ metaFile' # TornFile /\ stateFile' \notin {NoFile, TornFile}
                        /\ metaFile'.index = initial'.index /\ stateFile' = initial'.state
      OBVIOUS
    <3>1. ~cut /\ lpc \notin Writing /\ metaFile' = metaFile /\ stateFile' = stateFile
      BY <1>4 DEF Crash, Writing
    <3>2. metaFile # TornFile /\ stateFile \notin {NoFile, TornFile}
      BY <1>0, <3>1 DEF RestartInv
    <3>3. initial' = Loaded(metaFile)
      BY <1>4, <3>1, CrashFacts
    <3> QED
      BY <3>1, <3>2, <3>3 DEF Loaded, ReadsMetadata, ReadsState, iota_snapshot_metadata_deserialize_str
  <2> QED
    BY <2>1, <2>2, <2>3 DEF RestartInv, Writing, OnDisk, Deleting
<1> QED
  BY <1>0, <1>1, <1>2, <1>3, <1>4, RestartOfManager, RestartOfPruning DEF Next, Managing, Prunes

\* What a restart would rebuild now is what the node has.
LEMMA RestartIsExact ==
    ASSUME TypeInv, OrderInv, GraphInv, KnownInv, RowsInv, SkipInv, ExactInv, RestartInv, InOrder
    PROVE  RestartRebuilds
<1> SUFFICES ASSUME ~cut, ~raced, ~(faults > 0), lpc \notin Writing, metaFile # NoFile
             PROVE  Rebuilt(Loaded(metaFile)).state = latest.state
  BY DEF RestartRebuilds, Writing
<1>0. faults = 0
  BY TypeFacts
<1>1. /\ metaFile # TornFile /\ stateFile \notin {NoFile, TornFile}
      /\ metaFile.index = OnDisk.index
  BY <1>0 DEF RestartInv
<1> DEFINE from == Loaded(metaFile)
           k == from.index
           m == Rebuilt(from).index
<1>2. k = metaFile.index /\ from.state = stateFile
  BY <1>1 DEF Loaded, ReadsMetadata, ReadsState, iota_snapshot_metadata_deserialize_str
<1>3. from \in Snapshot /\ metaFile.index \in Index
  BY <1>1, LoadedSnapshot DEF TypeInv, Meta
<1>4. from.state = Applied(k) /\ latest.state = Applied(latest.index)
  BY <1>1, <1>2 DEF ExactInv, Writing
<1>5. /\ m \in Deltas(k) \cup {k} /\ m \in 0 .. N /\ k <= m /\ \A i \in Deltas(k) : i <= m
  BY <1>3, RebuiltIs
<1>6. Rebuilt(from).state = Applied(m)
  BY <1>3, <1>4, RebuiltExact
<1> HIDE DEF from, k, m
<1>7. /\ k \in Index /\ k \in 1 .. N /\ k <= latest.index
      /\ \A i \in Index : k < i /\ i <= solidIndex => i \in rows
  <2>1. k = OnDisk.index /\ k \in Index /\ k \in 1 .. N
    BY <1>1, <1>2, <1>3, Numbers
  <2>2. CASE lpc = "install"
    <3>1. k = target /\ initial.index < target /\ toPrune <= target /\ target + 1 + MinDepth <= latest.index
      BY <2>1, <2>2 DEF OnDisk, OrderInv, Named, Aimed, Within
    <3>2. \A i \in Index : k < i => i > initial.index /\ i > toPrune
      BY <3>1, Numbers
    <3>3. k <= latest.index
      BY <3>1, Numbers
    <3> QED
      BY <2>1, <3>2, <3>3 DEF RowsInv
  <2>3. CASE lpc # "install"
    <3>1. k = initial.index
      BY <2>1, <2>3 DEF OnDisk
    <3>2. \A i \in Index : initial.index < i /\ 1 < i /\ i <= solidIndex => i \in rows
      BY <1>0, <2>3 DEF RestartInv
    <3>3. \A i \in Index : k < i => 1 < i
      BY <2>1, Numbers
    <3> QED
      BY <2>1, <3>1, <3>2, <3>3 DEF OrderInv
  <2> QED
    BY <2>2, <2>3
<1>8. ASSUME NEW i \in Valued, i <= latest.index PROVE i <= m
  <2>1. i \in Index /\ i \in 1 .. N /\ i <= solidIndex
    BY <1>8, SnapshotsAssumption, Numbers DEF OrderInv
  <2>2. CASE i <= k
    BY <1>5, <1>7, <2>1, <2>2, Numbers
  <2>3. CASE ~(i <= k)
    <3>1. k + 1 .. i \subseteq rows
      BY <1>7, <2>1, Numbers
    <3>2. sindex[Coo[i]] # 0
      BY <2>1, Numbers DEF KnownInv, Known
    <3>3. sindex[Coo[i]] = i
      BY <3>2, ValuedOwn
    <3>4. i > k
      BY <1>7, <2>1, <2>3
    <3>5. i \in Deltas(k)
      BY <2>1, <3>1, <3>3, <3>4 DEF Deltas
    <3> QED
      BY <1>5, <3>5
  <2> QED
    BY <2>2, <2>3
<1>9. ASSUME NEW i \in Valued, i <= m PROVE i <= latest.index
  <2>1. i \in Index /\ i \in 1 .. N
    BY SnapshotsAssumption, Numbers
  <2>2. SUFFICES ASSUME ~(i <= latest.index) PROVE FALSE
    OBVIOUS
  <2>3. i > solidIndex
    BY <2>2 DEF SkipInv
  <2>4. m # k
    BY <1>7, <1>9, <2>1, <2>2, Numbers
  <2>5. m \in Deltas(k)
    BY <1>5, <2>4
  <2>6. k + 1 .. m \subseteq rows /\ m \in Valued /\ m \in Index /\ sindex[Coo[m]] = m
    BY <2>5 DEF Deltas
  <2>7. Known(sindex, m)
    BY <2>6, ValuedOwn, Numbers
  <2>8. sindex[Coo[i]] # 0
    BY <1>5, <1>9, <2>1, <2>7 DEF Known
  <2>9. PICK r \in solidIndex + 1 .. i : r \notin rows
    BY <2>3, <2>8 DEF SkipInv
  <2>10. k <= solidIndex
    BY <1>7, Numbers DEF OrderInv
  <2>11. r \in k + 1 .. m
    BY <1>5, <1>7, <1>9, <2>1, <2>10, Numbers
  <2> QED
    BY <2>6, <2>9, <2>11
<1>10. \A i \in Index : i <= m /\ i \in Valued <=> i <= latest.index /\ i \in Valued
  BY <1>8, <1>9
<1>11. Applied(m) = Applied(latest.index)
  BY <1>10 DEF Applied
<1> QED
  BY <1>4, <1>6, <1>11 DEF from

-----------------------------------------------------------------------------
(* The theorems.                                                           *)

LEMMA InitHolds ==
    ASSUME Init
    PROVE  BaseInv /\ SpentInv /\ ConeInv /\ SkipInv /\ EarlyInv /\ ShortInv /\ ExactInv /\ RestartInv
<1>0. /\ N \in Nat /\ MaxCrashes \in Nat /\ MaxFaults \in Nat /\ Index = 1 .. N
      /\ initial = BuiltIn /\ latest = BuiltIn /\ next = BuiltIn
      /\ BuiltIn.index = 0 /\ BuiltIn.state = Applied(0)
  BY SnapshotsAssumption DEF Init, BuiltIn, Index
<1>1. TypeInv
  <2>1. 0 \in 0 .. N /\ 0 \in 0 .. MaxCrashes /\ 0 \in 0 .. MaxFaults /\ 0 \in Nat
    BY <1>0
  <2>2. sindex \in [Tx -> 0 .. N]
    BY <2>1 DEF Init
  <2> QED
    BY <1>0, <2>1, <2>2, BuiltInSnapshot DEF Init, TypeInv
<1>2. OrderInv /\ RowsInv
  BY <1>0 DEF Init, OrderInv, Aimed, Named, Deleting, RowsInv
<1>3. CountInv
  <2>1. \A j \in Index : BuiltIn.state[j] = 0
    BY <1>0 DEF Applied
  <2>2. Counts(BuiltIn.state, 0, 0)
    BY <2>1 DEF Counts
  <2> QED
    BY <1>0, <2>2 DEF Init, CountInv, Aimed
<1>4. GraphInv /\ KnownInv
  <2>1. \A t \in Tx : sindex[t] = 0
    BY DEF Init
  <2>2. \A i \in Index : Coo[i] \in Tx
    BY SnapshotsAssumption
  <2>3. \A i \in Index : sindex[Coo[i]] <= i
    BY <1>0, <2>1, <2>2
  <2>4. 1 .. 0 = {}
    OBVIOUS
  <2> QED
    BY <1>0, <2>1, <2>3, <2>4 DEF Init, GraphInv, KnownInv, Known
<1>5. SpentInv
  BY SnapshotsAssumption DEF Init, SpentInv, SpentIsRecorded
<1>6. ConeInv
  BY DEF Init, ConeInv, Confirmed
<1>7. SkipInv
  <2>1. \A j \in Valued : j > 0 /\ sindex[Coo[j]] = 0
    BY <1>0, SnapshotsAssumption DEF Init
  <2> QED
    BY <1>0, <2>1 DEF Init, SkipInv
<1>8. EarlyInv /\ ShortInv /\ ExactInv
  BY <1>0 DEF Init, EarlyInv, ShortInv, ExactInv, Told
<1>9. RestartInv
  BY <1>0 DEF Init, RestartInv, Writing, Deleting
<1> QED
  BY <1>1, <1>2, <1>3, <1>4, <1>5, <1>6, <1>7, <1>8, <1>9 DEF BaseInv

LEMMA BaseStep == BaseInv /\ [Next]_vars => BaseInv'
  BY TypeStep, OrderStep, CountStep, GraphStep, KnownStep, RowsStep DEF BaseInv

\* The types that the runs check follow from those of the proofs.
LEMMA TypesAreOK == ASSUME TypeInv, OrderInv PROVE TypeOK
<1>1. \A map \in Seps : IsSeps(map)
  BY SepsFacts DEF IsSeps
<1>2. \A s \in Snapshot : s.index \in 0 .. N /\ s.state \in State /\ IsSeps(s.seps)
  BY <1>1 DEF Snapshot
<1>3. \A file \in Meta : file.index \in Index /\ IsSeps(file.entries)
  BY <1>1 DEF Meta
<1> QED
  BY <1>2, <1>3 DEF TypeInv, OrderInv, TypeOK, Aimed, Deleting

\* Whatever is pruned, confirmed and rolled forward in whatever order, the
\* initial snapshot is not ahead of the latest one nor the pruning ahead of the
\* snapshot it was told of; and while no storage call fails, every tip that is
\* handed out is in the database, and a milestone's transaction is deleted only
\* after everything it confirmed (collect_transactions_to_prune,
\* prune_transactions).
THEOREM PruningIsSafe == Spec => []PruningSafety
<1>1. Init => BaseInv /\ ConeInv
  BY InitHolds
<1>2. BaseInv /\ ConeInv /\ [Next]_vars => (BaseInv /\ ConeInv)'
  BY BaseStep, ConeStep DEF BaseInv
<1>3. BaseInv /\ ConeInv => PruningSafety
  <2> SUFFICES ASSUME BaseInv, ConeInv PROVE PruningSafety
    OBVIOUS
  <2>1. TypeOK
    BY TypesAreOK DEF BaseInv
  <2>2. TipsAreStored /\ ConeGoesFirst
    BY DEF ConeInv, TipsAreStored, ConeGoesFirst, Confirmed
  <2> QED
    BY <2>1, <2>2 DEF PruningSafety
<1> QED
  BY <1>1, <1>2, <1>3, PTL DEF Spec

\* No confirmed spending transaction is deleted before its address is recorded
\* as spent, whatever storage error or restart comes in between, as long as no
\* milestone spends: prune_transactions records the addresses of the cone, and
\* deletes the milestone even when recording failed
\* (collect_transactions_to_prune, prune_transactions).
THEOREM SpendingsAreRecorded ==
    ASSUME \A i \in Index : Coo[i] \notin Spenders
    PROVE  Spec => []SpentIsRecorded
<1>1. Init => BaseInv /\ SpentInv
  BY InitHolds
<1>2. BaseInv /\ SpentInv /\ [Next]_vars => (BaseInv /\ SpentInv)'
  BY BaseStep, SpentStep DEF BaseInv
<1>3. SpentInv => SpentIsRecorded
  BY DEF SpentInv
<1> QED
  BY <1>1, <1>2, <1>3, PTL DEF Spec

ExactAll == BaseInv /\ SkipInv /\ EarlyInv /\ ShortInv /\ ExactInv

LEMMA ExactAllStep ==
    ASSUME InOrder, Careful, ExactAll, [Next]_vars PROVE ExactAll'
  BY BaseStep, SkipStep, EarlyStep, ShortStep, ExactStep DEF ExactAll, BaseInv

\* Rolling the initial snapshot forward and rebuilding it after a restart
\* loses no delta and applies none twice, unless a file was being written when
\* the process ended or the disk failed; for milestones that do not confirm a
\* later one with a delta, and when the entry points of a snapshot are always
\* collected or pruning meets no snapshot that a storage error made the
\* manager give up (iota_milestone_service_replay_milestones, build_snapshot,
\* iota_snapshots_service_take_snapshot).
THEOREM SnapshotsStayExact ==
    ASSUME InOrder, Careful
    PROVE  Spec => []SnapshotsAreExact
<1>1. Init => ExactAll
  BY InitHolds DEF ExactAll
<1>2. ExactAll /\ [Next]_vars => ExactAll'
  BY ExactAllStep
<1>3. ExactAll => SnapshotsAreExact
  BY DEF ExactAll, ExactInv, SnapshotsAreExact
<1> QED
  BY <1>1, <1>2, <1>3, PTL DEF Spec

\* Once a snapshot is on disk, and whenever the process ends between two of
\* its writes, a restart rebuilds the very ledger it had: the entry points that
\* the pruning service is told of keep the rows that the files on disk still
\* need (iota_local_snapshots_pruning_service_update_current_snapshot,
\* collect_transactions_to_prune, build_snapshot).  RestartRebuilds excepts
\* what happened after a storage error, a file that was cut short, or the
\* pruning reading the entry points while they were being replaced; the
\* hypotheses are those of SnapshotsStayExact, with the entry points of every
\* snapshot collected.
THEOREM RestartsRebuild ==
    ASSUME InOrder, MaxDepth >= N
    PROVE  Spec => []RestartRebuilds
<1>1. Init => ExactAll /\ RestartInv
  BY InitHolds DEF ExactAll
<1>2. ExactAll /\ RestartInv /\ [Next]_vars => (ExactAll /\ RestartInv)'
  BY ExactAllStep, RestartStep DEF ExactAll, BaseInv, Careful
<1>3. ExactAll /\ RestartInv => RestartRebuilds
  BY RestartIsExact DEF ExactAll, BaseInv
<1> QED
  BY <1>1, <1>2, <1>3, PTL DEF Spec
=============================================================================
