------------------------- MODULE LocalSnapshotsSteps ------------------------
(***************************************************************************)
(* The inductive invariants of LocalSnapshots, and the proofs that a step  *)
(* preserves those about types, the order of the indices, the number of    *)
(* times a delta is applied, and what is confirmed.                        *)
(***************************************************************************)
EXTENDS LocalSnapshots, FiniteSetTheorems, WellFoundedInduction, TLAPS
USE ZenonT(10), SMTT(60)
-----------------------------------------------------------------------------
(* Walks to the past.                                                      *)

LEMMA ParentsAreTx == ASSUME NEW t \in Tx PROVE Parents[t] \subseteq Tx
  BY TangleAssumption

\* A walk reaches what it branches on from the entry, and nothing else.
LEMMA WalkReach ==
    ASSUME NEW e \in Tx, NEW B \in SUBSET Tx
    PROVE  /\ DfsToPast[e][B] \subseteq B
           /\ WalkClosed(DfsToPast[e][B], e, B)
           /\ \A S \in SUBSET B : WalkClosed(S, e, B) => DfsToPast[e][B] \subseteq S
<1>1. DfsToPast[e][B] = {t \in B : \A S \in SUBSET B :
                                      WalkClosed(S, e, B) => t \in S}
  BY DEF DfsToPast
<1>2. WalkClosed(DfsToPast[e][B], e, B)
  BY <1>1, TangleAssumption DEF WalkClosed
<1> QED
  BY <1>1, <1>2

\* A walk that may branch on more reaches more.
LEMMA WalkGrows ==
    ASSUME NEW e \in Tx, NEW B \in SUBSET Tx, NEW C \in SUBSET B
    PROVE  DfsToPast[e][C] \subseteq DfsToPast[e][B]
<1> DEFINE W == DfsToPast[e][B] \cap C
<1>1. WalkClosed(W, e, C)
  BY WalkReach DEF WalkClosed
<1>2. W \in SUBSET C
  OBVIOUS
<1> HIDE DEF W
<1>3. DfsToPast[e][C] \subseteq W
  BY <1>1, <1>2, WalkReach
<1> QED
  BY <1>3 DEF W

\* A walk that branches only on what another one reached reaches it all.
LEMMA WalkAgain ==
    ASSUME NEW e \in Tx, NEW B \in SUBSET Tx, NEW W, W = DfsToPast[e][B]
    PROVE  W \subseteq DfsToPast[e][W]
<1> DEFINE V == DfsToPast[e][W]
<1>1. W \subseteq B /\ WalkClosed(W, e, B) /\ W \in SUBSET Tx
  BY WalkReach
<1>2. V \subseteq W /\ WalkClosed(V, e, W)
  BY <1>1, WalkReach
<1> HIDE DEF V
<1>3. WalkClosed(V, e, B)
  <2>1. \A t \in V : Parents[t] \cap B \subseteq W
    BY <1>1, <1>2 DEF WalkClosed
  <2> QED
    BY <1>1, <1>2, <2>1 DEF WalkClosed
<1>4. V \in SUBSET B
  BY <1>1, <1>2
<1> QED
  BY <1>3, <1>4, WalkReach DEF V

\* A walk stays within the past cone.
LEMMA WalkInCone ==
    ASSUME NEW e \in Tx, NEW B \in SUBSET Tx
    PROVE  DfsToPast[e][B] \subseteq Cone[e]
<1>1. Cone[e] = DfsToPast[e][Tx] /\ Tx \in SUBSET Tx
  BY DEF Cone
<1> QED
  BY <1>1, WalkGrows
-----------------------------------------------------------------------------
(* The least and the greatest of some numbers.                             *)

LEMMA LeastNumber ==
    ASSUME NEW T, T \subseteq Nat, T # {}
    PROVE  \E x \in T : \A y \in T : x <= y
<1>1. PICK x \in T : \A y \in T : ~ (<<y, x>> \in OpToRel(<, Nat))
  BY WFMin, NatLessThanWellFounded
<1>2. ASSUME NEW y \in T, y < x PROVE FALSE
  <2>1. y \in Nat /\ x \in Nat
    OBVIOUS
  <2>2. <<y, x>> \in OpToRel(<, Nat)
    BY <1>2, <2>1 DEF OpToRel
  <2> QED
    BY <1>1, <2>2
<1> QED
  BY <1>2

LEMMA MinIsLeast ==
    ASSUME NEW T, T \subseteq Nat, T # {}
    PROVE  Min(T) \in T /\ \A y \in T : Min(T) <= y
<1>1. \E x \in T : \A y \in T : x =< y
  BY LeastNumber
<1> QED
  BY <1>1 DEF Min

LEMMA MaxIsGreatest ==
    ASSUME NEW T, T \subseteq 0 .. N, T # {}
    PROVE  Max(T) \in T /\ \A y \in T : y <= Max(T)
<1> DEFINE U == {N - x : x \in T}
<1>1. U \subseteq Nat /\ U # {}
  <2>1. PICK x \in T : TRUE
    OBVIOUS
  <2>2. N - x \in U
    BY <2>1
  <2>3. U \subseteq Nat
    BY SnapshotsAssumption
  <2> QED
    BY <2>2, <2>3
<1>2. PICK u \in U : \A v \in U : u <= v
  BY <1>1, LeastNumber
<1>3. PICK x \in T : u = N - x
  OBVIOUS
<1>4. \A y \in T : N - x <= N - y
  BY <1>2, <1>3
<1>5. \A y \in T : x >= y
  BY <1>4, SnapshotsAssumption
<1>6. \E z \in T : \A y \in T : z >= y
  BY <1>5
<1>7. Max(T) \in T /\ \A y \in T : Max(T) >= y
  BY <1>6 DEF Max
<1> QED
  BY <1>7, SnapshotsAssumption

-----------------------------------------------------------------------------
(* The inductive invariant.                                                *)

Snapshot == [index : 0 .. N, state : State, seps : Seps]

\* The manager has chosen a milestone, has given the new snapshot its index,
\* has told the pruning service of it, is writing the files.
Aimed   == {"replay", "metadata", "oldSeps", "newSeps", "index", "seps",
            "truncState", "writeState", "truncMeta", "writeMeta", "install"}
Named   == Aimed \ {"replay", "metadata"}
Told    == {"seps", "truncState", "writeState", "truncMeta", "writeMeta", "install"}
Writing == {"writeState", "truncMeta", "writeMeta"}

\* The pruning thread is at a milestone.
Deleting == {"record", "deleteCone", "deleteMilestone", "deleteRow"}

TypeInv ==
    /\ stored \in SUBSET Tx /\ sindex \in [Tx -> 0 .. N] /\ rows \in SUBSET Index
    /\ spentDb \in SUBSET Spenders /\ tips \in SUBSET Tx
    /\ stateFile \in State \cup {NoFile, TornFile}
    /\ metaFile \in Meta \cup {NoFile, TornFile}
    /\ initial \in Snapshot /\ latest \in Snapshot /\ next \in Snapshot
    /\ solidIndex \in 0 .. N /\ target \in 0 .. N /\ cursor \in 0 .. N
    /\ lastCount \in Nat /\ lastPruned \in 0 .. N /\ toPrune \in 0 .. N
    /\ psSeps \in SUBSET Tx /\ batch \in SUBSET Tx
    /\ lpc \in Aimed \cup {"check", "determine"}
    /\ ppc \in Deleting \cup {"start", "wait"}
    /\ raced \in BOOLEAN /\ cut \in BOOLEAN
    /\ crashes \in 0 .. MaxCrashes /\ faults \in 0 .. MaxFaults

\* Old enough, and not too far ahead, for a snapshot of milestone i.
Within(i) == i + 1 + MinDepth <= latest.index /\ i + 1 <= initial.index + MaxCalc

\* How the indices of the snapshots and the two threads are ordered.
OrderInv ==
    /\ initial.index <= latest.index /\ latest.index <= solidIndex
    /\ lastPruned <= toPrune
    /\ toPrune <= initial.index \/ Within(toPrune)
    /\ lpc \in Aimed => /\ initial.index < target /\ Within(target)
                        /\ toPrune <= target /\ next.index <= target
    /\ lpc \in {"replay", "metadata", "oldSeps"} => initial.index <= cursor /\ cursor <= target
    /\ lpc \in Named => next.index = target
    /\ lpc = "newSeps" => cursor <= target
    /\ ppc \in Deleting => lastPruned < toPrune
    /\ ppc # "start" => PruningEnabled
    /\ lpc \in {"index", "seps"} => PruningEnabled

\* A delta is applied at most once more than the process has crashed.
Counts(state, i, c) == \A j \in Index : state[j] <= 1 + c /\ (j > i => state[j] <= c)

CountInv ==
    /\ Counts(initial.state, initial.index, crashes)
    /\ Counts(latest.state, latest.index, crashes)
    /\ lpc = "replay" => Counts(next.state, cursor, crashes)
    /\ lpc \in Aimed \ {"replay"} => Counts(next.state, next.index, crashes)
    /\ stateFile \notin {NoFile, TornFile} => \A j \in Index : stateFile[j] <= 1 + crashes

\* The milestones up to i are confirmed.
Known(index, i) == \A j \in 1 .. i : index[Coo[j]] # 0

\* Confirmation goes to the past and by milestones in their order, what is
\* to be deleted is confirmed, and rows are deleted in their order.
GraphInv ==
    /\ \A t \in Tx : sindex[t] # 0 => \A p \in Parents[t] : sindex[p] # 0 /\ sindex[p] <= sindex[t]
    /\ \A t \in stored : \A p \in Parents[t] : p \in stored \/ sindex[p] # 0
    /\ \A t \in Tx : Known(sindex, sindex[t])
    /\ \A t \in Tx : sindex[t] # 0 => /\ sindex[Coo[sindex[t]]] = sindex[t]
                                      /\ t \in Cone[Coo[sindex[t]]]
    /\ \A i \in Index : sindex[Coo[i]] <= i
    /\ ppc \in {"record", "deleteCone"} => \A t \in batch : sindex[t] # 0
    /\ ppc # "start" => \A i \in rows : i > lastPruned
    /\ \A i \in Index : Coo[i] \in stored => i \in rows
    /\ ppc = "deleteRow" => Pruned \notin stored

KnownInv ==
    /\ Known(sindex, solidIndex)
    /\ metaFile \notin {NoFile, TornFile} => Known(sindex, metaFile.index)

\* The rows that a snapshot still has to absorb are there.
RowsInv ==
    \A i \in Index : i <= solidIndex /\ i > initial.index /\ i > toPrune => i \in rows

BaseInv == TypeInv /\ OrderInv /\ CountInv /\ GraphInv /\ KnownInv /\ RowsInv

SpentInv ==
    /\ SpentIsRecorded
    /\ ppc = "deleteCone" => batch \cap stored \cap Spenders \subseteq spentDb

\* What is left in the database of what milestone i confirmed.
Confirmed(db, index, i) == {t \in db : index[t] = i}

\* Without storage errors what a milestone confirmed is deleted at once, and
\* until then it can be reached from the milestone.
ConeInv ==
    faults = 0 =>
    /\ tips \subseteq stored
    /\ \A i \in Index : sindex[Coo[i]] = i /\ Coo[i] \notin stored => Confirmed(stored, sindex, i) = {}
    /\ \A i \in Index : sindex[Coo[i]] = i /\ Coo[i] \in stored
                        => LET C == Confirmed(stored, sindex, i) IN C \subseteq DfsToPast[Coo[i]][C]
    /\ \A t \in stored : sindex[t] # 0 => sindex[t] \in rows
    /\ ppc \in {"record", "deleteCone"} => /\ Pruned \in batch
                                           /\ batch \cap stored = Confirmed(stored, sindex, lastPruned + 1)
    /\ ppc = "deleteCone" => batch \cap tips = {}
    /\ ppc = "deleteMilestone" => /\ Pruned \notin tips
                                  /\ Confirmed(stored, sindex, lastPruned + 1) \subseteq {Pruned}
    /\ ppc = "deleteRow" => Confirmed(stored, sindex, lastPruned + 1) = {}

\* The milestones the tracker passes over after a restart have no delta, and
\* it does not get to one that has.
SkipInv ==
    \A j \in Valued :
        /\ j <= latest.index \/ j > solidIndex
        /\ j > solidIndex /\ sindex[Coo[j]] # 0 => \E k \in solidIndex + 1 .. j : k \notin rows

\* No storage error has made the manager give up a snapshot that the pruning
\* service was told of.
Calm == faults = 0 \/ ~PruningEnabled

\* A row that the snapshot had to absorb, below i, is gone.
Missing(i) == \E r \in Index : initial.index < r /\ r < i /\ r \notin rows

\* Until the files of a new snapshot are being written, nothing that the
\* initial one has not absorbed may be pruned.
EarlyInv == Calm => (lpc \notin Told \/ ~PruningEnabled => toPrune <= initial.index)

\* A replay ends early only at a row that is gone.
ShortInv == lpc \in {"metadata", "oldSeps"} /\ cursor < target => cursor + 1 \notin rows

\* The snapshots and the files are exact.  A replay that ended early is found
\* out by the walk for the entry points.
ExactInv ==
    cut \/
    /\ initial.state = Applied(initial.index) /\ latest.state = Applied(latest.index)
    /\ lpc \in {"replay", "metadata", "oldSeps"} => next.state = Applied(cursor)
    /\ lpc = "newSeps" => next.state = Applied(target) \/ Missing(cursor)
    /\ lpc \in {"index"} \cup Told => next.state = Applied(target)
    /\ lpc = "writeState" => stateFile = TornFile
    /\ lpc \in {"truncMeta", "writeMeta"} => stateFile = next.state
    /\ lpc = "writeMeta" => metaFile = TornFile
    /\ lpc \notin {"truncMeta", "writeMeta"}
           /\ metaFile \notin {NoFile, TornFile} /\ stateFile \notin {NoFile, TornFile}
        => stateFile = Applied(metaFile.index)

\* The snapshot that is on disk when the files are not being written.
OnDisk == IF lpc = "install" THEN next ELSE initial

\* The entry points hold the pruning back from what is not on disk.
RestartInv ==
    faults = 0 =>
    /\ lpc = "newSeps" => \A i \in Index : cursor < i /\ i <= target => Coo[i] \in DOMAIN next.seps
    /\ lpc \in {"index", "seps", "truncState"} =>
          \A i \in Index : initial.index < i /\ 1 < i /\ i <= target => Coo[i] \in DOMAIN next.seps
    /\ lpc = "truncState" /\ PruningEnabled => psSeps = DOMAIN next.seps
    /\ raced \/ lpc \in Writing \cup {"install"} \/
          /\ ppc \in Deleting => lastPruned < initial.index \/ lastPruned = 0
          /\ \A i \in Index : initial.index < i /\ 1 < i /\ i <= solidIndex => i \in rows
    /\ cut \/ lpc \in Writing \/ metaFile = NoFile \/
          /\ metaFile # TornFile /\ stateFile \notin {NoFile, TornFile}
          /\ metaFile.index = OnDisk.index /\ stateFile = OnDisk.state

-----------------------------------------------------------------------------
(* Which variables the two threads leave alone.                            *)

Managing == Manager \/ ManagerFault \/ WriteFailed
Prunes   == Pruning \/ CollectFault \/ DeleteFault

LEMMA ManagerFrame ==
    ASSUME Managing
    PROVE  UNCHANGED <<stored, sindex, rows, spentDb, tips, latest, solidIndex,
                       ppc, lastPruned, batch, crashes, raced>>
<1> USE DEF world, database, files, ledger, plan, manager, pruning, bounds, history, Abandon, Finish
<1>1. CASE Check \/ DetermineFrom(initial.index) \/ ReplayRow \/ ReplayDone
  BY <1>1 DEF Check, DetermineFrom, ReplayRow, ReplayDone
<1>2. CASE Metadata \/ OldSeps \/ CollectSeps({Coo[cursor]}) \/ SepsDone
  BY <1>2 DEF Metadata, OldSeps, CollectSeps, SepsDone
<1>3. CASE UpdateIndex \/ UpdateSeps \/ TruncState \/ WriteState \/ TruncMeta \/ WriteMeta
  BY <1>3 DEF UpdateIndex, UpdateSeps, TruncState, WriteState, TruncMeta, WriteMeta
<1>4. CASE Install \/ ManagerFault \/ WriteFailed
  BY <1>4 DEF Install, ManagerFault, WriteFailed
<1> QED
  BY <1>1, <1>2, <1>3, <1>4 DEF Managing, Manager, Determine, NewSeps

LEMMA PruningFrame ==
    ASSUME Prunes
    PROVE  UNCHANGED <<sindex, stateFile, metaFile, initial, latest, solidIndex, lpc, target,
                       cursor, next, lastCount, toPrune, psSeps, crashes, cut>>
<1> USE DEF world, database, files, ledger, plan, manager, pruning, bounds, history
<1>1. CASE PruneStart \/ CollectUpTo(toPrune) \/ RecordAnd(batch, {})
  BY <1>1 DEF PruneStart, CollectUpTo, RecordAnd
<1>2. CASE DeleteCone \/ DeleteMilestone \/ DeleteRow \/ CollectFault \/ DeleteFault
  BY <1>2 DEF DeleteCone, DeleteMilestone, DeleteRow, CollectFault, DeleteFault
<1> QED
  BY <1>1, <1>2 DEF Prunes, Pruning, Collect, Record

\* Storage errors are only ever counted.
LEMMA FaultsGrow ==
    ASSUME TypeInv, [Next]_vars
    PROVE  faults' \in 0 .. MaxFaults /\ faults <= faults'
<1> USE DEF vars, world, database, files, ledger, plan, manager, pruning, bounds, history
<1>0. faults \in 0 .. MaxFaults /\ MaxFaults \in Nat
  BY SnapshotsAssumption DEF TypeInv
<1>1. faults' = faults \/ Fault
  <2>1. CASE UNCHANGED vars \/ (\E t \in Tx : Receive(t)) \/ Confirm \/ Crash
    BY <2>1 DEF Receive, Confirm, Crash
  <2>2. CASE Check \/ DetermineFrom(initial.index) \/ ReplayRow \/ ReplayDone
    BY <2>2 DEF Check, DetermineFrom, ReplayRow, ReplayDone
  <2>3. CASE Metadata \/ OldSeps \/ CollectSeps({Coo[cursor]}) \/ SepsDone
    BY <2>3 DEF Metadata, OldSeps, CollectSeps, SepsDone, Kept
  <2>4. CASE UpdateIndex \/ UpdateSeps \/ TruncState \/ WriteState \/ TruncMeta \/ WriteMeta
    BY <2>4 DEF UpdateIndex, UpdateSeps, TruncState, WriteState, TruncMeta, WriteMeta
  <2>5. CASE Install \/ ManagerFault \/ WriteFailed
    BY <2>5 DEF Install, ManagerFault, WriteFailed
  <2>6. CASE PruneStart \/ CollectUpTo(toPrune) \/ RecordAnd(batch, {})
    BY <2>6 DEF PruneStart, CollectUpTo, RecordAnd
  <2>7. CASE DeleteCone \/ DeleteMilestone \/ DeleteRow \/ CollectFault \/ DeleteFault
    BY <2>7 DEF DeleteCone, DeleteMilestone, DeleteRow, CollectFault, DeleteFault
  <2> QED
    BY <2>1, <2>2, <2>3, <2>4, <2>5, <2>6, <2>7
       DEF Next, Manager, Pruning, Determine, NewSeps, Collect, Record
<1> QED
  BY <1>0, <1>1 DEF Fault

-----------------------------------------------------------------------------
(* Types.                                                                  *)

LEMMA SepsFacts ==
    ASSUME NEW map \in Seps PROVE DOMAIN map \in SUBSET Tx /\ map \in [DOMAIN map -> Index]
  BY DEF Seps

LEMMA SepsMade ==
    ASSUME NEW points \in SUBSET Tx, NEW map \in [points -> Index] PROVE map \in Seps
  BY DEF Seps

LEMMA NoSepsMade == NoSeps \in Seps
<1>1. NoSeps \in [{} -> Index]
  BY DEF NoSeps
<1> QED
  BY <1>1, SepsMade

LEMMA SepsKept ==
    ASSUME NEW map \in Seps, NEW kept \in SUBSET (DOMAIN map)
    PROVE  [t \in kept |-> map[t]] \in Seps
<1>1. kept \in SUBSET Tx /\ [t \in kept |-> map[t]] \in [kept -> Index]
  BY SepsFacts
<1> QED
  BY <1>1, SepsMade

LEMMA SepsAdded ==
    ASSUME NEW map \in Seps, NEW keys \in SUBSET Tx, NEW i \in Index
    PROVE  MapAdd(map, keys, i) \in Seps /\ DOMAIN MapAdd(map, keys, i) = DOMAIN map \cup keys
<1>1. DOMAIN map \cup keys \in SUBSET Tx /\ MapAdd(map, keys, i) \in [DOMAIN map \cup keys -> Index]
  BY SepsFacts DEF MapAdd
<1> QED
  BY <1>1, SepsMade

LEMMA AppliedState == ASSUME NEW i \in 0 .. N PROVE Applied(i) \in State
  BY SnapshotsAssumption DEF Applied, State

LEMMA BuiltInSnapshot == BuiltIn \in Snapshot
  BY SnapshotsAssumption, NoSepsMade, AppliedState DEF BuiltIn, Snapshot

\* The text of the metadata of a snapshot, and what a cut leaves of it.
LEMMA TextIsMeta ==
    ASSUME NEW s \in Snapshot, s.index \in Index
    PROVE  iota_snapshot_metadata_serialize_str(s) \in Meta
<1>1. DOMAIN s.seps \in SUBSET Tx /\ s.seps \in Seps
  BY SepsFacts DEF Snapshot
<1>2. Cardinality(DOMAIN s.seps) \in Nat
  BY <1>1, TangleAssumption, FS_Subset, FS_CardinalityType
<1> QED
  BY <1>1, <1>2 DEF iota_snapshot_metadata_serialize_str, Meta

LEMMA CutIsMeta ==
    ASSUME NEW text \in Meta, NEW file \in CutMetadata(text)
    PROVE  file = TornFile \/ (file \in Meta /\ file.index = text.index)
<1>1. CASE file # TornFile
  <2>1. PICK kept \in SUBSET (DOMAIN text.entries) :
            file = [text EXCEPT !.entries = [t \in kept |-> @[t]]]
    BY <1>1 DEF CutMetadata
  <2>2. [t \in kept |-> text.entries[t]] \in Seps
    BY SepsKept DEF Meta
  <2> QED
    BY <2>1, <2>2 DEF Meta
<1> QED
  BY <1>1

LEMMA Counting == ASSUME NEW S \in SUBSET Tx PROVE Cardinality(S) \in Nat
  BY TangleAssumption, FS_Subset, FS_CardinalityType

LEMMA LoadedSnapshot ==
    ASSUME NEW meta \in Meta \cup {NoFile, TornFile}, stateFile \in State \cup {NoFile, TornFile}
    PROVE  Loaded(meta) \in Snapshot
<1>1. CASE ~ReadsMetadata(meta) \/ ~ReadsState(stateFile)
  BY <1>1, BuiltInSnapshot DEF Loaded
<1>2. CASE ReadsMetadata(meta) /\ ReadsState(stateFile)
  BY <1>2, SnapshotsAssumption
     DEF Loaded, ReadsMetadata, ReadsState, iota_snapshot_metadata_deserialize_str, Snapshot, Meta, Index
<1> QED
  BY <1>1, <1>2

\* The milestones whose deltas build_snapshot applies to a snapshot of k.
Deltas(k) ==
    {i \in Index : i > k /\ k + 1 .. i \subseteq rows} \cap Valued \cap {i \in Index : sindex[Coo[i]] = i}

LEMMA RebuiltIs ==
    ASSUME NEW from \in Snapshot
    PROVE  /\ Rebuilt(from).index \in Deltas(from.index) \cup {from.index}
           /\ Rebuilt(from).index \in 0 .. N /\ from.index <= Rebuilt(from).index
           /\ \A i \in Deltas(from.index) : i <= Rebuilt(from).index
           /\ Rebuilt(from).state = [i \in Index |-> IF i \in Deltas(from.index)
                                         THEN from.state[i] + 1 ELSE from.state[i]]
           /\ Rebuilt(from).seps = from.seps
           /\ Rebuilt(from) = [index |-> Rebuilt(from).index, state |-> Rebuilt(from).state,
                               seps |-> Rebuilt(from).seps]
<1> DEFINE D == Deltas(from.index)
           T == D \cup {from.index}
<1>1. D = {i \in {j \in Index : j > from.index /\ from.index + 1 .. j \subseteq rows} \cap Valued :
              sindex[Coo[i]] = i}
  BY DEF Deltas
<1>2. from.index \in 0 .. N /\ D \subseteq Index /\ N \in Nat
  BY SnapshotsAssumption DEF Snapshot, Deltas
<1>3. T \subseteq 0 .. N /\ T # {}
  BY <1>2 DEF Index
<1>4. Max(T) \in T /\ \A i \in T : i <= Max(T)
  BY <1>3, MaxIsGreatest
<1>5. Rebuilt(from) = [from EXCEPT !.index = Max(T),
                          !.state = [i \in Index |-> IF i \in D THEN @[i] + 1 ELSE @[i]]]
  BY <1>1 DEF Rebuilt
<1> HIDE DEF D
<1>6. Rebuilt(from) = [index |-> Max(T), seps |-> from.seps,
                       state |-> [i \in Index |-> IF i \in D THEN from.state[i] + 1 ELSE from.state[i]]]
  BY <1>5 DEF Snapshot
<1> QED
  BY <1>2, <1>3, <1>4, <1>6 DEF D

\* What is read from the types most often.
LEMMA TypeFacts ==
    ASSUME TypeInv
    PROVE  /\ N \in Nat /\ MaxCrashes \in Nat /\ MaxFaults \in Nat /\ MinDepth \in Nat
           /\ MaxCalc \in Nat /\ MaxDepth \in Nat /\ Index = 1 .. N
           /\ initial.index \in 0 .. N /\ latest.index \in 0 .. N /\ next.index \in 0 .. N
           /\ initial.state \in State /\ latest.state \in State /\ next.state \in State
           /\ initial.seps \in Seps /\ next.seps \in Seps
           /\ solidIndex \in 0 .. N /\ target \in 0 .. N /\ cursor \in 0 .. N
           /\ lastPruned \in 0 .. N /\ toPrune \in 0 .. N
           /\ crashes \in 0 .. MaxCrashes /\ faults \in 0 .. MaxFaults
  BY SnapshotsAssumption DEF TypeInv, Snapshot, Index

LEMMA Numbers ==
    ASSUME TypeInv
    PROVE  /\ N \in Nat /\ Index = 1 .. N
           /\ MinDepth \in Nat /\ MaxCalc \in Nat /\ MaxDepth \in Nat
           /\ initial.index \in 0 .. N /\ latest.index \in 0 .. N /\ next.index \in 0 .. N
           /\ solidIndex \in 0 .. N /\ target \in 0 .. N /\ cursor \in 0 .. N
           /\ lastPruned \in 0 .. N /\ toPrune \in 0 .. N
           /\ rows \subseteq 1 .. N
<1>1. rows \subseteq Index
  BY DEF TypeInv
<1> QED
  BY <1>1, TypeFacts

LEMMA CountTypes ==
    ASSUME TypeInv
    PROVE  /\ MaxCrashes \in Nat /\ crashes \in Nat /\ crashes <= MaxCrashes
           /\ initial.state \in [Index -> Nat] /\ latest.state \in [Index -> Nat]
           /\ next.state \in [Index -> Nat]
<1>1. MaxCrashes \in Nat /\ crashes \in 0 .. MaxCrashes /\ 0 .. 1 + MaxCrashes \subseteq Nat
  BY TypeFacts
<1>2. \A state \in State : state \in [Index -> Nat]
  BY <1>1 DEF State
<1> QED
  BY <1>1, <1>2, TypeFacts

LEMMA DeltaAdded ==
    ASSUME NEW s \in Snapshot, NEW i \in Index, s.state[i] <= MaxCrashes
    PROVE  LET new == [s EXCEPT !.state[i] = IF i \in Valued THEN @ + 1 ELSE @]
           IN  new \in Snapshot /\ new.index = s.index /\ new.seps = s.seps
               /\ new.state = [s.state EXCEPT ![i] = IF i \in Valued THEN @ + 1 ELSE @]
<1>1. s.state \in [Index -> 0 .. 1 + MaxCrashes] /\ MaxCrashes \in Nat
  BY SnapshotsAssumption DEF Snapshot, State
<1>2. [s.state EXCEPT ![i] = IF i \in Valued THEN @ + 1 ELSE @] \in State
  BY <1>1 DEF State
<1> QED
  BY <1>2 DEF Snapshot

LEMMA TypeOfManager ==
    ASSUME TypeInv, OrderInv, CountInv, Manager PROVE TypeInv'
<1> USE DEF world, database, files, ledger, plan, manager, pruning, bounds, history,
            Goto, Abandon, Finish
<1>0. Cardinality(stored) \in Nat
  BY Counting DEF TypeInv
<1>1. CASE Check
  BY <1>1 DEF TypeInv, Aimed, Check
<1>2. CASE Determine
  <2>1. rows \subseteq 0 .. N /\ initial.index \in 0 .. N
    BY SnapshotsAssumption DEF TypeInv, Index, Snapshot
  <2> QED
    BY <1>2, <2>1 DEF TypeInv, Aimed, Determine, DetermineFrom
<1>3. CASE ReplayRow
  <2>1. cursor + 1 \in Index /\ cursor + 1 \in 0 .. N /\ next.state[cursor + 1] <= MaxCrashes
    <3>1. cursor + 1 \in Index /\ cursor + 1 \in 0 .. N /\ cursor + 1 > cursor
      BY <1>3, Numbers DEF ReplayRow
    <3>2. next.state[cursor + 1] <= crashes
      BY <1>3, <3>1 DEF ReplayRow, CountInv, Counts
    <3> QED
      BY <3>1, <3>2, CountTypes
  <2>2. next' \in Snapshot
    BY <1>3, <2>1, DeltaAdded DEF ReplayRow, TypeInv
  <2> QED
    BY <1>3, <2>1, <2>2 DEF TypeInv, Aimed, ReplayRow
<1>4. CASE ReplayDone
  <2>1. [next EXCEPT !.index = cursor] \in Snapshot
    BY DEF TypeInv, Snapshot
  <2> QED
    BY <1>0, <1>4, <2>1 DEF TypeInv, Aimed, ReplayDone
<1>5. CASE Metadata
  <2>1. /\ [next EXCEPT !.index = target] \in Snapshot
        /\ [next EXCEPT !.index = target, !.seps = NoSeps] \in Snapshot
    BY NoSepsMade DEF TypeInv, Snapshot
  <2> QED
    BY <1>5, <2>1 DEF TypeInv, Aimed, Metadata, AfterSeps
<1>6. CASE OldSeps
  <2>1. \A kept \in SUBSET (DOMAIN initial.seps) :
            [next EXCEPT !.seps = [t \in kept |-> initial.seps[t]]] \in Snapshot
    BY TypeFacts, SepsKept DEF TypeInv, Snapshot
  <2>2. faults' \in 0 .. MaxFaults
    BY <1>6, FaultsGrow DEF Next, Manager
  <2> QED
    BY <1>6, <2>1, <2>2 DEF TypeInv, Aimed, OldSeps
<1>7. CASE NewSeps
  <2>1. CASE cursor - 1 \notin rows /\ cursor - 1 > initial.index
    BY <1>7, <2>1 DEF TypeInv, Aimed, NewSeps, CollectSeps
  <2>2. CASE ~(cursor - 1 \notin rows /\ cursor - 1 > initial.index)
    <3>1. cursor \in Index /\ cursor - 1 \in 0 .. N /\ Coo[cursor] \in Tx
      <4>1. cursor \in Index /\ cursor - 1 \in 0 .. N
        BY <1>7, Numbers DEF NewSeps, CollectSeps
      <4> QED
        BY <4>1, SnapshotsAssumption
    <3>2. PICK kept \in SUBSET EntryPointsOf(cursor) :
              next' = [next EXCEPT !.seps = MapAdd(@, kept \cup {Coo[cursor]}, cursor)]
      BY <1>7, <2>2 DEF NewSeps, CollectSeps
    <3>3. {s \in stored : sindex[s] >= cursor} \in SUBSET Tx
      BY DEF TypeInv
    <3>4. EntryPointsOf(cursor) \subseteq Tx
      BY <3>1, <3>3, WalkReach DEF EntryPointsOf
    <3>5. MapAdd(next.seps, kept \cup {Coo[cursor]}, cursor) \in Seps
      BY <3>1, <3>4, SepsAdded, TypeFacts
    <3>6. next' \in Snapshot
      BY <3>2, <3>5 DEF TypeInv, Snapshot
    <3>7. faults' \in 0 .. MaxFaults
      BY <1>7, FaultsGrow DEF Next, Manager
    <3> QED
      BY <1>7, <2>2, <3>1, <3>6, <3>7 DEF TypeInv, Aimed, NewSeps, CollectSeps
  <2> QED
    BY <2>1, <2>2
<1>8. CASE SepsDone
  BY <1>8 DEF TypeInv, Aimed, SepsDone, AfterSeps
<1>9. CASE UpdateIndex
  BY <1>9, TypeFacts DEF TypeInv, Aimed, UpdateIndex
<1>10. CASE UpdateSeps
  BY <1>10, TypeFacts, SepsFacts DEF TypeInv, Aimed, UpdateSeps
<1>11. CASE TruncState \/ TruncMeta
  BY <1>11 DEF TypeInv, Aimed, TruncState, TruncMeta
<1>12. CASE WriteState
  BY <1>12, TypeFacts DEF TypeInv, Aimed, WriteState
<1>13. CASE WriteMeta
  <2>1. next.index \in Index
    BY <1>13, TypeFacts DEF WriteMeta, OrderInv, Named, Aimed
  <2>2. metaFile' \in Meta
    BY <1>13, <2>1, TextIsMeta DEF WriteMeta, TypeInv
  <2> QED
    BY <1>13, <2>2 DEF TypeInv, Aimed, WriteMeta
<1>14. CASE Install
  BY <1>0, <1>14 DEF TypeInv, Aimed, Install
<1> QED
  BY <1>1, <1>2, <1>3, <1>4, <1>5, <1>6, <1>7, <1>8, <1>9, <1>10, <1>11, <1>12, <1>13, <1>14
     DEF Manager

LEMMA TypeOfFaults ==
    ASSUME TypeInv, OrderInv, ManagerFault \/ WriteFailed PROVE TypeInv'
<1> USE DEF world, database, files, ledger, plan, manager, pruning, bounds, history,
            Goto, Abandon
<1>0. faults' \in 0 .. MaxFaults
  BY FaultsGrow DEF Next
<1>1. CASE ManagerFault
  BY <1>0, <1>1 DEF TypeInv, Aimed, ManagerFault
<1>2. CASE WriteFailed
  <2>1. metaFile' \in Meta \cup {NoFile, TornFile}
    <3>1. CASE lpc = "writeMeta"
      <4>1. next.index \in Index
        BY <3>1, TypeFacts DEF OrderInv, Named, Aimed
      <4>2. iota_snapshot_metadata_serialize_str(next) \in Meta
        BY <4>1, TextIsMeta DEF TypeInv
      <4> QED
        BY <1>2, <3>1, <4>2, CutIsMeta DEF WriteFailed
    <3>2. CASE lpc # "writeMeta"
      BY <1>2, <3>2 DEF WriteFailed, TypeInv
    <3> QED
      BY <3>1, <3>2
  <2>2. cut' \in BOOLEAN
    BY <1>2 DEF WriteFailed
  <2> QED
    BY <1>0, <1>2, <2>1, <2>2 DEF TypeInv, Aimed, WriteFailed
<1> QED
  BY <1>1, <1>2

\* Where pruning starts, and what one turn of it walks over.
LEMMA PruneFrom ==
    ASSUME TypeInv, PruneStart
    PROVE  /\ lastPruned' \in 0 .. N /\ lastPruned' <= lastPruned
           /\ \A i \in rows : i > lastPruned' \/ rows = {}
<1>1. CASE rows = {}
  BY <1>1, Numbers DEF PruneStart
<1>2. CASE rows # {}
  <2>1. rows \subseteq Nat /\ rows \subseteq 1 .. N
    BY Numbers
  <2>2. PICK m \in rows : m = Min(rows) /\ \A i \in rows : m <= i
    BY <1>2, <2>1, MinIsLeast
  <2>3. m \in 1 .. N /\ N \in Nat
    BY <2>1, Numbers
  <2>4. {0, m - 1} \subseteq 0 .. N
    BY <2>3
  <2>5. Max({0, m - 1}) = m - 1
    BY <2>3, <2>4, MaxIsGreatest
  <2>6. {m - 1, lastPruned} \subseteq Nat
    BY <2>3, Numbers
  <2>7. /\ Min({m - 1, lastPruned}) \in {m - 1, lastPruned}
        /\ \A y \in {m - 1, lastPruned} : Min({m - 1, lastPruned}) <= y
    BY <2>6, MinIsLeast
  <2>8. lastPruned' = Min({m - 1, lastPruned})
    BY <1>2, <2>2, <2>5 DEF PruneStart
  <2>9. /\ lastPruned' \in {m - 1, lastPruned} /\ lastPruned' <= lastPruned
        /\ lastPruned' <= m - 1
    BY <2>7, <2>8
  <2> HIDE <2>7, <2>8
  <2>10. \A i \in rows : i > lastPruned'
    BY <2>1, <2>2, <2>3, <2>9, Numbers
  <2> QED
    BY <2>3, <2>9, <2>10, Numbers
<1> QED
  BY <1>1, <1>2

LEMMA PrunedIsTx ==
    ASSUME TypeInv, lastPruned < toPrune
    PROVE  lastPruned + 1 \in Index /\ Pruned \in Tx /\ ToPrune \in SUBSET Tx
<1>1. lastPruned + 1 \in Index
  BY Numbers
<1>2. Pruned \in Tx
  BY <1>1, SnapshotsAssumption DEF Pruned
<1>3. {t \in stored : sindex[t] >= lastPruned + 1} \in SUBSET Tx
  BY DEF TypeInv
<1>4. DfsToPast[Pruned][{t \in stored : sindex[t] >= lastPruned + 1}] \subseteq Tx
  BY <1>2, <1>3, WalkReach
<1>5. ToPrune \subseteq Tx
  BY <1>2, <1>4, TangleAssumption DEF ToPrune, Visited
<1> QED
  BY <1>1, <1>2, <1>5

LEMMA TypeOfPruning ==
    ASSUME TypeInv, OrderInv, Prunes PROVE TypeInv'
<1> USE DEF world, database, files, ledger, plan, manager, pruning, bounds, history
<1>0. faults' \in 0 .. MaxFaults
  BY FaultsGrow DEF Next, Prunes
<1>1. CASE PruneStart
  BY <1>1, PruneFrom DEF TypeInv, PruneStart
<1>2. CASE Collect
  <2>1. ToPrune \in SUBSET Tx
    BY <1>2, PrunedIsTx DEF Collect, CollectUpTo
  <2>2. raced' \in BOOLEAN
    BY <1>2 DEF Collect, CollectUpTo
  <2> QED
    BY <1>2, <2>1, <2>2 DEF TypeInv, Deleting, Collect, CollectUpTo
<1>3. CASE CollectFault \/ DeleteFault
  BY <1>0, <1>3 DEF TypeInv, Deleting, CollectFault, DeleteFault
<1>4. CASE Record
  <2>1. batch' \in SUBSET Tx /\ tips' \in SUBSET Tx /\ spentDb' \in SUBSET Spenders
    BY <1>4 DEF TypeInv, Record, RecordAnd
  <2> QED
    BY <1>0, <1>4, <2>1 DEF TypeInv, Deleting, Record, RecordAnd
<1>5. CASE DeleteCone \/ DeleteMilestone
  BY <1>5 DEF TypeInv, Deleting, DeleteCone, DeleteMilestone
<1>6. CASE DeleteRow
  <2>1. lastPruned' \in 0 .. N /\ rows' \in SUBSET Index
    BY <1>6, TypeFacts DEF DeleteRow, OrderInv, Deleting, TypeInv
  <2> QED
    BY <1>6, <2>1 DEF TypeInv, Deleting, DeleteRow
<1> QED
  BY <1>1, <1>2, <1>3, <1>4, <1>5, <1>6 DEF Prunes, Pruning

\* What a restarted node begins with.
LEMMA CrashFacts ==
    ASSUME TypeInv, OrderInv, CountInv, Crash
    PROVE  /\ metaFile' \in Meta \cup {NoFile, TornFile}
           /\ metaFile' = metaFile \/ (metaFile' = TornFile /\ lpc = "writeMeta")
                 \/ (metaFile' \in Meta /\ metaFile'.index = target /\ lpc = "writeMeta")
           /\ initial' = Loaded(metaFile') /\ latest' = Rebuilt(initial')
           /\ initial' \in Snapshot /\ latest' \in Snapshot
           /\ crashes' = crashes + 1 /\ crashes' \in 0 .. MaxCrashes
           /\ \A j \in Index : initial'.state[j] <= crashes'
           /\ Counts(latest'.state, latest'.index, crashes')
<1>1. /\ metaFile' = metaFile \/ (metaFile' = TornFile /\ lpc = "writeMeta")
         \/ (metaFile' \in Meta /\ metaFile'.index = target /\ lpc = "writeMeta")
      /\ metaFile' \in Meta \cup {NoFile, TornFile}
  <2>1. CASE lpc = "writeMeta"
    <3>1. next.index \in Index /\ next.index = target
      BY <2>1, Numbers DEF OrderInv, Named, Aimed
    <3>2. iota_snapshot_metadata_serialize_str(next) \in Meta
      BY <3>1, TextIsMeta DEF TypeInv
    <3>3. iota_snapshot_metadata_serialize_str(next).index = target
      BY <3>1 DEF iota_snapshot_metadata_serialize_str
    <3> QED
      BY <2>1, <3>2, <3>3, CutIsMeta DEF Crash
  <2>2. CASE lpc # "writeMeta"
    BY <2>2 DEF Crash, TypeInv
  <2> QED
    BY <2>1, <2>2
<1>2. initial' = Loaded(metaFile') /\ latest' = Rebuilt(initial') /\ crashes' = crashes + 1
  BY DEF Crash
<1>3. stateFile \in State \cup {NoFile, TornFile}
  BY DEF TypeInv
<1>4. initial' \in Snapshot
  BY <1>1, <1>2, <1>3, LoadedSnapshot
<1>5. crashes' \in 0 .. MaxCrashes /\ crashes \in Nat /\ MaxCrashes \in Nat
  BY <1>2, CountTypes DEF Crash
<1>6. \A j \in Index : initial'.state[j] <= crashes'
  <2>1. CASE ~ReadsMetadata(metaFile') \/ ~ReadsState(stateFile)
    <3>1. initial'.state = [j \in Index |-> IF j <= 0 /\ j \in Valued THEN 1 ELSE 0]
      BY <1>2, <2>1 DEF Loaded, BuiltIn, Applied
    <3> QED
      BY <1>5, <3>1, Numbers
  <2>2. CASE ReadsMetadata(metaFile') /\ ReadsState(stateFile)
    <3>1. initial'.state = stateFile
      BY <1>2, <2>2 DEF Loaded
    <3>2. \A j \in Index : stateFile[j] <= 1 + crashes
      BY <2>2 DEF CountInv, ReadsState
    <3>3. crashes' = 1 + crashes
      BY <1>2, <1>5
    <3> QED
      BY <3>1, <3>2, <3>3
  <2> QED
    BY <2>1, <2>2
<1> DEFINE s == initial'
           r == Rebuilt(s)
           D == Deltas(s.index)
<1> HIDE DEF s, r, D
<1>7. /\ r.index \in 0 .. N /\ (\A i \in D : i <= r.index)
      /\ r.state = [i \in Index |-> IF i \in D THEN s.state[i] + 1 ELSE s.state[i]]
      /\ r.seps = s.seps /\ r = [index |-> r.index, state |-> r.state, seps |-> r.seps]
  BY <1>4, RebuiltIs DEF s, r, D
<1>8. s.state \in [Index -> Nat] /\ s.seps \in Seps
  BY <1>4, <1>5 DEF s, Snapshot, State
<1>9. \A j \in Index : s.state[j] <= crashes' /\ s.state[j] \in Nat
  BY <1>6, <1>8 DEF s
<1>10. \A j \in Index : r.state[j] \in Nat /\ r.state[j] <= 1 + crashes'
  BY <1>5, <1>7, <1>9
<1>11. Counts(r.state, r.index, crashes')
  <2>1. \A j \in Index : j > r.index => j \notin D
    BY <1>7, Numbers
  <2>2. \A j \in Index : j > r.index => r.state[j] <= crashes'
    BY <1>7, <1>9, <2>1
  <2> QED
    BY <1>10, <2>2 DEF Counts
<1>12. r.state \in State
  <2>1. \A j \in Index : r.state[j] \in 0 .. 1 + MaxCrashes
    BY <1>5, <1>10
  <2>2. r.state = [j \in Index |-> r.state[j]]
    BY <1>7
  <2> QED
    BY <2>1, <2>2 DEF State
<1>13. r \in Snapshot
  BY <1>7, <1>8, <1>12 DEF Snapshot
<1> QED
  BY <1>1, <1>2, <1>4, <1>5, <1>6, <1>11, <1>13 DEF r, s

\* What the tracker does when it confirms a milestone.
LEMMA ConfirmFacts ==
    ASSUME TypeInv, OrderInv, CountInv, Confirm
    PROVE  /\ solidIndex' = solidIndex + 1 /\ solidIndex' \in Index /\ Coo[solidIndex'] \in Tx
           /\ sindex' \in [Tx -> 0 .. N]
           /\ latest' \in Snapshot
           /\ Counts(latest'.state, latest'.index, crashes)
           /\ IF sindex[Coo[solidIndex']] # 0 THEN latest' = latest
              ELSE /\ latest'.index = solidIndex'
                   /\ latest'.state = [latest.state EXCEPT
                                          ![solidIndex'] = IF solidIndex' \in Valued THEN @ + 1 ELSE @]
<1> DEFINE i == solidIndex + 1
<1>1. solidIndex' = i /\ i \in rows /\ i \in Index /\ i \in 0 .. N
  BY Numbers DEF Confirm
<1>2. Coo[i] \in Tx
  BY <1>1, SnapshotsAssumption
<1>3. i > latest.index
  BY Numbers DEF OrderInv
<1> HIDE DEF i
<1>4. latest.state[i] <= crashes
  BY <1>1, <1>3 DEF CountInv, Counts
<1>5. CASE sindex[Coo[i]] = 0
  <2>1. sindex' = [t \in Tx |-> IF t \in DfsToPast[Coo[i]][Unconfirmed] THEN i ELSE sindex[t]]
    BY <1>5 DEF Confirm, i
  <2>2. latest' = [latest EXCEPT !.index = i, !.state[i] = IF i \in Valued THEN @ + 1 ELSE @]
    BY <1>5 DEF Confirm, i
  <2>3. sindex' \in [Tx -> 0 .. N]
    BY <1>1, <2>1 DEF TypeInv
  <2>4. latest.state[i] \in Nat /\ latest.state \in [Index -> Nat] /\ crashes \in Nat
        /\ latest.state[i] <= MaxCrashes
    BY <1>1, <1>4, CountTypes
  <2>5. /\ latest'.index = i /\ latest' \in Snapshot
        /\ latest'.state = [latest.state EXCEPT ![i] = IF i \in Valued THEN @ + 1 ELSE @]
    <3> DEFINE st == [latest.state EXCEPT ![i] = IF i \in Valued THEN @ + 1 ELSE @]
    <3>1. latest' = [latest EXCEPT !.index = i, !.state = st]
      BY <2>2
    <3>2. st \in State
      <4>1. latest.state \in [Index -> 0 .. 1 + MaxCrashes] /\ MaxCrashes \in Nat
        BY TypeFacts DEF State
      <4> QED
        BY <1>1, <2>4, <4>1 DEF State
    <3> HIDE DEF st
    <3>3. latest' \in Snapshot /\ latest'.index = i /\ latest'.state = st
      BY <1>1, <3>1, <3>2 DEF TypeInv, Snapshot
    <3> QED
      BY <3>3 DEF st
  <2>6. Counts(latest'.state, i, crashes)
    <3>1. \A j \in Index : latest.state[j] <= 1 + crashes /\ (j > i => latest.state[j] <= crashes)
      BY <1>1, <1>3, Numbers DEF CountInv, Counts
    <3>2. \A j \in Index : j # i => latest'.state[j] = latest.state[j]
      BY <2>4, <2>5
    <3>3. latest'.state[i] <= 1 + crashes
      BY <1>1, <1>4, <2>4, <2>5
    <3> QED
      BY <1>1, <3>1, <3>2, <3>3, Numbers DEF Counts
  <2> QED
    BY <1>1, <1>2, <1>5, <2>3, <2>5, <2>6 DEF i
<1>6. CASE sindex[Coo[i]] # 0
  <2>1. sindex' = sindex /\ latest' = latest
    BY <1>6 DEF Confirm, i
  <2> QED
    BY <1>1, <1>2, <1>6, <2>1 DEF i, TypeInv, CountInv
<1> QED
  BY <1>5, <1>6

LEMMA TypeStep ==
    ASSUME TypeInv, OrderInv, CountInv, [Next]_vars PROVE TypeInv'
<1> USE DEF world, database, files, ledger, plan, manager, pruning, bounds, history
<1>1. ASSUME NEW t \in Tx, Receive(t) PROVE TypeInv'
  BY <1>1 DEF TypeInv, Receive
<1>2. CASE Confirm
  <2>1. solidIndex' \in 0 .. N /\ sindex' \in [Tx -> 0 .. N] /\ latest' \in Snapshot
    BY <1>2, ConfirmFacts, Numbers
  <2> QED
    BY <1>2, <2>1 DEF TypeInv, Confirm
<1>3. CASE Crash
  <2>1. /\ initial'.index \in 0 .. N /\ latest'.index \in 0 .. N
        /\ crashes' \in 0 .. MaxCrashes /\ initial' \in Snapshot /\ latest' \in Snapshot
        /\ metaFile' \in Meta \cup {NoFile, TornFile}
    BY <1>3, CrashFacts DEF Snapshot
  <2>2. cut' \in BOOLEAN
    BY <1>3 DEF Crash
  <2>3. target' \in 0 .. N /\ lastCount' \in Nat
    BY <1>3, Numbers DEF Crash
  <2> QED
    BY <1>3, <2>1, <2>2, <2>3, BuiltInSnapshot DEF TypeInv, Crash
<1>4. CASE UNCHANGED vars
  BY <1>4 DEF TypeInv, vars
<1> QED
  BY <1>1, <1>2, <1>3, <1>4, TypeOfManager, TypeOfFaults, TypeOfPruning DEF Next, Prunes

-----------------------------------------------------------------------------
(* The order of the indices.                                               *)

LEMMA OrderOfManager ==
    ASSUME TypeInv, OrderInv, Managing PROVE OrderInv'
<1> USE DEF world, database, files, ledger, plan, manager, pruning, bounds, history,
            Goto, Abandon, Finish
<1>0. UNCHANGED <<latest, solidIndex, ppc, lastPruned>>
  BY ManagerFrame
<1>1. CASE Check
  BY <1>0, <1>1 DEF OrderInv, Within, Check, Aimed, Named
<1>2. CASE Determine
  <2>1. CASE lpc' = "replay"
    <3>1. /\ target' = NewEntryPoint /\ next' = initial /\ cursor' = initial.index
          /\ UNCHANGED <<initial, toPrune>>
          /\ latest.index > MinDepth /\ latest.index - MinDepth > initial.index
          /\ NewEntryPoint > initial.index /\ lpc = "determine"
      BY <1>2, <2>1 DEF Determine, DetermineFrom
    <3>2. /\ NewEntryPoint \in Int /\ NewEntryPoint + 1 + MinDepth <= latest.index
          /\ NewEntryPoint + 1 <= initial.index + MaxCalc /\ toPrune <= NewEntryPoint
      <4>1. /\ latest.index \in Nat /\ initial.index \in Nat /\ MinDepth \in Nat
            /\ MaxCalc \in Nat /\ toPrune \in Nat
        BY Numbers
      <4>2. NewEntryPoint = (IF latest.index - MinDepth - initial.index > MaxCalc
                             THEN initial.index + MaxCalc ELSE latest.index - MinDepth) - 1
        BY DEF NewEntryPoint
      <4>3. \/ toPrune <= initial.index
            \/ (toPrune + 1 + MinDepth <= latest.index /\ toPrune + 1 <= initial.index + MaxCalc)
        BY DEF OrderInv, Within
      <4>4. NewEntryPoint > initial.index
        BY <3>1
      <4>5. CASE latest.index - MinDepth - initial.index > MaxCalc
        <5>1. NewEntryPoint = initial.index + MaxCalc - 1
          BY <4>1, <4>2, <4>5
        <5> QED
          BY <4>1, <4>3, <4>4, <4>5, <5>1
      <4>6. CASE ~(latest.index - MinDepth - initial.index > MaxCalc)
        <5>1. NewEntryPoint = latest.index - MinDepth - 1
          BY <4>1, <4>2, <4>6
        <5> QED
          BY <4>1, <4>3, <4>4, <4>6, <5>1
      <4> QED
        BY <4>5, <4>6
    <3> HIDE DEF NewEntryPoint
    <3> QED
      BY <1>0, <2>1, <3>1, <3>2, Numbers DEF OrderInv, Within, Aimed, Named
  <2>2. CASE lpc' # "replay"
    BY <1>0, <1>2, <2>2 DEF OrderInv, Within, Determine, DetermineFrom, Aimed, Named
  <2> QED
    BY <2>1, <2>2
<1>3. CASE ReplayRow
  <2>1. next'.index = next.index
    BY <1>3 DEF ReplayRow, TypeInv, Snapshot
  <2> QED
    BY <1>0, <1>3, <2>1, Numbers DEF OrderInv, Within, ReplayRow, Aimed, Named
<1>4. CASE ReplayDone
  <2>1. [next EXCEPT !.index = cursor].index = cursor
    BY DEF TypeInv, Snapshot
  <2> QED
    BY <1>0, <1>4, <2>1 DEF OrderInv, Within, ReplayDone, Aimed, Named
<1>5. CASE Metadata
  <2>1. next'.index = target /\ lpc' \in {"oldSeps", AfterSeps} /\ lpc = "metadata"
        /\ UNCHANGED <<initial, target, cursor, toPrune>>
    BY <1>5 DEF Metadata, TypeInv, Snapshot
  <2> QED
    BY <1>0, <2>1, Numbers DEF OrderInv, Within, AfterSeps, Aimed, Named
<1>6. CASE OldSeps
  <2>1. next'.index = next.index
    BY <1>6 DEF OldSeps, TypeInv, Snapshot
  <2> QED
    BY <1>0, <1>6, <2>1, Numbers DEF OrderInv, Within, OldSeps, Aimed, Named
<1>7. CASE NewSeps
  <2>1. next'.index = next.index
    BY <1>7 DEF NewSeps, CollectSeps, TypeInv, Snapshot
  <2>2. /\ UNCHANGED <<initial, target, toPrune>> /\ lpc = "newSeps"
        /\ lpc' = "check" \/ (lpc' = lpc /\ cursor' \in {cursor - 1, cursor})
    BY <1>7 DEF NewSeps, CollectSeps
  <2> QED
    BY <1>0, <2>1, <2>2, Numbers DEF OrderInv, Within, Aimed, Named
<1>8. CASE SepsDone
  BY <1>0, <1>8 DEF OrderInv, Within, SepsDone, AfterSeps, Aimed, Named
<1>9. CASE UpdateIndex
  BY <1>0, <1>9, Numbers DEF OrderInv, Within, UpdateIndex, Aimed, Named, Deleting
<1>10. CASE UpdateSeps \/ TruncState \/ WriteState \/ TruncMeta \/ WriteMeta
  BY <1>0, <1>10
     DEF OrderInv, Within, UpdateSeps, TruncState, WriteState, TruncMeta, WriteMeta, Aimed, Named
<1>11. CASE Install
  BY <1>0, <1>11, Numbers DEF OrderInv, Within, Install, Aimed, Named
<1>12. CASE ManagerFault \/ WriteFailed
  BY <1>0, <1>12 DEF OrderInv, Within, ManagerFault, WriteFailed, Aimed, Named
<1> QED
  BY <1>1, <1>2, <1>3, <1>4, <1>5, <1>6, <1>7, <1>8, <1>9, <1>10, <1>11, <1>12
     DEF Managing, Manager

LEMMA OrderOfPruning ==
    ASSUME TypeInv, OrderInv, Prunes PROVE OrderInv'
<1> USE DEF world, database, files, ledger, plan, manager, pruning, bounds, history
<1>0. UNCHANGED <<initial, latest, solidIndex, lpc, target, cursor, next, toPrune>>
  BY PruningFrame
<1>1. CASE PruneStart
  BY <1>0, <1>1, PruneFrom, Numbers DEF OrderInv, Within, PruneStart, Deleting
<1>2. CASE CollectUpTo(toPrune) \/ CollectFault \/ RecordAnd(batch, {})
  BY <1>0, <1>2 DEF OrderInv, Within, CollectUpTo, CollectFault, RecordAnd, Deleting
<1>3. CASE DeleteCone \/ DeleteMilestone \/ DeleteFault
  BY <1>0, <1>3 DEF OrderInv, Within, DeleteCone, DeleteMilestone, DeleteFault, Deleting
<1>4. CASE DeleteRow
  BY <1>0, <1>4, Numbers DEF OrderInv, Within, DeleteRow, Deleting
<1> QED
  BY <1>1, <1>2, <1>3, <1>4 DEF Prunes, Pruning, Collect, Record

LEMMA OrderStep ==
    ASSUME TypeInv, OrderInv, CountInv, [Next]_vars PROVE OrderInv'
<1> USE DEF world, database, files, ledger, plan, manager, pruning, bounds, history
<1>1. CASE UNCHANGED vars \/ \E t \in Tx : Receive(t)
  BY <1>1 DEF OrderInv, Within, vars, Receive
<1>2. CASE Confirm
  <2>1. /\ solidIndex' = solidIndex + 1 /\ latest'.index \in {latest.index, solidIndex + 1}
        /\ UNCHANGED <<initial, lpc, target, cursor, next, ppc, lastPruned, toPrune>>
    BY <1>2 DEF Confirm, TypeInv, Snapshot
  <2> QED
    <3>1. latest.index <= latest'.index /\ latest'.index <= solidIndex' /\ latest'.index \in Int
      BY <2>1, Numbers DEF OrderInv
    <3> QED
      <4>1. \/ toPrune <= initial.index
            \/ (toPrune + 1 + MinDepth <= latest'.index /\ toPrune + 1 <= initial.index + MaxCalc)
        BY <3>1, Numbers DEF OrderInv, Within
      <4>2. lpc \in Aimed => target + 1 + MinDepth <= latest'.index
        BY <3>1, Numbers DEF OrderInv, Within
      <4>3. initial.index <= latest'.index
        BY <3>1, Numbers DEF OrderInv
      <4> QED
        BY <2>1, <3>1, <4>1, <4>2, <4>3 DEF OrderInv, Within, Aimed, Named, Deleting
<1>3. CASE Crash
  <2>1. latest' = Rebuilt(initial') /\ initial' \in Snapshot
    BY <1>3, CrashFacts
  <2>2. initial'.index <= latest'.index /\ initial'.index \in 0 .. N /\ latest'.index \in 0 .. N
    BY <2>1, RebuiltIs DEF Snapshot
  <2>3. /\ solidIndex' = latest'.index /\ lpc' = "check" /\ ppc' = "start"
        /\ lastPruned' = initial'.index /\ toPrune' = initial'.index
    BY <1>3 DEF Crash
  <2> QED
    BY <2>2, <2>3 DEF OrderInv, Within, Aimed, Named, Deleting
<1> QED
  BY <1>1, <1>2, <1>3, OrderOfManager, OrderOfPruning DEF Next, Managing, Prunes

-----------------------------------------------------------------------------
(* How often a delta is applied.                                           *)

LEMMA CountsOn ==
    ASSUME NEW s, NEW i \in Int, NEW j \in Int, NEW c, Counts(s, i, c), i <= j, TypeInv
    PROVE  Counts(s, j, c)
<1>1. \A k \in Index : k > j => k > i
  BY Numbers
<1> QED
  BY <1>1 DEF Counts

LEMMA CountOfManager ==
    ASSUME TypeInv, OrderInv, CountInv, Managing PROVE CountInv'
<1> USE DEF world, database, files, ledger, plan, manager, pruning, bounds, history,
            Goto, Abandon, Finish
<1>0. UNCHANGED <<latest, crashes>>
  BY ManagerFrame
<1>1. CASE Check \/ ManagerFault \/ WriteFailed \/ TruncState
  BY <1>0, <1>1 DEF CountInv, Counts, Check, ManagerFault, WriteFailed, TruncState, Aimed
<1>2. CASE Determine
  BY <1>0, <1>2 DEF CountInv, Counts, Determine, DetermineFrom, Aimed
<1>3. CASE ReplayRow
  <2>1. /\ cursor' = cursor + 1 /\ cursor + 1 \in Index /\ cursor + 1 > cursor
        /\ UNCHANGED <<lpc, initial, stateFile>> /\ lpc = "replay"
    BY <1>3, Numbers DEF ReplayRow
  <2>2. next.state[cursor + 1] <= crashes /\ next.state \in [Index -> Nat] /\ crashes \in Nat
        /\ next.state[cursor + 1] <= MaxCrashes
    BY <2>1, CountTypes DEF CountInv, Counts
  <2>3. next'.state = [next.state EXCEPT ![cursor + 1] = IF cursor + 1 \in Valued THEN @ + 1 ELSE @]
    BY <1>3, <2>1, <2>2, DeltaAdded DEF ReplayRow, TypeInv
  <2>4. Counts(next'.state, cursor + 1, crashes)
    <3>1. Counts(next.state, cursor + 1, crashes)
      BY <2>1, CountsOn, Numbers DEF CountInv
    <3>2. \A j \in Index : j # cursor + 1 => next'.state[j] = next.state[j]
      BY <2>2, <2>3
    <3>3. next'.state[cursor + 1] <= 1 + crashes
      BY <2>1, <2>2, <2>3
    <3> QED
      BY <2>1, <3>1, <3>2, <3>3, Numbers DEF Counts
  <2> QED
    BY <1>0, <2>1, <2>4 DEF CountInv, Aimed
<1>4. CASE ReplayDone
  <2>1. [next EXCEPT !.index = cursor].index = cursor /\ [next EXCEPT !.index = cursor].state = next.state
    BY DEF TypeInv, Snapshot
  <2> QED
    BY <1>0, <1>4, <2>1 DEF CountInv, ReplayDone, Aimed
<1>5. CASE Metadata
  <2>1. /\ next'.index = target /\ next'.state = next.state
        /\ lpc' \in {"oldSeps", AfterSeps} /\ lpc = "metadata" /\ UNCHANGED <<initial, stateFile>>
    BY <1>5 DEF Metadata, TypeInv, Snapshot
  <2>2. Counts(next.state, target, crashes)
    BY <2>1, CountsOn, Numbers DEF CountInv, OrderInv, Aimed
  <2> QED
    BY <1>0, <2>1, <2>2 DEF CountInv, AfterSeps, Aimed
<1>6. CASE OldSeps \/ NewSeps
  <2>1. /\ next'.index = next.index /\ next'.state = next.state
        /\ lpc \in Aimed \ {"replay"} /\ lpc' # "replay" /\ UNCHANGED <<initial, stateFile>>
    BY <1>6 DEF OldSeps, NewSeps, CollectSeps, TypeInv, Snapshot, Aimed
  <2> QED
    BY <1>0, <2>1 DEF CountInv
<1>7. CASE SepsDone \/ UpdateIndex \/ UpdateSeps \/ TruncMeta \/ WriteMeta
  BY <1>0, <1>7 DEF CountInv, SepsDone, AfterSeps, UpdateIndex, UpdateSeps, TruncMeta, WriteMeta, Aimed
<1>8. CASE WriteState
  BY <1>0, <1>8 DEF CountInv, Counts, WriteState, Aimed
<1>9. CASE Install
  BY <1>0, <1>9 DEF CountInv, Install, Aimed
<1> QED
  BY <1>1, <1>2, <1>3, <1>4, <1>5, <1>6, <1>7, <1>8, <1>9 DEF Managing, Manager

LEMMA CountStep ==
    ASSUME TypeInv, OrderInv, CountInv, [Next]_vars PROVE CountInv'
<1> USE DEF world, database, files, ledger, plan, manager, pruning, bounds, history
<1>1. CASE UNCHANGED vars \/ \E t \in Tx : Receive(t)
  BY <1>1 DEF CountInv, vars, Receive
<1>2. CASE Confirm
  <2>1. UNCHANGED <<initial, stateFile, lpc, cursor, next, crashes>>
    BY <1>2 DEF Confirm
  <2> QED
    BY <1>2, <2>1, ConfirmFacts DEF CountInv
<1>3. CASE Prunes
  BY <1>3, PruningFrame DEF CountInv
<1>4. CASE Crash
  <2>1. lpc' = "check" /\ stateFile' = stateFile
    BY <1>4 DEF Crash
  <2>2. /\ crashes' = crashes + 1 /\ (\A j \in Index : initial'.state[j] <= crashes')
        /\ initial'.state \in [Index -> Nat] /\ Counts(latest'.state, latest'.index, crashes')
    <3>1. \A state \in State : state \in [Index -> Nat]
      BY CountTypes DEF State
    <3> QED
      BY <1>4, <3>1, CrashFacts DEF Snapshot
  <2>3. Counts(initial'.state, initial'.index, crashes')
    BY <2>2, CountTypes DEF Counts
  <2>4. stateFile \notin {NoFile, TornFile} => \A j \in Index : stateFile[j] <= 1 + crashes'
    <3>1. \A state \in State : \A j \in Index : state[j] \in Nat
      BY CountTypes DEF State
    <3> QED
      BY <2>2, <3>1, CountTypes DEF CountInv, TypeInv
  <2> QED
    BY <2>1, <2>2, <2>3, <2>4 DEF CountInv, Aimed
<1> QED
  BY <1>1, <1>2, <1>3, <1>4, CountOfManager DEF Next, Managing, Prunes

-----------------------------------------------------------------------------
(* What is confirmed, what is deleted and which rows are there.            *)

LEMMA BelowSolid ==
    ASSUME TypeInv, OrderInv
    PROVE  /\ toPrune <= solidIndex /\ initial.index <= solidIndex /\ lastPruned <= solidIndex
           /\ lpc \in Aimed => target <= solidIndex
           /\ ppc \in Deleting => lastPruned + 1 <= solidIndex
<1>1. toPrune <= solidIndex /\ initial.index <= solidIndex
  BY Numbers DEF OrderInv, Within
<1>2. lpc \in Aimed => target <= solidIndex
  BY Numbers DEF OrderInv, Within
<1> QED
  BY <1>1, <1>2, Numbers DEF OrderInv

\* The milestone that is being pruned is confirmed.
LEMMA PrunedIsKnown ==
    ASSUME TypeInv, OrderInv, KnownInv, lastPruned < toPrune
    PROVE  /\ lastPruned + 1 \in Index /\ Pruned \in Tx /\ sindex[Pruned] # 0
           /\ lastPruned + 1 <= solidIndex
<1>1. lastPruned + 1 \in 1 .. solidIndex
  BY BelowSolid, Numbers
<1> QED
  BY <1>1, PrunedIsTx, Numbers DEF KnownInv, Known, Pruned

LEMMA ConfirmedSoFar ==
    ASSUME TypeInv, GraphInv, KnownInv, Confirm, sindex[Coo[solidIndex + 1]] = 0,
           NEW W, W = DfsToPast[Coo[solidIndex + 1]][Unconfirmed]
    PROVE  /\ sindex' = [t \in Tx |-> IF t \in W THEN solidIndex + 1 ELSE sindex[t]]
           /\ W \subseteq Unconfirmed /\ WalkClosed(W, Coo[solidIndex + 1], Unconfirmed)
           /\ Coo[solidIndex + 1] \in W /\ W \subseteq Cone[Coo[solidIndex + 1]]
           /\ solidIndex + 1 \in Index /\ Coo[solidIndex + 1] \in Tx
           /\ \A t \in Tx : sindex[t] # 0 => sindex'[t] = sindex[t] /\ sindex[t] <= solidIndex
<1>1. solidIndex + 1 \in Index /\ solidIndex + 1 \in 1 .. N
  BY Numbers DEF Confirm
<1>2. Coo[solidIndex + 1] \in Tx
  BY <1>1, SnapshotsAssumption
<1>3. Unconfirmed \in SUBSET Tx
  BY DEF Unconfirmed, TypeInv
<1>4. /\ W \subseteq Unconfirmed /\ WalkClosed(W, Coo[solidIndex + 1], Unconfirmed)
      /\ W \subseteq Cone[Coo[solidIndex + 1]]
  BY <1>2, <1>3, WalkReach, WalkInCone
<1>5. Coo[solidIndex + 1] \in Unconfirmed
  BY DEF Confirm, Unconfirmed
<1>6. Coo[solidIndex + 1] \in W
  BY <1>4, <1>5 DEF WalkClosed
<1>7. sindex' = [t \in Tx |-> IF t \in W THEN solidIndex + 1 ELSE sindex[t]]
  BY DEF Confirm
<1>8. \A t \in Tx : sindex[t] # 0 => sindex'[t] = sindex[t]
  BY <1>4, <1>7 DEF Unconfirmed
<1>9. \A t \in Tx : sindex[t] <= solidIndex
  <2> SUFFICES ASSUME NEW t \in Tx, ~(sindex[t] <= solidIndex) PROVE FALSE
    OBVIOUS
  <2>1. sindex[t] \in 0 .. N
    BY DEF TypeInv
  <2>2. solidIndex + 1 \in 1 .. sindex[t]
    BY <2>1, Numbers
  <2> QED
    BY <2>2 DEF GraphInv, Known
<1> QED
  BY <1>1, <1>2, <1>4, <1>6, <1>7, <1>8, <1>9

LEMMA GraphOfConfirm ==
    ASSUME TypeInv, OrderInv, GraphInv, KnownInv, Confirm
    PROVE  GraphInv' /\ KnownInv'
<1> DEFINE i == solidIndex + 1
           W == DfsToPast[Coo[i]][Unconfirmed]
<1>0. UNCHANGED <<stored, rows, metaFile, ppc, lastPruned, batch>> /\ solidIndex' = i
  BY DEF Confirm, pruning, files
<1>1. CASE sindex[Coo[i]] # 0
  <2>1. sindex' = sindex
    BY <1>1 DEF Confirm
  <2>2. Known(sindex, i)
    BY <1>1, Numbers DEF KnownInv, Known
  <2> QED
    BY <1>0, <2>1, <2>2 DEF GraphInv, KnownInv, Known, Pruned
<1>2. CASE sindex[Coo[i]] = 0
  <2>1. /\ sindex' = [t \in Tx |-> IF t \in W THEN i ELSE sindex[t]]
        /\ W \subseteq Unconfirmed /\ WalkClosed(W, Coo[i], Unconfirmed)
        /\ Coo[i] \in W /\ W \subseteq Cone[Coo[i]] /\ i \in Index /\ Coo[i] \in Tx
        /\ \A t \in Tx : sindex[t] # 0 => sindex'[t] = sindex[t] /\ sindex[t] <= solidIndex
    BY <1>2, ConfirmedSoFar
  <2> HIDE DEF W
  <2>2. W \subseteq Tx /\ (\A t \in W : sindex'[t] = i /\ sindex[t] = 0 /\ t \in stored)
    BY <2>1 DEF Unconfirmed, TypeInv
  <2>3. i \in 1 .. N /\ N \in Nat /\ solidIndex \in Nat
    BY <2>1, Numbers
  <2>4. \A k \in 0 .. N : Known(sindex, k) => Known(sindex', k)
    <3>1. \A j \in Index : sindex[Coo[j]] # 0 => sindex'[Coo[j]] # 0
      BY <2>1, SnapshotsAssumption
    <3> QED
      BY <3>1, <2>3 DEF Known, Index
  <2>5. Known(sindex', i)
    <3>1. \A j \in 1 .. i : j \in 1 .. solidIndex \/ j = i
      BY <2>3
    <3>2. Known(sindex', solidIndex)
      BY <2>4, Numbers DEF KnownInv
    <3>3. sindex'[Coo[i]] # 0
      BY <2>1, <2>2, <2>3
    <3> QED
      BY <3>1, <3>2, <3>3 DEF Known
  <2>6. \A t \in Tx : sindex'[t] # 0 => \A p \in Parents[t] : sindex'[p] # 0 /\ sindex'[p] <= sindex'[t]
    <3> SUFFICES ASSUME NEW t \in Tx, sindex'[t] # 0, NEW p \in Parents[t]
                 PROVE  sindex'[p] # 0 /\ sindex'[p] <= sindex'[t]
      OBVIOUS
    <3>1. p \in Tx
      BY ParentsAreTx
    <3>2. CASE t \notin W
      BY <2>1, <3>1, <3>2 DEF GraphInv
    <3>3. CASE t \in W /\ sindex[p] # 0
      BY <2>1, <2>2, <2>3, <3>1, <3>3 DEF TypeInv
    <3>4. CASE t \in W /\ sindex[p] = 0
      <4>1. p \in stored
        BY <2>2, <3>4 DEF GraphInv
      <4>2. p \in W
        BY <2>1, <3>4, <4>1 DEF WalkClosed, Unconfirmed
      <4> QED
        BY <2>2, <2>3, <3>4, <4>2
    <3> QED
      BY <3>2, <3>3, <3>4
  <2>7. \A t \in stored : \A p \in Parents[t] : p \in stored \/ sindex'[p] # 0
    <3>1. \A t \in stored : t \in Tx /\ Parents[t] \subseteq Tx
      BY ParentsAreTx DEF TypeInv
    <3> QED
      BY <2>1, <3>1 DEF GraphInv
  <2>8. \A t \in Tx : Known(sindex', sindex'[t])
    <3>1. \A t \in Tx : t \in W \/ (sindex'[t] = sindex[t] /\ sindex[t] \in 0 .. N)
      BY <2>1 DEF TypeInv
    <3>2. \A t \in Tx : t \notin W => Known(sindex', sindex[t])
      BY <2>4, <3>1 DEF GraphInv
    <3> QED
      BY <2>2, <2>5, <3>1, <3>2
  <2>9. \A t \in Tx : sindex'[t] # 0 => /\ sindex'[Coo[sindex'[t]]] = sindex'[t]
                                        /\ t \in Cone[Coo[sindex'[t]]]
    <3> SUFFICES ASSUME NEW t \in Tx, sindex'[t] # 0
                 PROVE  /\ sindex'[Coo[sindex'[t]]] = sindex'[t]
                        /\ t \in Cone[Coo[sindex'[t]]]
      OBVIOUS
    <3>1. CASE t \in W
      BY <2>1, <2>2, <3>1
    <3>2. CASE t \notin W
      <4>1. sindex'[t] = sindex[t] /\ sindex[t] \in Index
        BY <2>1, <2>3, <3>2 DEF TypeInv, Index
      <4>2. sindex[Coo[sindex[t]]] = sindex[t] /\ t \in Cone[Coo[sindex[t]]] /\ Coo[sindex[t]] \in Tx
        BY <4>1, SnapshotsAssumption DEF GraphInv
      <4> QED
        BY <2>1, <4>1, <4>2
    <3> QED
      BY <3>1, <3>2
  <2>10. \A j \in Index : sindex'[Coo[j]] <= j
    <3> SUFFICES ASSUME NEW j \in Index PROVE sindex'[Coo[j]] <= j
      OBVIOUS
    <3>1. Coo[j] \in Tx /\ j \in 1 .. N
      BY SnapshotsAssumption DEF Index
    <3>2. CASE Coo[j] \in W
      <4>1. ~(j \in 1 .. solidIndex)
        BY <2>2, <3>2 DEF KnownInv, Known
      <4> QED
        BY <2>2, <2>3, <3>1, <3>2, <4>1
    <3>3. CASE Coo[j] \notin W
      BY <2>1, <3>1, <3>3 DEF GraphInv
    <3> QED
      BY <3>2, <3>3
  <2>11. ppc \in {"record", "deleteCone"} => \A t \in batch : sindex'[t] # 0
    BY <2>1 DEF GraphInv, TypeInv
  <2>12. GraphInv'
    BY <1>0, <2>6, <2>7, <2>8, <2>9, <2>10, <2>11 DEF GraphInv, Pruned
  <2>13. metaFile \notin {NoFile, TornFile} => Known(sindex', metaFile.index)
    BY <2>3, <2>4 DEF KnownInv, TypeInv, Meta, Index
  <2> QED
    BY <1>0, <2>5, <2>12, <2>13 DEF KnownInv
<1> QED
  BY <1>1, <1>2

\* A transaction that is received is no confirmed milestone.
LEMMA GraphOfReceive ==
    ASSUME TypeInv, OrderInv, GraphInv, KnownInv, NEW t \in Tx, Receive(t)
    PROVE  GraphInv'
<1>0. /\ t \notin stored /\ sindex[t] = 0 /\ (\A p \in Parents[t] : p \in stored \/ sindex[p] # 0)
      /\ stored' = stored \cup {t} /\ rows' = rows \cup {i \in Index : Coo[i] = t}
      /\ UNCHANGED <<sindex, ppc, lastPruned, batch>>
  BY DEF Receive, pruning
<1>1. \A i \in Index : Coo[i] = t => i > lastPruned
  <2> SUFFICES ASSUME NEW i \in Index, Coo[i] = t, ~(i > lastPruned) PROVE FALSE
    OBVIOUS
  <2>1. i \in 1 .. solidIndex
    BY BelowSolid, Numbers
  <2> QED
    BY <1>0, <2>1 DEF KnownInv, Known
<1>2. ppc \in Deleting => Pruned # t
  BY <1>0, PrunedIsKnown DEF OrderInv
<1>3. ppc \in Deleting => Pruned' = Pruned
  BY <1>0 DEF Pruned
<1>4. ppc' = "deleteRow" => Pruned' \notin stored'
  BY <1>0, <1>2, <1>3 DEF GraphInv, Deleting
<1>5. ppc # "start" => \A i \in rows' : i > lastPruned
  BY <1>0, <1>1 DEF GraphInv
<1>6. \A i \in Index : Coo[i] \in stored' => i \in rows'
  BY <1>0 DEF GraphInv
<1>7. \A x \in stored' : \A p \in Parents[x] : p \in stored' \/ sindex[p] # 0
  BY <1>0 DEF GraphInv
<1> QED
  BY <1>0, <1>4, <1>5, <1>6, <1>7 DEF GraphInv

\* What pruning collects is confirmed.
LEMMA CollectedIsConfirmed ==
    ASSUME TypeInv, OrderInv, GraphInv, KnownInv, lastPruned < toPrune
    PROVE  \A t \in ToPrune : sindex[t] # 0
<1> DEFINE B == {t \in stored : sindex[t] >= lastPruned + 1}
           W == DfsToPast[Pruned][B]
<1>1. Pruned \in Tx /\ sindex[Pruned] # 0 /\ B \in SUBSET Tx
  BY PrunedIsKnown DEF TypeInv
<1>2. W \subseteq B
  BY <1>1, WalkReach
<1>3. ToPrune = {Pruned} \cup W \cup UNION {Parents[t] : t \in W}
  BY DEF ToPrune, Visited
<1>4. \A t \in B : t \in Tx /\ sindex[t] # 0
  <2>1. \A t \in stored : t \in Tx /\ sindex[t] \in 0 .. N
    BY DEF TypeInv
  <2> QED
    BY <2>1, Numbers
<1> HIDE DEF W, B
<1>5. \A t \in W : \A p \in Parents[t] : sindex[p] # 0
  BY <1>2, <1>4 DEF GraphInv
<1> QED
  BY <1>1, <1>2, <1>3, <1>4, <1>5

LEMMA GraphOfPruning ==
    ASSUME TypeInv, OrderInv, GraphInv, KnownInv, Prunes
    PROVE  GraphInv'
<1> USE DEF world, database, files, ledger, plan, manager, pruning, bounds, history
<1>0. sindex' = sindex
  BY PruningFrame
<1>1. CASE PruneStart
  <2>1. UNCHANGED <<stored, rows, batch>> /\ ppc' = "wait"
    BY <1>1 DEF PruneStart
  <2>2. \A i \in rows : i > lastPruned'
    BY <1>1, PruneFrom
  <2> QED
    BY <1>0, <2>1, <2>2 DEF GraphInv
<1>2. CASE Collect
  <2>1. \A t \in ToPrune : sindex[t] # 0
    BY <1>2, CollectedIsConfirmed DEF Collect, CollectUpTo
  <2>2. UNCHANGED <<stored, rows, lastPruned>> /\ ppc' = "record" /\ batch' = ToPrune /\ ppc = "wait"
    BY <1>2 DEF Collect, CollectUpTo
  <2> QED
    BY <1>0, <2>1, <2>2 DEF GraphInv
<1>3. CASE CollectFault \/ DeleteFault
  BY <1>0, <1>3 DEF GraphInv, CollectFault, DeleteFault
<1>4. CASE Record
  <2>1. /\ UNCHANGED <<stored, rows, lastPruned>> /\ ppc' = "deleteCone" /\ ppc = "record"
        /\ batch' \subseteq batch
    BY <1>4 DEF Record, RecordAnd
  <2> QED
    BY <1>0, <2>1 DEF GraphInv
<1>5. CASE DeleteCone
  <2>1. /\ UNCHANGED <<rows, lastPruned>> /\ ppc' = "deleteMilestone" /\ ppc = "deleteCone"
        /\ stored' \subseteq stored /\ \A t \in stored : t \in stored' \/ t \in batch
    BY <1>5 DEF DeleteCone
  <2>2. \A t \in stored' : \A p \in Parents[t] : p \in stored' \/ sindex[p] # 0
    BY <2>1 DEF GraphInv
  <2> QED
    BY <1>0, <2>1, <2>2 DEF GraphInv
<1>6. CASE DeleteMilestone
  <2>1. /\ UNCHANGED <<rows, lastPruned>> /\ ppc' = "deleteRow" /\ ppc = "deleteMilestone"
        /\ stored' = stored \ {Pruned} /\ Pruned' = Pruned
    BY <1>6 DEF DeleteMilestone, Pruned
  <2>2. sindex[Pruned] # 0
    BY <2>1, PrunedIsKnown DEF OrderInv, Deleting
  <2>3. \A t \in stored' : \A p \in Parents[t] : p \in stored' \/ sindex[p] # 0
    BY <2>1, <2>2 DEF GraphInv
  <2> QED
    BY <1>0, <2>1, <2>3 DEF GraphInv
<1>7. CASE DeleteRow
  <2>1. /\ UNCHANGED <<stored, batch>> /\ ppc' = "wait" /\ ppc = "deleteRow"
        /\ rows' = rows \ {lastPruned + 1} /\ lastPruned' = lastPruned + 1
    BY <1>7 DEF DeleteRow
  <2>2. \A i \in rows' : i > lastPruned'
    BY <2>1, Numbers DEF GraphInv
  <2>3. \A i \in Index : Coo[i] \in stored => i \in rows'
    BY <2>1 DEF GraphInv, Pruned
  <2> QED
    BY <1>0, <2>1, <2>2, <2>3 DEF GraphInv
<1> QED
  BY <1>1, <1>2, <1>3, <1>4, <1>5, <1>6, <1>7 DEF Prunes, Pruning

LEMMA GraphStep ==
    ASSUME TypeInv, OrderInv, GraphInv, KnownInv, [Next]_vars
    PROVE  GraphInv'
<1> USE DEF world, database, files, ledger, plan, manager, pruning, bounds, history
<1>1. CASE UNCHANGED vars
  BY <1>1 DEF vars, GraphInv, Pruned
<1>2. CASE Managing
  BY <1>2, ManagerFrame DEF GraphInv, Pruned
<1>3. CASE Crash
  BY <1>3 DEF Crash, GraphInv
<1> QED
  BY <1>1, <1>2, <1>3, GraphOfConfirm, GraphOfReceive, GraphOfPruning DEF Next, Managing, Prunes
=============================================================================
