--------------------------- MODULE LocalSnapshots ---------------------------
(***************************************************************************)
(* Local snapshots: the manager thread rolls the initial snapshot forward  *)
(* to an old enough milestone and writes it to two files; the pruning      *)
(* thread deletes the past of milestones that the snapshot has absorbed; a *)
(* restarted node reads the files and rebuilds the ledger from the state   *)
(* deltas of the milestones that follow.                                   *)
(*                                                                         *)
(* A ledger state is the number of times the state delta of each milestone *)
(* is in it, so that a delta that is lost or applied twice shows.  A step  *)
(* is one database call, one critical section or one file.  The milestone  *)
(* tracker appears only as the one step that confirms a milestone; module  *)
(* MilestoneTracker has its detail.  The genesis hash, a solid entry point *)
(* that is never looked up or deleted, is left out of every set.           *)
(***************************************************************************)
EXTENDS Tangle, Integers, FiniteSetsExt

CONSTANTS
    N,             \* the last milestone
    Coo,           \* the transaction of each milestone
    Time,          \* the later of a transaction's two timestamps
    Valued,        \* the milestones with a non-empty state delta
    Spenders,      \* the transactions that spend from an address
    MinDepth,      \* conf.local_snapshots.min_depth
    Threshold,     \* conf.local_snapshots.transactions_growth_threshold
    MaxCalc,       \* SNAPSHOT_SERVICE_MAX_NUM_MILESTONES_TO_CALC
    MaxDepth,      \* SNAPSHOT_SERVICE_SOLID_ENTRY_POINT_MAX_DEPTH
    PruningEnabled,
    NoFile, TornFile,
    MaxCrashes, MaxFaults

Index == 1 .. N

ASSUME SnapshotsAssumption ==
    /\ N \in Nat /\ Valued \subseteq Index /\ Spenders \subseteq Tx
    /\ Coo \in [Index -> Tx] /\ Time \in [Tx -> Nat]
    /\ {MinDepth, Threshold, MaxCalc, MaxDepth, MaxCrashes, MaxFaults} \subseteq Nat
    /\ PruningEnabled \in BOOLEAN

VARIABLES
    stored, sindex,      \* transactions, and the snapshot index of each
    rows,                \* the milestone rows of the database
    spentDb,             \* transactions whose address is recorded as spent
    tips,                \* the tips cache
    stateFile, metaFile, \* the snapshot files
    initial, latest,     \* snapshots_provider: initial_snapshot, latest_snapshot
    solidIndex,          \* latest_solid_milestone_index of the tracker
    lpc, target, cursor, \* the manager, the milestone it aims at, its loop index
    next,                \* next_snapshot
    lastCount,           \* last_snapshot_transactions_count
    ppc,                 \* where the pruning thread is
    lastPruned, toPrune, \* last_pruned_snapshot_index, last_snapshot_index_to_prune
    psSeps,              \* solid_entry_points of the pruning service
    batch,               \* transactions_to_prune
    crashes, faults,
    raced, cut           \* history: the data race was hit, a write was cut short

database == <<stored, sindex, rows, spentDb>>
files    == <<stateFile, metaFile>>
ledger   == <<initial, latest, solidIndex>>
world    == <<database, tips, files, ledger>>
plan     == <<target, cursor>>
manager  == <<lpc, plan, next, lastCount>>
pruning  == <<ppc, lastPruned, toPrune, psSeps, batch>>
bounds   == <<crashes, faults>>
history  == <<raced, cut>>

vars == <<world, manager, pruning, bounds, history>>

\* The state in which the deltas of milestones 1 .. i are applied, each once.
Applied(i) == [j \in Index |-> IF j <= i /\ j \in Valued THEN 1 ELSE 0]

NoSeps == [t \in {} |-> 0]

BuiltIn == [index |-> 0, state |-> Applied(0), seps |-> NoSeps]

\* hash_to_uint64_t_map_add keeps the value of a key that is there already.
MapAdd(map, keys, value) ==
    [t \in DOMAIN map \cup keys |-> IF t \in DOMAIN map THEN map[t] ELSE value]

Unconfirmed == {t \in stored : sindex[t] = 0}

\* The transactions a walk to the past looks at: those it branches on, and
\* their parents, stored or not.
Visited(entry, Branch) ==
    LET walk == DfsToPast[entry][Branch]
    IN  {entry} \cup walk \cup UNION {Parents[t] : t \in walk}

Fault == faults < MaxFaults /\ faults' = faults + 1

Init ==
    /\ stored = {} /\ sindex = [t \in Tx |-> 0] /\ rows = {} /\ spentDb = {}
    /\ tips = {}
    /\ stateFile = NoFile /\ metaFile = NoFile
    /\ initial = BuiltIn /\ latest = BuiltIn /\ solidIndex = 0
    /\ lpc = "check" /\ target = 0 /\ cursor = 0 /\ next = BuiltIn
    /\ lastCount = 0
    /\ ppc = "start" /\ lastPruned = 0 /\ toPrune = 0 /\ psSeps = {} /\ batch = {}
    /\ crashes = 0 /\ faults = 0
    /\ raced = FALSE /\ cut = FALSE

(***************************************************************************)
(* The rest of the node: a transaction is stored, once, after its parents; *)
(* a milestone gets its row; milestones are confirmed in order.            *)
(***************************************************************************)
Receive(t) ==
    /\ t \notin stored /\ sindex[t] = 0
    /\ \A p \in Parents[t] : p \in stored \/ sindex[p] # 0
    /\ stored' = stored \cup {t}
    /\ rows' = rows \cup {i \in Index : Coo[i] = t}
    /\ tips' = (tips \ Parents[t]) \cup {t}
    /\ UNCHANGED <<sindex, spentDb, files, ledger, lpc, plan, next,
                   lastCount, pruning, bounds, history>>

\* A milestone confirmed before a restart already has its snapshot index:
\* the tracker passes over it and the latest snapshot stays behind.
Confirm ==
    LET i == solidIndex + 1
    IN  /\ i \in rows /\ (Coo[i] \in stored \/ sindex[Coo[i]] # 0)
        /\ solidIndex' = i
        /\ IF sindex[Coo[i]] = 0
           THEN /\ sindex' = [t \in Tx |->
                      IF t \in DfsToPast[Coo[i]][Unconfirmed] THEN i ELSE sindex[t]]
                /\ latest' = [latest EXCEPT
                      !.index = i,
                      !.state[i] = IF i \in Valued THEN @ + 1 ELSE @]
           ELSE UNCHANGED <<sindex, latest>>
        /\ UNCHANGED <<stored, rows, spentDb, tips, files, initial, manager,
                       pruning, bounds, history>>

(***************************************************************************)
(* The manager thread.                                                     *)
(***************************************************************************)
Word == 65536   \* stands for 2^64: the counts are uint64_t

Gap == latest.index - initial.index

Grown == (Cardinality(stored) - lastCount) % Word >= Threshold

ShouldTake == Gap > MaxCalc \/ (Grown /\ Gap > 2 * MinDepth)

Goto(label) == lpc' = label

Check ==
    /\ lpc = "check" /\ ShouldTake
    /\ Goto("determine")
    /\ UNCHANGED <<world, plan, next, lastCount, pruning, bounds, history>>

\* A failed attempt: the manager waits and looks at its condition again.
Abandon ==
    /\ Goto("check")
    /\ UNCHANGED <<world, plan, next, lastCount, pruning, history>>

\* A snapshot was taken, or found to be of no use: its size is remembered.
Finish ==
    /\ Goto("check")
    /\ lastCount' = Cardinality(stored)
    /\ UNCHANGED <<plan, next>>

NewEntryPoint ==
    (IF latest.index - MinDepth - initial.index > MaxCalc
     THEN initial.index + MaxCalc ELSE latest.index - MinDepth) - 1

DetermineFrom(first) ==
    /\ lpc = "determine"
    /\ IF /\ latest.index > MinDepth
          /\ latest.index - MinDepth > initial.index
          /\ NewEntryPoint \in rows
          /\ NewEntryPoint > initial.index
       THEN /\ Goto("replay")
            /\ target' = NewEntryPoint
            /\ next' = initial
            /\ cursor' = first
            /\ UNCHANGED <<world, lastCount, pruning, history>>
       ELSE Abandon
    /\ UNCHANGED bounds

\* A faulty variant of Determine: the replay leaves out the first row.
DetermineNext == DetermineFrom(initial.index + 1)

Determine == DetermineFrom(initial.index)

\* One turn of the loop of iota_milestone_service_replay_milestones.  A row
\* that is not there ends the loop without an error.  The snapshot takes the
\* index of the last row loaded, if any of the rows had a delta.
ReplayRow ==
    /\ lpc = "replay" /\ cursor < target /\ cursor + 1 \in rows
    /\ cursor' = cursor + 1
    /\ next' = [next EXCEPT
          !.state[cursor + 1] = IF cursor + 1 \in Valued THEN @ + 1 ELSE @]
    /\ UNCHANGED <<world, lpc, target, lastCount,
                   pruning, bounds, history>>

ReplayDone ==
    /\ lpc = "replay"
    /\ cursor = target \/ cursor + 1 \notin rows
    /\ IF next.state # initial.state
       THEN /\ Goto("metadata") /\ next' = [next EXCEPT !.index = cursor]
            /\ UNCHANGED <<target, cursor, lastCount>>
       ELSE Finish
    /\ UNCHANGED <<world, pruning, bounds, history>>

AfterSeps == IF PruningEnabled THEN "index" ELSE "truncState"

\* iota_snapshots_service_generate_snapshot_metadata: the index is the one
\* of the target; too far behind the latest milestone, the solid entry
\* points stay those copied from the initial snapshot.
Metadata ==
    /\ lpc = "metadata"
    /\ IF latest.index - target <= MaxDepth
       THEN /\ Goto("oldSeps")
            /\ next' = [next EXCEPT !.index = target, !.seps = NoSeps]
       ELSE /\ Goto(AfterSeps)
            /\ next' = [next EXCEPT !.index = target]
    /\ UNCHANGED <<world, target, cursor, lastCount,
                   pruning, bounds, history>>

\* check_transaction_is_not_orphan_do_func from the approvers of t: some
\* unconfirmed transaction on t, by way of unconfirmed ones, is newer than
\* the target milestone or is an entry point.
NotOrphan(t) ==
    \E w \in Unconfirmed :
        /\ w \in DOMAIN next.seps \/ Time[w] > Time[Coo[target]]
        /\ \E x \in DfsToPast[w][Unconfirmed] : t \in Parents[x]

\* The storage errors that iota_snapshots_service_add_entry_point_if_not_orphan
\* meets are dropped, and the entry point with them.
Kept(points, kept) ==
    /\ kept \subseteq points
    /\ IF kept = points THEN UNCHANGED faults ELSE Fault

OldSeps ==
    /\ lpc = "oldSeps"
    /\ IF Coo[target] \in stored
       THEN LET old  == {t \in DOMAIN initial.seps :
                             target - initial.seps[t] < MaxDepth /\ NotOrphan(t)}
            IN  /\ \E kept \in SUBSET old :
                      /\ Kept(old, kept)
                      /\ next' = [next EXCEPT
                             !.seps = [t \in kept |-> initial.seps[t]]]
                /\ Goto("newSeps") /\ cursor' = target
                /\ UNCHANGED <<world, target, lastCount, pruning, crashes, history>>
       ELSE Abandon /\ UNCHANGED bounds

\* One turn of the loop of collect_new_solid_entry_points.  The milestone
\* itself becomes an entry point.  When the row of the initial snapshot's
\* own milestone is not there, prev_milestone and the index stay as they are.
EntryPointsOf(i) ==
    {t \in DfsToPast[Coo[i]][{s \in stored : sindex[s] >= i}] : NotOrphan(t)}

CollectSeps(own) ==
    /\ lpc = "newSeps" /\ cursor > initial.index /\ cursor > 1
    /\ IF cursor - 1 \notin rows /\ cursor - 1 > initial.index
       THEN Abandon /\ UNCHANGED bounds
       ELSE /\ \E kept \in SUBSET EntryPointsOf(cursor) :
                  /\ Kept(EntryPointsOf(cursor), kept)
                  /\ next' = [next EXCEPT
                         !.seps = MapAdd(@, kept \cup own, cursor)]
            /\ cursor' = IF cursor - 1 \in rows THEN cursor - 1 ELSE cursor
            /\ UNCHANGED <<world, lpc, target, lastCount, pruning, crashes, history>>

\* A faulty variant of NewSeps: the milestones are no entry points.
NewSepsMilestoneless == CollectSeps({})

NewSeps == CollectSeps({Coo[cursor]})

SepsDone ==
    /\ lpc = "newSeps" /\ ~(cursor > initial.index /\ cursor > 1)
    /\ Goto(AfterSeps)
    /\ UNCHANGED <<world, plan, next, lastCount, pruning, bounds, history>>

ManagerFault ==
    /\ lpc \in {"determine", "replay", "metadata", "oldSeps", "newSeps"}
    /\ Fault /\ Abandon /\ UNCHANGED crashes

(***************************************************************************)
(* iota_local_snapshots_pruning_service_update_current_snapshot: the index *)
(* under the lock of the service, then, without it, the entry points.  The *)
(* snapshot is not on disk yet.                                            *)
(***************************************************************************)
UpdateIndex ==
    /\ lpc = "index"
    /\ toPrune' = next.index
    /\ Goto("seps")
    /\ UNCHANGED <<world, plan, next, lastCount, ppc, lastPruned, psSeps, batch, bounds, history>>

UpdateSeps ==
    /\ lpc = "seps"
    /\ psSeps' = DOMAIN next.seps
    /\ Goto("truncState")
    /\ UNCHANGED <<world, plan, next, lastCount, ppc, lastPruned, toPrune, batch, bounds, history>>

(***************************************************************************)
(* iota_snapshots_service_persist_snapshot: the state file, the metadata   *)
(* file, each truncated and then written, and then the initial snapshot.   *)
(* Opening a file may fail and leaves it alone; a write may be short.      *)
(***************************************************************************)
\* The text of the metadata announces how many entry points follow.
iota_snapshot_metadata_serialize_str(snapshot) ==
    [index |-> snapshot.index, count |-> Cardinality(DOMAIN snapshot.seps),
     entries |-> snapshot.seps]

\* A write that was cut short: within the lines before the entry points, or
\* with some of these missing.
CutMetadata(text) ==
    {TornFile} \cup
    {[text EXCEPT !.entries = [t \in kept |-> @[t]]] :
        kept \in SUBSET (DOMAIN text.entries) \ {DOMAIN text.entries}}

\* The first two fail when the file is opened.  fwrite reports what did not
\* reach the file, but not what is lost when fclose empties its buffer.
WriteFailed ==
    /\ lpc \in {"truncState", "writeState", "truncMeta", "writeMeta"}
    /\ Fault
    /\ \/ Goto("check")
       \/ lpc = "writeState" /\ Goto("truncMeta")
       \/ lpc = "writeMeta" /\ Goto("install")
    /\ IF lpc = "writeMeta"
       THEN metaFile' \in CutMetadata(iota_snapshot_metadata_serialize_str(next))
       ELSE UNCHANGED metaFile
    /\ cut' = (cut \/ lpc # "truncState")
    /\ UNCHANGED <<database, tips, stateFile, ledger, plan, next, lastCount, pruning, crashes, raced>>

TruncState ==
    /\ lpc = "truncState"
    /\ stateFile' = TornFile /\ Goto("writeState")
    /\ UNCHANGED <<database, tips, metaFile, ledger, plan, next,
                   lastCount, pruning, bounds, history>>

WriteState ==
    /\ lpc = "writeState"
    /\ stateFile' = next.state /\ Goto("truncMeta")
    /\ UNCHANGED <<database, tips, metaFile, ledger, plan, next,
                   lastCount, pruning, bounds, history>>

TruncMeta ==
    /\ lpc = "truncMeta"
    /\ metaFile' = TornFile /\ Goto("writeMeta")
    /\ UNCHANGED <<database, tips, stateFile, ledger, plan, next,
                   lastCount, pruning, bounds, history>>

WriteMeta ==
    /\ lpc = "writeMeta"
    /\ metaFile' = iota_snapshot_metadata_serialize_str(next) /\ Goto("install")
    /\ UNCHANGED <<database, tips, stateFile, ledger, plan, next,
                   lastCount, pruning, bounds, history>>

Install ==
    /\ lpc = "install"
    /\ initial' = next
    /\ Finish
    /\ UNCHANGED <<database, tips, files, latest, solidIndex, pruning, bounds, history>>

(***************************************************************************)
(* The pruning thread, at milestone lastPruned + 1.  It waits on its       *)
(* condition without testing anything, and a wait may end by itself, so it *)
(* can start whenever there is something to prune.                         *)
(***************************************************************************)
Pruned == Coo[lastPruned + 1]

PruneStart ==
    /\ PruningEnabled /\ ppc = "start" /\ ppc' = "wait"
    /\ lastPruned' = IF rows = {} THEN lastPruned
                     ELSE Min({Max({0, Min(rows) - 1}), lastPruned})
    /\ UNCHANGED <<world, manager, toPrune, psSeps, batch, bounds, history>>

\* A faulty variant of ToPrune: stops at what the milestone itself confirms.
ToPruneStrict == Visited(Pruned, {t \in stored : sindex[t] > lastPruned + 1})

\* collect_transactions_to_prune.  The walk to the future that starts in the
\* functor stops at its own entry point, which is confirmed, and adds nothing.
\* With an entry point in the set the thread waits for the next snapshot.
\* While the entry points are being replaced the test may give either answer.
ToPrune == Visited(Pruned, {t \in stored : sindex[t] >= lastPruned + 1})

CollectUpTo(bound) ==
    /\ ppc = "wait" /\ lastPruned < bound
    /\ lpc = "seps" \/ ToPrune \cap psSeps = {}
    /\ raced' = (raced \/ lpc = "seps")
    /\ ppc' = "record" /\ batch' = ToPrune
    /\ UNCHANGED <<world, manager, lastPruned, toPrune, psSeps, bounds, cut>>

Collect == CollectUpTo(toPrune)

\* An error while collecting empties the set and is not reported.
CollectFault ==
    /\ ppc = "wait" /\ lastPruned < toPrune
    /\ Fault
    /\ ppc' = "deleteCone" /\ batch' = {}
    /\ UNCHANGED <<world, manager, lastPruned, toPrune, psSeps, crashes, history>>

RecordAnd(cached, leftover) ==
    /\ ppc = "record"
    /\ ppc' = "deleteCone"
    /\ \/ /\ tips' = tips \ cached
          /\ spentDb' = spentDb \cup (batch \cap stored \cap Spenders)
          /\ UNCHANGED <<batch, faults>>
       \/ \E done \in SUBSET batch :
             /\ Fault
             /\ tips' = tips \ done
             /\ spentDb' = spentDb \cup (done \cap stored \cap Spenders)
             /\ batch' = leftover
    /\ UNCHANGED <<stored, sindex, rows, files, ledger, manager, lastPruned,
                   toPrune, psSeps, crashes, history>>

\* A faulty variant of Record: an error leaves the cone to be deleted.
RecordDespiteError == RecordAnd(batch, batch)

Record == RecordAnd(batch, {})

\* The three deletions of prune_transactions, each one SQL transaction.  An
\* error leaves the rest undone, and the milestone is pruned again.
DeleteCone ==
    /\ ppc = "deleteCone"
    /\ ppc' = "deleteMilestone"
    /\ stored' = stored \ (batch \ {Pruned})
    /\ batch' = {}
    /\ UNCHANGED <<sindex, rows, spentDb, tips, files, ledger, manager, lastPruned,
                   toPrune, psSeps, bounds, history>>

DeleteMilestone ==
    /\ ppc = "deleteMilestone"
    /\ ppc' = "deleteRow"
    /\ stored' = stored \ {Pruned}
    /\ UNCHANGED <<sindex, rows, spentDb, tips, files, ledger, manager, lastPruned,
                   toPrune, psSeps, batch, bounds, history>>

DeleteRow ==
    /\ ppc = "deleteRow"
    /\ ppc' = "wait"
    /\ rows' = rows \ {lastPruned + 1}
    /\ lastPruned' = lastPruned + 1
    /\ UNCHANGED <<stored, sindex, spentDb, tips, files, ledger, manager,
                   toPrune, psSeps, batch, bounds, history>>

DeleteFault ==
    /\ ppc \in {"deleteCone", "deleteMilestone", "deleteRow"}
    /\ Fault
    /\ ppc' = "wait" /\ batch' = {}
    /\ UNCHANGED <<world, manager, lastPruned, toPrune, psSeps, crashes, history>>

(***************************************************************************)
(* The process ends anywhere and starts again: iota_snapshot_init reads    *)
(* the files, or falls back on the snapshot that comes with the node, and  *)
(* build_snapshot applies the deltas of the rows that follow, up to the    *)
(* first row that is not there.                                            *)
(***************************************************************************)
\* A text that ends before the announced number of entry points is taken as
\* it is; one that ends before them is refused.
iota_snapshot_metadata_deserialize_str(text) == [index |-> text.index, seps |-> text.entries]

ReadsMetadata(file) == file \notin {NoFile, TornFile}

\* A state that was cut short is refused: it does not add up to the supply.
ReadsState(file) == file \notin {NoFile, TornFile}

Loaded(meta) ==
    IF ~ReadsMetadata(meta) \/ ~ReadsState(stateFile) THEN BuiltIn
    ELSE LET read == iota_snapshot_metadata_deserialize_str(meta)
         IN  [index |-> read.index, state |-> stateFile, seps |-> read.seps]

Rebuilt(from) ==
    LET follow == {i \in Index : i > from.index /\ from.index + 1 .. i \subseteq rows}
        deltas == {i \in follow \cap Valued : sindex[Coo[i]] = i}
    IN  [from EXCEPT !.index = Max(deltas \cup {from.index}),
                     !.state = [i \in Index |-> IF i \in deltas THEN @[i] + 1 ELSE @[i]]]

Crash ==
    /\ crashes < MaxCrashes /\ crashes' = crashes + 1
    /\ cut' = (cut \/ lpc \in {"writeState", "truncMeta", "writeMeta"})
    /\ metaFile' \in IF lpc = "writeMeta"
                     THEN CutMetadata(iota_snapshot_metadata_serialize_str(next))
                     ELSE {metaFile}
    /\ initial' = Loaded(metaFile') /\ latest' = Rebuilt(initial')
    /\ solidIndex' = latest'.index
    /\ tips' = {}
    /\ lpc' = "check" /\ target' = 0 /\ cursor' = 0 /\ next' = BuiltIn
    /\ lastCount' = 0
    /\ ppc' = "start" /\ psSeps' = {} /\ batch' = {}
    /\ lastPruned' = initial'.index /\ toPrune' = initial'.index
    /\ UNCHANGED <<database, stateFile, faults, raced>>

Manager ==
    \/ Check \/ Determine \/ ReplayRow \/ ReplayDone \/ Metadata
    \/ OldSeps \/ NewSeps \/ SepsDone \/ UpdateIndex \/ UpdateSeps
    \/ TruncState \/ WriteState \/ TruncMeta \/ WriteMeta \/ Install

Pruning ==
    PruneStart \/ Collect \/ Record \/ DeleteCone \/ DeleteMilestone \/ DeleteRow

Next ==
    \/ \E t \in Tx : Receive(t)
    \/ Confirm
    \/ Manager \/ ManagerFault \/ WriteFailed
    \/ Pruning \/ CollectFault \/ DeleteFault
    \/ Crash

Spec == Init /\ [][Next]_vars

\* Every thread goes on while it can: the waits of the manager are timed, and
\* its walks read a database that answers.
FairSpec == Spec /\ WF_vars(Manager) /\ WF_vars(Pruning)
                 /\ WF_vars(Confirm) /\ WF_vars(\E t \in Tx : Receive(t))

-----------------------------------------------------------------------------
State    == [Index -> 0 .. 1 + MaxCrashes]
Seps     == UNION {[points -> Index] : points \in SUBSET Tx}
Meta     == [index : Index, count : Nat, entries : Seps]

ASSUME FilesAssumption ==
    \A file \in {NoFile, TornFile} : file \notin State /\ file \notin Meta

IsSeps(map) == DOMAIN map \subseteq Tx /\ \A t \in DOMAIN map : map[t] \in Index

\* What the database, the files, the snapshots and the two threads hold; the
\* initial snapshot is never ahead of the latest one, nor the pruning ahead
\* of the snapshot it was told of.
TypeOK ==
    /\ stored \subseteq Tx /\ sindex \in [Tx -> 0 .. N]
    /\ rows \subseteq Index /\ spentDb \subseteq Spenders /\ tips \subseteq Tx
    /\ stateFile \in State \cup {NoFile, TornFile}
    /\ metaFile \in {NoFile, TornFile}
             \/ (metaFile.index \in Index /\ IsSeps(metaFile.entries))
    /\ \A s \in {initial, latest, next} :
          s.index \in 0 .. N /\ s.state \in State /\ IsSeps(s.seps)
    /\ solidIndex \in 0 .. N /\ initial.index <= latest.index
    /\ target \in 0 .. N /\ cursor \in 0 .. N
    /\ lastCount \in Nat
    /\ lastPruned <= toPrune /\ toPrune \in 0 .. N /\ lastPruned \in 0 .. N
    /\ psSeps \subseteq Tx /\ batch \subseteq Tx
    /\ lpc \in {"check", "determine", "replay", "metadata", "oldSeps", "newSeps",
                "index", "seps", "truncState", "writeState", "truncMeta",
                "writeMeta", "install"}
    /\ ppc \in {"start", "wait", "record", "deleteCone", "deleteMilestone", "deleteRow"}
    /\ {raced, cut} \subseteq BOOLEAN

\* Rolling the snapshot forward while milestones are confirmed and pruned
\* around it loses no delta and applies none twice: the initial and the latest
\* snapshot hold exactly the deltas up to their index
\* (iota_milestone_service_replay_milestones, build_snapshot).  The way out is
\* a file that was being written when the process ended or the disk failed.
\* A replay that ended early at a deleted row is found out by the walk for the
\* entry points: where MaxDepth lets the manager leave that walk out, a storage
\* error after pruning was told of a snapshot can make the next one inexact.
SnapshotsAreExact ==
    cut \/ \A s \in {initial, latest} : s.state = Applied(s.index)

\* A node that ends now and starts again rebuilds the very ledger it has:
\* pruning is told of a snapshot before it is on disk, but the entry points it
\* is told of hold it back from the milestones the files on disk still need
\* (iota_snapshots_service_take_snapshot).  Before the first snapshot is on
\* disk milestone 1, which never becomes an entry point, is not held back, and
\* a storage error while collecting lets the pruning pass over an entry point.
RestartRebuilds ==
    \/ cut \/ raced \/ faults > 0
    \/ lpc \in {"writeState", "truncMeta", "writeMeta"}
    \/ metaFile = NoFile
    \/ Rebuilt(Loaded(metaFile)).state = latest.state

\* The address of a confirmed spending transaction is in the database of spent
\* addresses before the transaction is deleted, whatever fails or ends in
\* between (collect_transactions_to_prune, prune_transactions).
SpentIsRecorded ==
    \A t \in Spenders : sindex[t] # 0 => t \in stored \cup spentDb

\* The tips that are handed to neighbors are in the database: pruning removes
\* a transaction from the tips cache before it deletes it.  Stated, like the
\* next one, for storage calls that succeed: collect_transactions_to_prune
\* reports its errors as success, with an empty set.
TipsAreStored == faults = 0 => tips \subseteq stored

\* A milestone's transaction is deleted only after everything it confirmed is
\* ("to avoid dangle transactions", prune_transactions).
ConeGoesFirst ==
    faults = 0 =>
        \A i \in Index : sindex[Coo[i]] = i /\ Coo[i] \notin stored
                         => \A t \in stored : sindex[t] # i

\* "Takes a snapshot and applies it": once a snapshot is called for, the
\* initial snapshot moves on or the reason goes away
\* (iota_snapshots_service_take_snapshot).
SnapshotsAdvance ==
    \A i \in 0 .. N :
        ShouldTake /\ initial.index = i ~> ~ShouldTake \/ initial.index > i

\* What pruning may never break, while snapshots are taken and milestones are
\* confirmed (pruning_service.c).
PruningSafety == TypeOK /\ TipsAreStored /\ ConeGoesFirst
=============================================================================
