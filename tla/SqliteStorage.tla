---------------------------- MODULE SqliteStorage ---------------------------
(***************************************************************************)
(* sqlite3/storage.c, function by function: what a write does to a         *)
(* database and whether it fails, and which rows a query reads.            *)
(***************************************************************************)
EXTENDS Statements, SequencesExt, FiniteSetsExt

\* The rows are appended to what the pack holds; the row that does not fit
\* sets insufficient_capacity and ends the loop.
ExecuteStatementLoadGen(p, rows) ==
    LET room == p.capacity - Len(p.models)
    IN  [p EXCEPT !.models = @ \o [i \in 1..Min({room, Len(rows)}) |-> rows[i]],
                  !.insufficient_capacity = Len(rows) > room]

\* sqlite3_step fails in the middle of the rows: the loop ends as it does
\* after the last one, and the caller is told RC_OK.
LoadGenBroken(p, rows) ==
    {ExecuteStatementLoadGen(p, SubSeq(rows, 1, n)) : n \in 1..(Len(rows) - 1)} \cup {p}

\* The fields in the order in which they take the columns of a row.
SqlitePopulateEssence ==
    <<"address", "value", "obsolete_tag", "timestamp", "current_index", "last_index", "bundle">>
SqlitePopulateAttachment ==
    <<"trunk", "branch", "attachment_timestamp", "attachment_timestamp_lower",
      "attachment_timestamp_upper", "nonce", "tag">>
SqlitePopulateMetadata == <<"snapshot_index", "solid", "validity", "arrival">>

SqlitePopulate(model) ==
    CASE model = "all" -> SqlitePopulateEssence \o SqlitePopulateAttachment
                          \o <<"hash", "signature_or_message">>
      [] model = "essence_metadata" -> SqlitePopulateEssence \o SqlitePopulateMetadata
      [] model = "essence_attachment_metadata" ->
            SqlitePopulateEssence \o SqlitePopulateAttachment \o SqlitePopulateMetadata
      [] model = "essence_consensus" -> SqlitePopulateEssence \o <<"hash">>
      [] model = "metadata" -> SqlitePopulateMetadata

\* storage_transaction_load and the loads of its parts
SqliteTransactionLoad(d, h, model) ==
    LET fields == SqlitePopulate(model)
        Loaded(row) == {<<fields[i], Cell(row, SelectColumns(model)[i])>> : i \in 1..Len(fields)}
    IN  {Loaded(d.tx[k]) : k \in {h} \cap DOMAIN d.tx}

SqliteTransactionCount(d) == {Cardinality(DOMAIN d.tx)}

\* The fields in the order in which they are bound.
SqliteBindings ==
    <<"signature_or_message", "address", "value", "obsolete_tag", "timestamp",
      "current_index", "last_index", "bundle", "trunk", "branch", "tag",
      "attachment_timestamp", "attachment_timestamp_upper",
      "attachment_timestamp_lower", "nonce", "hash">>

\* The hash is the primary key.
SqliteTransactionStore(d, h, t) ==
    IF h \in DOMAIN d.tx THEN Error(d) ELSE Ok(TransactionInsert(d, h, SqliteBindings, t))

SqliteLoadHashes(d, o) ==
    CASE o.op = "by_address" -> HashesByAddress(d, o.key)
      [] o.op = "approvers" -> HashesOfApprovers(d, o.key, o.before)
      [] o.op = "candidates" -> MilestoneCandidates(d)

\* storage_transaction_update_solidity, _snapshot_index and _validity
SqliteTransactionUpdate(d, h, col, v) == Ok(UpdateColumn(d, h, col, v))

SqliteTransactionExist(d, key) ==
    {IF key = "any" THEN DOMAIN d.tx # {} ELSE key \in DOMAIN d.tx}

SqliteApproversCount(d, h) == {Cardinality(HashesOfApprovers(d, h, 0))}

\* The bindings of storage_transaction_find, in the order of its loops: the
\* i-th approvee is bound twice, as many places apart as there are approvees.
SqliteFindBindings(q) ==
    <<q.bundles = <<>>>> \o q.bundles \o <<q.addresses = <<>>>> \o q.addresses
    \o <<q.tags = <<>>>> \o q.tags \o <<q.approvees = <<>>>> \o q.approvees \o q.approvees

SqliteTransactionFind(d, q) == Find(d, FindParameters(q), SqliteFindBindings(q))

SqliteTransactionDelete(d, h) == Ok(TransactionDelete(d, h))

SqliteMetadataClear(d) == Ok(MetadataClear(d))

SqliteMilestoneClear(d) == Ok([d EXCEPT !.milestone = <<>>])

\* The index and the hash are unique.
SqliteMilestoneStore(d, i, h) ==
    IF i \in DOMAIN d.milestone \/ h \in MilestoneHashes(d)
    THEN Error(d) ELSE Ok(MilestoneInsert(d, i, h))

SqliteMilestoneLoad(d, o) ==
    CASE o.op = "milestone" -> MilestoneByHash(d, o.key)
      [] o.op = "milestone_last" -> MilestoneLast(d)
      [] o.op = "milestone_first" -> MilestoneFirst(d)
      [] o.op = "milestone_by_index" -> {o.index} \cap DOMAIN d.milestone
      [] o.op = "milestone_next" -> MilestoneNext(d, o.index)

SqliteMilestoneExist(d, key) ==
    {IF key = "any" THEN DOMAIN d.milestone # {} ELSE key \in MilestoneHashes(d)}

SqliteMilestoneDelete(d, h) == Ok(MilestoneDelete(d, h))

SqliteStateDeltaStore(d, i, x) == Ok(StateDeltaStore(d, i, x))

\* No row, and a row without a delta, load the empty delta.
SqliteStateDeltaLoad(d, i) ==
    {IF i \in DOMAIN d.milestone THEN d.milestone[i].delta ELSE NoDelta}

\* PRIMARY KEY ON CONFLICT IGNORE
SqliteSpentAddressStore(d, a) == Ok(SpentAddressInsert(d, a))

SqliteSpentAddressExist(d, a) == {a \in d.spent}

-----------------------------------------------------------------------------
SqliteWrite(d, o, k, t) ==
    CASE o.op = "store" -> SqliteTransactionStore(d, k, t)
      [] o.op = "update" -> SqliteTransactionUpdate(d, k, o.col, o.value)
      [] o.op = "delete" -> SqliteTransactionDelete(d, k)
      [] o.op = "metadata_clear" -> SqliteMetadataClear(d)
      [] o.op = "milestone_store" -> SqliteMilestoneStore(d, o.index, k)
      [] o.op = "milestone_delete" -> SqliteMilestoneDelete(d, k)
      [] o.op = "milestone_clear" -> SqliteMilestoneClear(d)
      [] o.op = "state_delta_store" -> SqliteStateDeltaStore(d, o.index, o.value)
      [] o.op = "spent" -> SqliteSpentAddressStore(d, k)

SqliteQuery(d, o) ==
    CASE o.op = "load" -> SqliteTransactionLoad(d, o.key, o.model)
      [] o.op \in {"by_address", "approvers", "candidates"} -> SqliteLoadHashes(d, o)
      [] o.op = "find" -> SqliteTransactionFind(d, o)
      [] o.op = "exist" -> SqliteTransactionExist(d, o.key)
      [] o.op = "count" -> SqliteTransactionCount(d)
      [] o.op = "approvers_count" -> SqliteApproversCount(d, o.key)
      [] o.op = "milestone_exist" -> SqliteMilestoneExist(d, o.key)
      [] o.op = "state_delta" -> SqliteStateDeltaLoad(d, o.index)
      [] o.op = "spent_exist" -> SqliteSpentAddressExist(d, o.key)
      [] OTHER -> SqliteMilestoneLoad(d, o)
=============================================================================
