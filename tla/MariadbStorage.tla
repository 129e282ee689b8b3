---------------------------- MODULE MariadbStorage --------------------------
(***************************************************************************)
(* mariadb/storage.c, function by function: what a write does to a         *)
(* database and whether it fails, and which rows a query reads.            *)
(***************************************************************************)
EXTENDS Statements, SequencesExt, FiniteSetsExt

\* The buffers in the order in which they are bound to the result.
MariadbBindEssence ==
    <<"address", "value", "obsolete_tag", "timestamp", "current_index", "last_index", "bundle">>
MariadbBindAttachment ==
    <<"trunk", "branch", "attachment_timestamp", "attachment_timestamp_lower",
      "attachment_timestamp_upper", "nonce", "tag">>
MariadbBindConsensus == <<"hash">>
MariadbBindData == <<"signature_or_message">>
MariadbBindMetadata == <<"snapshot_index", "solid", "validity", "arrival">>

\* storage_transaction_load_generic: the buffers of the model asked for.
MariadbBind(model) ==
    CASE model = "all" -> MariadbBindEssence \o MariadbBindAttachment \o MariadbBindConsensus
                          \o MariadbBindData
      [] model = "essence_metadata" -> MariadbBindEssence \o MariadbBindMetadata
      [] model = "essence_attachment_metadata" ->
            MariadbBindEssence \o MariadbBindAttachment \o MariadbBindMetadata
      [] model = "essence_consensus" -> MariadbBindEssence \o MariadbBindConsensus
      [] model = "metadata" -> MariadbBindMetadata

\* storage_hashes_load_generic.  The result is stored on the client first: the
\* models are filled only when all of its rows fit.
MariadbLoadGeneric(p, rows) ==
    LET fits == Len(rows) <= p.capacity
    IN  [p EXCEPT !.models = IF fits THEN rows ELSE <<>>,
                  !.insufficient_capacity = ~fits]

MariadbBindings ==
    <<"signature_or_message", "address", "value", "obsolete_tag", "timestamp",
      "current_index", "last_index", "bundle", "trunk", "branch", "tag",
      "attachment_timestamp", "attachment_timestamp_upper",
      "attachment_timestamp_lower", "nonce", "hash">>

MariadbTransactionStore(d, h, t) ==
    IF h \in DOMAIN d.tx THEN Error(d) ELSE Ok(TransactionInsert(d, h, MariadbBindings, t))

\* storage_transaction_load and the loads of its parts
MariadbTransactionLoad(d, h, model) ==
    LET fields == MariadbBind(model)
        Loaded(row) == {<<fields[i], Cell(row, SelectColumns(model)[i])>> : i \in 1..Len(fields)}
    IN  {Loaded(d.tx[k]) : k \in {h} \cap DOMAIN d.tx}

MariadbTransactionExist(d, key) ==
    {IF key = "any" THEN DOMAIN d.tx # {} ELSE key \in DOMAIN d.tx}

\* storage_transaction_update_snapshot_index, _solidity and _validity
MariadbTransactionUpdate(d, h, col, v) == Ok(UpdateColumn(d, h, col, v))

MariadbLoadHashes(d, o) ==
    CASE o.op = "by_address" -> HashesByAddress(d, o.key)
      [] o.op = "approvers" -> HashesOfApprovers(d, o.key, o.before)
      [] o.op = "candidates" -> MilestoneCandidates(d)

\* execute_statement_count, for the transactions and for approvers
MariadbCount(d, o) ==
    {Cardinality(IF o.op = "count" THEN DOMAIN d.tx ELSE HashesOfApprovers(d, o.key, 0))}

MariadbFindBindings(q) ==
    <<q.bundles = <<>>>> \o q.bundles \o <<q.addresses = <<>>>> \o q.addresses
    \o <<q.tags = <<>>>> \o q.tags \o <<q.approvees = <<>>>> \o q.approvees \o q.approvees

MariadbTransactionFind(d, q) == Find(d, FindParameters(q), MariadbFindBindings(q))

MariadbTransactionDelete(d, h) == Ok(TransactionDelete(d, h))

MariadbMetadataClear(d) == Ok(MetadataClear(d))

MariadbMilestoneClear(d) == Ok([d EXCEPT !.milestone = <<>>])

MariadbMilestoneStore(d, i, h) ==
    IF i \in DOMAIN d.milestone \/ h \in MilestoneHashes(d)
    THEN Error(d) ELSE Ok(MilestoneInsert(d, i, h))

MariadbMilestoneLoad(d, o) ==
    CASE o.op = "milestone" -> MilestoneByHash(d, o.key)
      [] o.op = "milestone_last" -> MilestoneLast(d)
      [] o.op = "milestone_first" -> MilestoneFirst(d)
      [] o.op = "milestone_by_index" -> {o.index} \cap DOMAIN d.milestone
      [] o.op = "milestone_next" -> MilestoneNext(d, o.index)

MariadbMilestoneExist(d, key) ==
    {IF key = "any" THEN DOMAIN d.milestone # {} ELSE key \in MilestoneHashes(d)}

MariadbMilestoneDelete(d, h) == Ok(MilestoneDelete(d, h))

MariadbStateDeltaStore(d, i, x) == Ok(StateDeltaStore(d, i, x))

\* No row loads the empty delta, and so does a row of which it is NULL.
MariadbStateDeltaLoad(d, i) ==
    {IF i \in DOMAIN d.milestone THEN d.milestone[i].delta ELSE NoDelta}

\* An address that is in the table is a duplicate key.
MariadbSpentAddressStore(d, a) ==
    IF a \in d.spent THEN Error(d) ELSE Ok(SpentAddressInsert(d, a))

MariadbSpentAddressExist(d, a) == {a \in d.spent}

-----------------------------------------------------------------------------
MariadbWrite(d, o, k, t) ==
    CASE o.op = "store" -> MariadbTransactionStore(d, k, t)
      [] o.op = "update" -> MariadbTransactionUpdate(d, k, o.col, o.value)
      [] o.op = "delete" -> MariadbTransactionDelete(d, k)
      [] o.op = "metadata_clear" -> MariadbMetadataClear(d)
      [] o.op = "milestone_store" -> MariadbMilestoneStore(d, o.index, k)
      [] o.op = "milestone_delete" -> MariadbMilestoneDelete(d, k)
      [] o.op = "milestone_clear" -> MariadbMilestoneClear(d)
      [] o.op = "state_delta_store" -> MariadbStateDeltaStore(d, o.index, o.value)
      [] o.op = "spent" -> MariadbSpentAddressStore(d, k)

MariadbQuery(d, o) ==
    CASE o.op = "load" -> MariadbTransactionLoad(d, o.key, o.model)
      [] o.op \in {"by_address", "approvers", "candidates"} -> MariadbLoadHashes(d, o)
      [] o.op = "find" -> MariadbTransactionFind(d, o)
      [] o.op = "exist" -> MariadbTransactionExist(d, o.key)
      [] o.op \in {"count", "approvers_count"} -> MariadbCount(d, o)
      [] o.op = "milestone_exist" -> MariadbMilestoneExist(d, o.key)
      [] o.op = "state_delta" -> MariadbStateDeltaLoad(d, o.index)
      [] o.op = "spent_exist" -> MariadbSpentAddressExist(d, o.key)
      [] OTHER -> MariadbMilestoneLoad(d, o)
=============================================================================
