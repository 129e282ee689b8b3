------------------------------ MODULE Statements ----------------------------
(***************************************************************************)
(* The SQL statements of ciri/storage/sql/statements.c, which both         *)
(* backends prepare, over the tables of the two schemas.  A database is    *)
(*   tx         the rows of iota_transaction, by hash: the metadata, and   *)
(*              for every other column the field stored in it              *)
(*   milestone  the rows of iota_milestone, by index                       *)
(*   spent      the rows of iota_spent_address                             *)
(* What the fields of a transaction hold never changes and its hash        *)
(* determines it: that is in the constants.  column_compress_bind strips   *)
(* the trailing null bytes of a blob and column_decompress_load puts them  *)
(* back, so a blob is compared and loaded as stored.                       *)
(***************************************************************************)
EXTENDS Integers, FiniteSets, Sequences, TLC

CONSTANTS
    Tx,              \* hashes of the transactions
    AddressOf, BundleOf, TagOf, ValueOf, CurrentIndexOf, LastIndexOf,
    TrunkOf, BranchOf,   \* trunk and branch: in Tx, or another hash
    Coordinator,     \* the address of the coordinator
    NoDelta          \* a milestone row the delta of which was not stored

Without(f, S) == [k \in DOMAIN f \ S |-> f[k]]

\* What executing a statement comes to.
Ok(d) == [ok |-> TRUE, db |-> d]
Error(d) == [ok |-> FALSE, db |-> d]

-----------------------------------------------------------------------------
(***************************************************************************)
(* The columns of the statements, in their order; the parameters and the   *)
(* results of a prepared statement are known by their positions only.      *)
(***************************************************************************)
InsertColumns ==
    <<"signature_or_message", "address", "value", "obsolete_tag", "timestamp",
      "current_index", "last_index", "bundle", "trunk", "branch", "tag",
      "attachment_timestamp", "attachment_timestamp_upper",
      "attachment_timestamp_lower", "nonce", "hash">>

Essence == <<"address", "value", "obsolete_tag", "timestamp", "current_index",
             "last_index", "bundle">>
Attachment == <<"trunk", "branch", "attachment_timestamp",
                "attachment_timestamp_lower", "attachment_timestamp_upper", "nonce", "tag">>
Metadata == <<"snapshot_index", "solid", "validity", "arrival">>

SelectByHash == Essence \o Attachment \o <<"hash", "signature_or_message">>

SelectPartial(model) ==
    CASE model = "essence_metadata" -> Essence \o Metadata
      [] model = "essence_attachment_metadata" -> Essence \o Attachment \o Metadata
      [] model = "essence_consensus" -> Essence \o <<"hash">>
      [] model = "metadata" -> Metadata

SelectColumns(model) == IF model = "all" THEN SelectByHash ELSE SelectPartial(model)

Repeat(x, n) == [i \in 1..n |-> x]

\* storage_statement_transaction_find_build: the parameters of the statement,
\* one per hash, the ones of the approvees twice.
FindParameters(q) ==
    <<"no_bundles">> \o Repeat("bundle", Len(q.bundles))
    \o <<"no_addresses">> \o Repeat("address", Len(q.addresses))
    \o <<"no_tags">> \o Repeat("tag", Len(q.tags))
    \o <<"no_approvees">> \o Repeat("branch", Len(q.approvees))
    \o Repeat("trunk", Len(q.approvees))

-----------------------------------------------------------------------------
\* The row of a transaction stored at time t, with the field bound to every
\* parameter: the metadata has the defaults of the schema.
NewRow(fields, t) ==
    [columns |-> [c \in {InsertColumns[i] : i \in 1..Len(InsertColumns)} |->
                    fields[CHOOSE i \in 1..Len(InsertColumns) : InsertColumns[i] = c]],
     snapshot_index |-> 0, solid |-> FALSE, validity |-> 0, arrival |-> t]

\* UPDATE iota_transaction SET col = v WHERE hash = h: nothing without a row.
UpdateColumn(d, h, col, v) ==
    IF h \in DOMAIN d.tx THEN [d EXCEPT !.tx[h] = [@ EXCEPT ![col] = v]] ELSE d

TransactionInsert(d, h, fields, t) == [d EXCEPT !.tx = (h :> NewRow(fields, t)) @@ @]

TransactionDelete(d, h) == [d EXCEPT !.tx = Without(@, {h})]

MetadataClear(d) ==
    [d EXCEPT !.tx = [h \in DOMAIN @ |->
        [@[h] EXCEPT !.snapshot_index = 0, !.solid = FALSE, !.validity = 0]]]

MilestoneInsert(d, i, h) ==
    [d EXCEPT !.milestone = (i :> [hash |-> h, delta |-> NoDelta]) @@ @]

MilestoneDelete(d, h) ==
    [d EXCEPT !.milestone = Without(@, {i \in DOMAIN @ : @[i].hash = h})]

StateDeltaStore(d, i, x) ==
    IF i \in DOMAIN d.milestone THEN [d EXCEPT !.milestone[i].delta = x] ELSE d

SpentAddressInsert(d, a) == [d EXCEPT !.spent = @ \cup {a}]

-----------------------------------------------------------------------------
\* The value of a column of a row.
Cell(row, col) ==
    IF col \in DOMAIN row.columns THEN row.columns[col] ELSE <<col, row[col]>>

HashesByAddress(d, a) == {h \in DOMAIN d.tx : AddressOf[h] = a}

\* before = 0 selects the statement without the arrival condition.
HashesOfApprovers(d, p, before) ==
    {h \in DOMAIN d.tx : /\ p \in {BranchOf[h], TrunkOf[h]}
                         /\ before # 0 => d.tx[h].arrival < before}

MilestoneHashes(d) == {d.milestone[i].hash : i \in DOMAIN d.milestone}

MilestoneCandidates(d) ==
    {h \in DOMAIN d.tx : /\ AddressOf[h] = Coordinator
                         /\ CurrentIndexOf[h] = 0
                         /\ h \notin MilestoneHashes(d)}

\* The joins of the find statement keep one row per hash.
Find(d, params, binds) ==
    LET Off(p) == \E i \in 1..Len(params) : params[i] = p /\ binds[i]
        In(p, v) == \E i \in 1..Len(params) : params[i] = p /\ binds[i] = v
    IN  {h \in DOMAIN d.tx :
            /\ Off("no_bundles") \/ In("bundle", BundleOf[h])
            /\ Off("no_addresses") \/ In("address", AddressOf[h])
            /\ Off("no_tags") \/ In("tag", TagOf[h])
            /\ Off("no_approvees") \/ In("branch", BranchOf[h]) \/ In("trunk", TrunkOf[h])}

MilestoneLast(d) == {i \in DOMAIN d.milestone : \A j \in DOMAIN d.milestone : j <= i}

MilestoneFirst(d) == {i \in DOMAIN d.milestone : \A j \in DOMAIN d.milestone : i <= j}

\* LIMIT 1 without ORDER BY: any row after the index may be the one returned.
MilestoneNext(d, i) == {j \in DOMAIN d.milestone : j > i}

MilestoneByHash(d, h) == {i \in DOMAIN d.milestone : d.milestone[i].hash = h}
=============================================================================
