----------------------------- MODULE SqlStorage -----------------------------
(***************************************************************************)
(* The two implementations of ciri/storage/storage.h under the calls of    *)
(* consensus/tangle/tangle.c and spent_addresses_provider.c.  Every thread *)
(* of the node has a connection of its own.  A bulk write is a database    *)
(* transaction, one statement per key; the queries for hashes are repeated *)
(* with a larger pack while the rows do not fit.                           *)
(*                                                                         *)
(* The database engines are external.  A statement of an open transaction  *)
(* is visible to the other connections when it commits.  Writers wait for  *)
(* each other, sqlite3 in WAL mode on the whole database, mariadb on the   *)
(* rows, a missing one included (gap locks), and give up with an error     *)
(* after a while (sqlite3_busy_timeout, the lock wait timeout).  An engine *)
(* that fails to commit or to roll back has dropped the transaction.       *)
(***************************************************************************)
EXTENDS SqliteStorage, MariadbStorage

CONSTANTS
    Connection, Writes, Queries, Databases,
    Capacity,     \* the initial capacity of a pack of hashes
    MaxCalls, MaxFaults

VARIABLES
    backend,  \* which of the two implementations the node is built with
    db, now, call, answer,
    pc,       \* where the connection is: closed, idle or in a call
    statements,   \* the statements it has prepared
    todo,     \* the keys its bulk write has not executed yet
    done,     \* the keys executed in its open transaction
    pack,     \* the pack its query fills
    calls, faults

sqlVars == <<backend, db, now, call, answer, pc, statements, todo, done, pack, calls, faults>>

Idle == [op |-> "none"]

NoPack == [capacity |-> 0, models |-> <<>>, insufficient_capacity |-> FALSE]

\* hash_pack_init
PackInit(n) == [NoPack EXCEPT !.capacity = n]

\* A faulty variant of PackResize: the factor is 1.
PackResizeByOne(p) == [p EXCEPT !.capacity = 1 * @, !.insufficient_capacity = FALSE]

\* hash_pack_resize: the models are freed, num_loaded is left alone.
PackResize(p) == [p EXCEPT !.capacity = 2 * @, !.insufficient_capacity = FALSE]

-----------------------------------------------------------------------------
(***************************************************************************)
(* sqlite3/connection.c and mariadb/connection.c.  A connection is to the  *)
(* tangle or to the spent addresses; the model lets one do both.           *)
(***************************************************************************)
SqliteTangleStatements ==
    {"transaction_insert", "transaction_select_by_hash", "transaction_select_hashes_by_address",
     "transaction_select_hashes_of_approvers", "transaction_select_hashes_of_approvers_before_date",
     "transaction_select_hashes_of_milestone_candidates", "transaction_update_snapshot_index",
     "transaction_update_solidity", "transaction_update_validity", "transaction_exist",
     "transaction_exist_by_hash", "transaction_approvers_count", "transaction_count",
     "transaction_delete", "transaction_select_essence_metadata",
     "transaction_select_essence_attachment_metadata", "transaction_select_essence_consensus",
     "transaction_select_metadata", "transaction_metadata_clear", "milestone_clear",
     "milestone_insert", "milestone_select_by_hash", "milestone_select_last",
     "milestone_select_first", "milestone_select_by_index", "milestone_select_next",
     "milestone_exist", "milestone_exist_by_hash", "milestone_delete_by_hash",
     "state_delta_store", "state_delta_load"}

SqliteSpentAddressesStatements == {"spent_address_insert", "spent_address_exist"}

\* Both backends prepare the same statements.
MariadbTangleStatements == SqliteTangleStatements

MariadbSpentAddressesStatements == SqliteSpentAddressesStatements

Prepared ==
    IF backend = "sqlite3" THEN SqliteTangleStatements \cup SqliteSpentAddressesStatements
                           ELSE MariadbTangleStatements \cup MariadbSpentAddressesStatements

\* finalize_tangle_statements and finalize_spent_addresses_statements
SqliteFinalized == SqliteTangleStatements \cup SqliteSpentAddressesStatements

MariadbFinalized == MariadbTangleStatements \cup MariadbSpentAddressesStatements

\* The prepared statement a call uses; find builds and prepares its own.
StatementOf(o) ==
    CASE o.op = "store" -> "transaction_insert"
      [] o.op = "update" /\ o.col = "solid" -> "transaction_update_solidity"
      [] o.op = "update" /\ o.col # "solid" -> "transaction_update_" \o o.col
      [] o.op = "delete" -> "transaction_delete"
      [] o.op = "metadata_clear" -> "transaction_metadata_clear"
      [] o.op = "milestone_store" -> "milestone_insert"
      [] o.op = "milestone_delete" -> "milestone_delete_by_hash"
      [] o.op = "spent" -> "spent_address_insert"
      [] o.op = "spent_exist" -> "spent_address_exist"
      [] o.op = "load" -> IF o.model = "all" THEN "transaction_select_by_hash"
                          ELSE "transaction_select_" \o o.model
      [] o.op = "by_address" -> "transaction_select_hashes_by_address"
      [] o.op = "approvers" -> IF o.before = 0 THEN "transaction_select_hashes_of_approvers"
                               ELSE "transaction_select_hashes_of_approvers_before_date"
      [] o.op = "candidates" -> "transaction_select_hashes_of_milestone_candidates"
      [] o.op = "exist" -> IF o.key = "any" THEN "transaction_exist" ELSE "transaction_exist_by_hash"
      [] o.op \in {"count", "approvers_count"} -> "transaction_" \o o.op
      [] o.op = "milestone_exist" ->
            IF o.key = "any" THEN "milestone_exist" ELSE "milestone_exist_by_hash"
      [] o.op = "milestone" -> "milestone_select_by_hash"
      [] o.op \in {"milestone_last", "milestone_first", "milestone_by_index", "milestone_next"} ->
            "milestone_select_" \o SubSeq(o.op, 11, Len(o.op))
      [] o.op = "state_delta" -> "state_delta_load"
      [] OTHER -> o.op

-----------------------------------------------------------------------------
\* sqlite3: one transaction may write a database at a time, and the spent
\* addresses are a database of their own.
SqliteBlocked(c, k) ==
    \E o \in Connection \ {c} :
        done[o] # {} /\ (call[o].op = "spent" <=> call[c].op = "spent")

MariadbBlocked(c, k) ==
    \E o \in Connection \ {c} :
        \/ k \in done[o]
        \/ call[c].op \in {"metadata_clear", "milestone_clear"} /\ done[o] # {}

Blocked(c, k) ==
    IF backend = "sqlite3" THEN SqliteBlocked(c, k) ELSE MariadbBlocked(c, k)

\* One statement of a write.
Statement(d, o, k) ==
    IF backend = "sqlite3" THEN SqliteWrite(d, o, k, now) ELSE MariadbWrite(d, o, k, now)

Loaded(p, rows) ==
    IF backend = "sqlite3" THEN ExecuteStatementLoadGen(p, rows) ELSE MariadbLoadGeneric(p, rows)

\* The results a select may have: which row LIMIT 1 keeps is up to the engine.
Select(o) ==
    LET rows == IF backend = "sqlite3" THEN SqliteQuery(db, o) ELSE MariadbQuery(db, o)
    IN  IF o.op = "milestone_next" /\ rows # {} THEN {<<i>> : i \in rows} ELSE {SetToSeq(rows)}

IsBulk(o) == o.op \in {"update", "delete", "spent"} /\ o.bulk

IsLoop(o) == o.op \in {"by_address", "approvers", "candidates"}

\* The queries that answer with a value and not with a pack.
IsScalar(o) == o.op \in {"exist", "count", "approvers_count", "milestone_exist", "state_delta",
                         "spent_exist"}

SqlInit ==
    /\ backend \in {"sqlite3", "mariadb"}
    /\ db \in Databases
    /\ now = 1
    /\ call = [c \in Connection |-> Idle]
    /\ answer = [c \in Connection |-> Idle]
    /\ pc = [c \in Connection |-> "closed"]
    /\ statements = [c \in Connection |-> {}]
    /\ todo = [c \in Connection |-> {}]
    /\ done = [c \in Connection |-> {}]
    /\ pack = [c \in Connection |-> NoPack]
    /\ calls = 0
    /\ faults = 0

Fault == faults < MaxFaults /\ faults' = faults + 1

\* storage_connection_init: the errors of the statements are collected, so one
\* that cannot be prepared fails the connection.
Open(c) ==
    /\ pc[c] = "closed"
    /\ \/ /\ pc' = [pc EXCEPT ![c] = "idle"]
          /\ statements' = [statements EXCEPT ![c] = Prepared]
          /\ UNCHANGED faults
       \/ /\ Fault
          /\ pc' = [pc EXCEPT ![c] = "destroyed"]
          /\ UNCHANGED statements
    /\ UNCHANGED <<backend, db, now, call, answer, todo, done, pack, calls>>

\* storage_connection_destroy, once its thread has ended.
Close(c) ==
    /\ pc[c] = "idle"
    /\ calls = MaxCalls
    /\ pc' = [pc EXCEPT ![c] = "destroyed"]
    /\ statements' = [statements EXCEPT ![c] =
            @ \ (IF backend = "sqlite3" THEN SqliteFinalized ELSE MariadbFinalized)]
    /\ UNCHANGED <<backend, db, now, call, answer, todo, done, pack, calls, faults>>

-----------------------------------------------------------------------------
Call(c) ==
    /\ pc[c] = "idle"
    /\ calls < MaxCalls
    /\ \E o \in Writes \cup Queries :
        /\ call' = [call EXCEPT ![c] = o]
        /\ pc' = [pc EXCEPT ![c] = CASE o \in Queries -> "query"
                                     [] IsBulk(o) -> "begin"
                                     [] OTHER -> "single"]
        /\ todo' = [todo EXCEPT ![c] = IF o \in Queries THEN {} ELSE o.keys]
        /\ pack' = [pack EXCEPT ![c] =
              IF o \in Writes THEN NoPack
              ELSE PackInit(IF IsLoop(o) \/ o.op = "find" THEN Capacity ELSE 1)]
    /\ calls' = calls + 1
    /\ UNCHANGED <<backend, db, now, answer, statements, done, faults>>

Return(c, ret, loaded) ==
    /\ answer' = [answer EXCEPT ![c] = [op |-> ret, loaded |-> <<call[c].op, loaded>>]]
    /\ call' = [call EXCEPT ![c] = Idle]
    /\ pc' = [pc EXCEPT ![c] = "idle"]
    /\ todo' = [todo EXCEPT ![c] = {}]
    /\ done' = [done EXCEPT ![c] = {}]
    /\ pack' = [pack EXCEPT ![c] = NoPack]
    /\ UNCHANGED <<backend, statements, calls>>

\* begin_transaction, start_transaction: the beginning of update_transactions.
Begin(c) ==
    /\ pc[c] = "begin"
    /\ \/ /\ pc' = [pc EXCEPT ![c] = "step"]
          /\ UNCHANGED <<backend, db, now, call, answer, statements, todo, done, pack, calls, faults>>
       \/ Fault /\ Return(c, "error", {}) /\ UNCHANGED <<db, now>>

\* bind_execute_hash_do_func, and the bodies of the loops of mariadb: one
\* statement of the open transaction.
Step(c) ==
    /\ pc[c] = "step"
    /\ \E k \in todo[c] :
        /\ Statement(db, call[c], k).ok
        /\ ~Blocked(c, k)
        /\ todo' = [todo EXCEPT ![c] = @ \ {k}]
        /\ done' = [done EXCEPT ![c] = @ \cup {k}]
    /\ UNCHANGED <<backend, db, now, call, answer, pc, statements, pack, calls, faults>>

\* The statement is refused, waited in vain for a lock, or failed.
StepFails(c) ==
    /\ pc[c] = "step"
    /\ \E k \in todo[c] :
        \/ (~Statement(db, call[c], k).ok \/ Blocked(c, k)) /\ UNCHANGED faults
        \/ Fault
    /\ pc' = [pc EXCEPT ![c] = "rollback"]
    /\ UNCHANGED <<backend, db, now, call, answer, statements, todo, done, pack, calls>>

\* The end of update_transactions, storage_transactions_delete and the other
\* bulk writes: END or COMMIT when every statement was executed.
End(c) ==
    /\ pc[c] = "step"
    /\ todo[c] = {}
    /\ \/ /\ db' = FoldSet(LAMBDA k, d : Statement(d, call[c], k).db, db, done[c])
          /\ Return(c, "ok", {})
          /\ UNCHANGED <<now, faults>>
       \/ Fault /\ Return(c, "error", {}) /\ UNCHANGED <<db, now>>

\* rollback_transaction: its error replaces the statement's.
Rollback(c) ==
    /\ pc[c] = "rollback"
    /\ Return(c, "error", {})
    /\ UNCHANGED <<db, now, faults>>

\* A write of one key is a statement that commits by itself.
Single(c) ==
    /\ pc[c] = "single"
    /\ \E k \in todo[c] :
       LET s == Statement(db, call[c], k)
       IN  \/ /\ s.ok /\ ~Blocked(c, k)
              /\ db' = s.db
              /\ now' = IF call[c].op = "store" THEN now + 1 ELSE now
              /\ Return(c, "ok", {})
              /\ UNCHANGED faults
           \/ /\ ~s.ok \/ Blocked(c, k)
              /\ Return(c, "error", {})
              /\ UNCHANGED <<db, now, faults>>
           \/ /\ Fault
              /\ Return(c, "error", {})
              /\ UNCHANGED <<db, now>>

\* A select.  Only the queries of tangle.c for hashes look at
\* insufficient_capacity, and go on with a larger pack.
Load(c) ==
    /\ pc[c] = "query"
    /\ \E rows \in Select(call[c]) :
       LET p == Loaded(pack[c], rows)
       IN  IF p.insufficient_capacity /\ IsLoop(call[c])
           THEN /\ pack' = [pack EXCEPT ![c] = p]
                /\ pc' = [pc EXCEPT ![c] = "resize"]
                /\ UNCHANGED <<backend, call, answer, statements, todo, done, calls>>
           ELSE Return(c, IF p.insufficient_capacity THEN "incomplete" ELSE "ok",
                       ToSet(p.models))
    /\ UNCHANGED <<db, now, faults>>

\* A faulty variant of Resize: the number of rows loaded is not reset.
ResizeKeepsLoaded(c) ==
    /\ pc[c] = "resize"
    /\ pack' = [pack EXCEPT ![c] = PackResize(@)]
    /\ pc' = [pc EXCEPT ![c] = "query"]
    /\ UNCHANGED <<backend, db, now, call, answer, statements, todo, done, calls, faults>>

\* The rest of the loop of iota_tangle_transaction_load_hashes_of_approvers
\* and its two likes.
Resize(c) ==
    /\ pc[c] = "resize"
    /\ \/ /\ pack' = [pack EXCEPT ![c] = [PackResize(@) EXCEPT !.models = <<>>]]
          /\ pc' = [pc EXCEPT ![c] = "query"]
          /\ UNCHANGED <<backend, db, now, call, answer, statements, todo, done, calls, faults>>
       \/ Fault /\ Return(c, "error", {}) /\ UNCHANGED <<db, now>>

\* A select fails: mariadb says so, sqlite3 only where one row is required;
\* the caller of the others is told RC_OK, and answer marks it.
LoadFails(c) ==
    /\ pc[c] = "query"
    /\ Fault
    /\ IF backend = "mariadb" \/ IsScalar(call[c])
       THEN Return(c, "error", {})
       ELSE \E rows \in Select(call[c]) : \E p \in LoadGenBroken(pack[c], rows) :
                Return(c, "ok_cut_short", ToSet(p.models))
    /\ UNCHANGED <<db, now>>

\* The process dies and the node is started again.
Crash ==
    /\ Fault
    /\ call' = [c \in Connection |-> Idle]
    /\ answer' = [c \in Connection |-> Idle]
    /\ pc' = [c \in Connection |-> "closed"]
    /\ statements' = [c \in Connection |-> {}]
    /\ todo' = [c \in Connection |-> {}]
    /\ done' = [c \in Connection |-> {}]
    /\ pack' = [c \in Connection |-> NoPack]
    /\ UNCHANGED <<backend, db, now, calls>>

Run(c) ==
    \/ Begin(c) \/ Step(c) \/ StepFails(c) \/ End(c) \/ Rollback(c)
    \/ Single(c) \/ Load(c) \/ Resize(c) \/ LoadFails(c)

SqlNext == Crash \/ \E c \in Connection : Open(c) \/ Close(c) \/ Call(c) \/ Run(c)

\* A thread that is in a call goes on.
SqlFairness == \A c \in Connection : WF_sqlVars(Run(c))
=============================================================================
