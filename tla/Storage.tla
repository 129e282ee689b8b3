------------------------------- MODULE Storage ------------------------------
(***************************************************************************)
(* What ciri/storage/storage.h promises its callers, whatever the backend: *)
(* every operation, a bulk one included, takes effect at one moment        *)
(* between its call and its return and then completely, or it returns an   *)
(* error and has no effect; a query that returns RC_OK without             *)
(* insufficient_capacity loaded the rows of one such moment, every field   *)
(* with the value it was stored with.  What was answered survives a crash. *)
(***************************************************************************)
EXTENDS Statements

CONSTANTS
    Connection,   \* one per thread that uses the storage
    Writes,       \* the calls that change the database
    Queries,      \* the calls that load rows
    Databases     \* what the node may find at its start

VARIABLES
    db,       \* the database
    now,      \* current_timestamp_ms
    call,     \* call[c]: what c asked for, or Idle
    answer    \* answer[c]: what c was last told

Idle == [op |-> "none"]

\* A write of a set of keys, all keys at once.
ApplyAll(d, o, t) ==
    CASE o.op = "store" -> TransactionInsert(d, o.key, InsertColumns, t)
      [] o.op = "update" ->
            [d EXCEPT !.tx = [h \in DOMAIN @ |->
                IF h \in o.keys THEN [@[h] EXCEPT ![o.col] = o.value] ELSE @[h]]]
      [] o.op = "delete" -> [d EXCEPT !.tx = Without(@, o.keys)]
      [] o.op = "metadata_clear" -> MetadataClear(d)
      [] o.op = "milestone_store" -> MilestoneInsert(d, o.index, o.key)
      [] o.op = "milestone_delete" -> MilestoneDelete(d, o.key)
      [] o.op = "milestone_clear" -> [d EXCEPT !.milestone = <<>>]
      [] o.op = "state_delta_store" -> StateDeltaStore(d, o.index, o.value)
      [] o.op = "spent" -> [d EXCEPT !.spent = @ \cup o.keys]

Elements(q) == {q[i] : i \in 1..Len(q)}

\* A condition without hashes holds of every transaction.
Found(d, q) ==
    {h \in DOMAIN d.tx :
        /\ q.bundles = <<>> \/ BundleOf[h] \in Elements(q.bundles)
        /\ q.addresses = <<>> \/ AddressOf[h] \in Elements(q.addresses)
        /\ q.tags = <<>> \/ TagOf[h] \in Elements(q.tags)
        /\ q.approvees = <<>> \/ {BranchOf[h], TrunkOf[h]} \cap Elements(q.approvees) # {}}

\* Every field of the model asked for, with what was stored in it.
Fields(d, o) ==
    {{<<f, IF f \in Elements(Metadata) THEN <<f, d.tx[h][f]>> ELSE f>> :
        f \in Elements(SelectColumns(o.model))} : h \in {o.key} \cap DOMAIN d.tx}

\* The rows a query asks for.
Rows(d, o) ==
    CASE o.op = "load" -> Fields(d, o)
      [] o.op = "by_address" -> HashesByAddress(d, o.key)
      [] o.op = "approvers" -> HashesOfApprovers(d, o.key, o.before)
      [] o.op = "candidates" -> MilestoneCandidates(d)
      [] o.op = "find" -> Found(d, o)
      [] o.op = "exist" -> {IF o.key = "any" THEN d.tx # <<>> ELSE o.key \in DOMAIN d.tx}
      [] o.op = "count" -> {Cardinality(DOMAIN d.tx)}
      [] o.op = "approvers_count" -> {Cardinality(HashesOfApprovers(d, o.key, 0))}
      [] o.op = "milestone" -> MilestoneByHash(d, o.key)
      [] o.op = "milestone_by_index" -> {o.index} \cap DOMAIN d.milestone
      [] o.op = "milestone_first" -> MilestoneFirst(d)
      [] o.op = "milestone_last" -> MilestoneLast(d)
      [] o.op = "milestone_next" -> MilestoneNext(d, o.index)
      [] o.op = "milestone_exist" ->
            {IF o.key = "any" THEN d.milestone # <<>> ELSE o.key \in MilestoneHashes(d)}
      [] o.op = "state_delta" ->
            {IF o.index \in DOMAIN d.milestone THEN d.milestone[o.index].delta ELSE NoDelta}
      [] o.op = "spent_exist" -> {o.key \in d.spent}

\* milestone_next loads one of its rows, every other query loads all of them.
Loads(d, o, S) ==
    IF o.op = "milestone_next"
    THEN S \subseteq Rows(d, o) /\ Cardinality(S) = (IF Rows(d, o) = {} THEN 0 ELSE 1)
    ELSE S = Rows(d, o)

Init ==
    /\ db \in Databases
    /\ now = 1
    /\ call = [c \in Connection |-> Idle]
    /\ answer = [c \in Connection |-> Idle]

Call(c) ==
    /\ call[c] = Idle
    /\ \E o \in Writes \cup Queries : call' = [call EXCEPT ![c] = o]
    /\ UNCHANGED <<db, now, answer>>

Answer(c, ret, loaded) ==
    /\ call[c] # Idle
    /\ answer' = [answer EXCEPT ![c] = [op |-> ret, loaded |-> <<call[c].op, loaded>>]]
    /\ call' = [call EXCEPT ![c] = Idle]

Write(c) ==
    /\ call[c] \in Writes
    /\ db' = ApplyAll(db, call[c], now)
    /\ now' = IF call[c].op = "store" THEN now + 1 ELSE now
    /\ Answer(c, "ok", {})

Query(c) ==
    /\ call[c] \in Queries
    /\ \E S \in SUBSET Rows(db, call[c]) :
        /\ Loads(db, call[c], S)
        /\ Answer(c, "ok", S)
    /\ UNCHANGED <<db, now>>

\* An error, an answer marked incomplete, or rows cut short by a read error
\* (sqlite3 answers RC_OK then): nothing happened.
Refuse(c) ==
    /\ \/ Answer(c, "error", {})
       \/ /\ call[c] \in Queries
          /\ \E S \in SUBSET Rows(db, call[c]) :
                \E ret \in {"incomplete", "ok_cut_short"} :
                    Answer(c, ret, S)
    /\ UNCHANGED <<db, now>>

\* The process dies: the calls it was in are neither done nor answered.
Crash ==
    /\ call' = [c \in Connection |-> Idle]
    /\ answer' = [c \in Connection |-> Idle]
    /\ UNCHANGED <<db, now>>

Next == Crash \/ \E c \in Connection : Call(c) \/ Write(c) \/ Query(c) \/ Refuse(c)

Spec == Init /\ [][Next]_<<db, now, call, answer>>
=============================================================================
