----------------------- MODULE TransactionSolidifier -----------------------
(***************************************************************************)
(* How stored transactions become solid: a transaction is solid when its   *)
(* whole past, down to the solid entry points, is stored.  The flag is     *)
(* computed in three ways that run concurrently:                           *)
(*                                                                         *)
(*   - the threads that store a transaction (the validator stage and the   *)
(*     API) look at its trunk and branch in update_status;                 *)
(*   - the propagation thread looks again at the approvers of each         *)
(*     transaction that has become solid;                                  *)
(*   - check_solidity, called for milestones, walks the past cone and      *)
(*     requests what is missing.                                           *)
(*                                                                         *)
(* The module includes the tips cache and the transaction requester, which *)
(* these threads update on their way.  A step is one database call or one  *)
(* critical section.                                                       *)
(***************************************************************************)
EXTENDS Tangle, Integers, Sequences, Functions

CONSTANTS
    Trunk, Branch,  \* the two transactions a transaction approves
    EntryPoints,    \* solid entry points, and the genesis: never looked up
    Writers,        \* the threads that store transactions
    Milestones,     \* what check_solidity is called for
    Limit,          \* max_analyzed of check_solidity
    TipsCapacity,   \* conf.tips_cache_size
    QueueSize,      \* conf.requester_queue_size
    Propagation,    \* the propagation thread
    NoTx,           \* no transaction
    MaxCrashes, MaxFaults

Hash == Tx \cup EntryPoints

ASSUME SolidifierAssumption ==
    /\ IsFiniteSet(EntryPoints) /\ EntryPoints \cap Tx = {}
    /\ Trunk \in [Tx -> Hash] /\ Branch \in [Tx -> Hash]
    /\ \A t \in Tx : Parents[t] = {Trunk[t], Branch[t]} \cap Tx
    /\ Milestones \subseteq Tx
    /\ Propagation \notin Writers
    /\ NoTx \notin Hash
    /\ Limit \in Nat /\ TipsCapacity \in Nat \ {0} /\ QueueSize \in Nat \ {0}
    /\ MaxCrashes \in Nat /\ MaxFaults \in Nat

VARIABLES
    stored, solid,      \* the database: transactions, and their solid flag
    newly,              \* newly_set_solid_transactions
    tips, solidTips,    \* the tips cache
    hashes, requested,  \* the requester: to be requested, requested
    pc, tx,             \* where each thread is, and the hash it works on
    batch,              \* transactions_to_propagate
    todo, approvers,    \* what is left of the batch, and of one member's approvers
    cpc,                \* where check_solidity is
    stack, analyzed,    \* its traversal
    found, good,        \* solid_transactions_candidates, is_solid
    budget, missing,    \* max_analyzed, the hash being requested
    crashes, faults

database  == <<stored, solid>>
cache     == <<tips, solidTips>>
requester == <<hashes, requested>>
propagate == <<batch, todo, approvers>>
walk      == <<cpc, stack, analyzed, found, good, budget, missing>>
vars == <<database, newly, cache, requester, pc, tx, propagate, walk,
          crashes, faults>>

Threads == Writers \cup {Propagation}

Fault == faults < MaxFaults /\ faults' = faults + 1

Goto(th, label) == pc' = [pc EXCEPT ![th] = label]

\* check_and_update_solid_state returns RC_OK.
Return(th) ==
    /\ Goto(th, IF th = Propagation THEN "next" ELSE "idle")
    /\ tx' = [tx EXCEPT ![th] = NoTx]

\* It returns an error: update_status returns it, and
\* propagate_solid_transactions drops the rest of its batch.
Fail(th) ==
    /\ Fault
    /\ Goto(th, "idle")
    /\ tx' = [tx EXCEPT ![th] = NoTx]
    /\ IF th = Propagation
       THEN batch' = {} /\ todo' = {} /\ approvers' = {}
       ELSE UNCHANGED propagate
-----------------------------------------------------------------------------
(* hash243_set: a uthash table.  It iterates in insertion order and its    *)
(* head is the oldest entry, which is what its users evict first, so a     *)
(* set that is used as a queue is a sequence without repetitions.          *)

\* hash243_set_contains
SetContains(s, h) == h \in Range(s)

\* hash243_set_add
SetAdd(s, h) == IF SetContains(s, h) THEN s ELSE Append(s, h)

\* hash243_set_remove
SetRemove(s, h) ==
    IF SetContains(s, h)
    THEN LET k == CHOOSE i \in 1..Len(s) : s[i] = h
         IN  [i \in 1..(Len(s) - 1) |-> IF i < k THEN s[i] ELSE s[i + 1]]
    ELSE s

\* hash243_set_remove_entry of the head, a no-op on the empty set
SetRemoveHead(s) == IF s = <<>> THEN s ELSE Tail(s)

\* tips_cache_fifo_add, and the queue of request_transaction.  The oldest
\* entry of a full set goes even when h is already in it.
FifoAdd(s, capacity, h) ==
    SetAdd(IF Len(s) >= capacity THEN SetRemoveHead(s) ELSE s, h)
-----------------------------------------------------------------------------
Init ==
    /\ stored = {} /\ solid = {}
    /\ newly = {}
    /\ tips = <<>> /\ solidTips = <<>>
    /\ hashes = <<>> /\ requested = {}
    /\ pc = [th \in Threads |-> "idle"]
    /\ tx = [th \in Threads |-> NoTx]
    /\ batch = {} /\ todo = {} /\ approvers = {}
    /\ cpc = "idle" /\ stack = <<>> /\ analyzed = {} /\ found = {}
    /\ good = TRUE /\ budget = 0 /\ missing = NoTx
    /\ crashes = 0 /\ faults = 0

(* A thread that stores a transaction: validate_transaction_bytes of the   *)
(* validator stage, iota_api_store_transactions of the API.                *)

\* iota_tangle_transaction_exist says no.
Receive(w, t) ==
    /\ pc[w] = "idle"
    /\ t \notin stored
    /\ Goto(w, "store")
    /\ tx' = [tx EXCEPT ![w] = t]
    /\ UNCHANGED <<database, newly, cache, requester, propagate, walk, crashes,
                   faults>>

\* iota_tangle_transaction_store; the hash is a key of the table.
Store(w) ==
    /\ pc[w] = "store"
    /\ \/ /\ tx[w] \notin stored
          /\ stored' = stored \cup {tx[w]}
          /\ Goto(w, "clear")
          /\ UNCHANGED <<tx, propagate, faults>>
       \/ tx[w] \in stored /\ Return(w) /\ UNCHANGED <<stored, propagate, faults>>
       \/ Fail(w) /\ UNCHANGED stored
    /\ UNCHANGED <<solid, newly, cache, requester, walk, crashes>>

\* requester_clear_request, two critical sections.
ClearHashes(w) ==
    /\ pc[w] = "clear"
    /\ hashes' = SetRemove(hashes, tx[w])
    /\ Goto(w, "cleared")
    /\ UNCHANGED <<database, newly, cache, requested, tx, propagate, walk,
                   crashes, faults>>

ClearRequested(w) ==
    /\ pc[w] = "cleared"
    /\ requested' = requested \ {tx[w]}
    /\ Goto(w, "count")
    /\ UNCHANGED <<database, newly, cache, hashes, tx, propagate, walk, crashes,
                   faults>>

ApproversOf(h) == {t \in stored : h \in {Trunk[t], Branch[t]}}

\* iota_tangle_transaction_approvers_count
CountApprovers(w) ==
    /\ pc[w] = "count"
    /\ \/ /\ Goto(w, IF ApproversOf(tx[w]) = {} THEN "add" ELSE "trunk")
          /\ UNCHANGED <<tx, propagate, faults>>
       \/ Fail(w)
    /\ UNCHANGED <<database, newly, cache, requester, walk, crashes>>

AddTip(w) ==
    /\ pc[w] = "add"
    /\ tips' = FifoAdd(tips, TipsCapacity, tx[w])
    /\ Goto(w, "trunk")
    /\ UNCHANGED <<database, newly, solidTips, requester, tx, propagate, walk,
                   crashes, faults>>

\* A faulty variant of RemoveTip: takes only the trunk out of the cache.
RemoveTrunkTip(w) ==
    /\ \/ pc[w] = "trunk" /\ tips' = SetRemove(tips, Trunk[tx[w]])
       \/ pc[w] = "branch" /\ UNCHANGED tips
    /\ Goto(w, IF pc[w] = "trunk" THEN "trunkSolid" ELSE "branchSolid")
    /\ UNCHANGED <<database, newly, solidTips, requester, tx, propagate, walk,
                   crashes, faults>>

\* tips_cache_remove of trunk, then branch: first from the tips ...
RemoveTip(w) ==
    /\ \/ pc[w] = "trunk" /\ tips' = SetRemove(tips, Trunk[tx[w]])
       \/ pc[w] = "branch" /\ tips' = SetRemove(tips, Branch[tx[w]])
    /\ Goto(w, IF pc[w] = "trunk" THEN "trunkSolid" ELSE "branchSolid")
    /\ UNCHANGED <<database, newly, solidTips, requester, tx, propagate, walk,
                   crashes, faults>>

\* ... then from the solid tips.
RemoveSolidTip(w) ==
    /\ \/ pc[w] = "trunkSolid" /\ solidTips' = SetRemove(solidTips, Trunk[tx[w]])
       \/ pc[w] = "branchSolid" /\ solidTips' = SetRemove(solidTips, Branch[tx[w]])
    /\ Goto(w, IF pc[w] = "trunkSolid" THEN "branch" ELSE "check")
    /\ UNCHANGED <<database, newly, tips, requester, tx, propagate, walk,
                   crashes, faults>>
-----------------------------------------------------------------------------
(* check_and_update_solid_state, of a writer or of the propagation thread. *)

\* check_approvee_solid_state
ApproveeSolid(h) == h \in EntryPoints \/ h \in solid

\* A faulty variant of CheckTrunk: does not look at the branch at all.
CheckTrunkOnly(th) ==
    /\ pc[th] = "check"
    /\ \/ /\ IF tx[th] \in stored \ solid /\ ApproveeSolid(Trunk[tx[th]])
             THEN Goto(th, "update") /\ UNCHANGED tx
             ELSE Return(th)
          /\ UNCHANGED <<propagate, faults>>
       \/ Fail(th)
    /\ UNCHANGED <<database, newly, cache, requester, walk, crashes>>

\* Loads the transaction and its trunk.  When either settles the outcome the
\* branch is looked at to no effect.
CheckTrunk(th) ==
    /\ pc[th] = "check"
    /\ \/ /\ IF tx[th] \in stored \ solid /\ ApproveeSolid(Trunk[tx[th]])
             THEN Goto(th, "checkBranch") /\ UNCHANGED tx
             ELSE Return(th)
          /\ UNCHANGED <<propagate, faults>>
       \/ Fail(th)
    /\ UNCHANGED <<database, newly, cache, requester, walk, crashes>>

CheckBranch(th) ==
    /\ pc[th] = "checkBranch"
    /\ \/ /\ IF ApproveeSolid(Branch[tx[th]])
             THEN Goto(th, "update") /\ UNCHANGED tx
             ELSE Return(th)
          /\ UNCHANGED <<propagate, faults>>
       \/ Fail(th)
    /\ UNCHANGED <<database, newly, cache, requester, walk, crashes>>

\* iota_tangle_transaction_update_solidity
UpdateSolidity(th) ==
    /\ pc[th] = "update"
    /\ \/ /\ solid' = solid \cup {tx[th]}
          /\ Goto(th, "new")
          /\ UNCHANGED <<tx, propagate, faults>>
       \/ Fail(th) /\ UNCHANGED solid
    /\ UNCHANGED <<stored, newly, cache, requester, walk, crashes>>

\* A faulty variant of AddNewSolid: only the storing threads propagate.
AddNewOnce(th) ==
    /\ pc[th] = "new"
    /\ newly' = IF th = Propagation THEN newly ELSE newly \cup {tx[th]}
    /\ Goto(th, "setSolid")
    /\ UNCHANGED <<database, cache, requester, tx, propagate, walk, crashes,
                   faults>>

\* add_new_solid_transaction
AddNewSolid(th) ==
    /\ pc[th] = "new"
    /\ newly' = newly \cup {tx[th]}
    /\ Goto(th, "setSolid")
    /\ UNCHANGED <<database, cache, requester, tx, propagate, walk, crashes,
                   faults>>

\* tips_cache_set_solid, two critical sections.
SetSolid(th) ==
    /\ pc[th] = "setSolid"
    /\ IF SetContains(tips, tx[th])
       THEN tips' = SetRemove(tips, tx[th]) /\ Goto(th, "addSolid") /\ UNCHANGED tx
       ELSE Return(th) /\ UNCHANGED tips
    /\ UNCHANGED <<database, newly, solidTips, requester, propagate, walk,
                   crashes, faults>>

AddSolidTip(th) ==
    /\ pc[th] = "addSolid"
    /\ solidTips' = FifoAdd(solidTips, TipsCapacity, tx[th])
    /\ Return(th)
    /\ UNCHANGED <<database, newly, tips, requester, propagate, walk, crashes,
                   faults>>
-----------------------------------------------------------------------------
(* The propagation thread.                                                 *)

TakeBatch ==
    /\ pc[Propagation] = "idle"
    /\ newly # {}
    /\ batch' = newly
    /\ todo' = newly
    /\ newly' = {}
    /\ Goto(Propagation, "next")
    /\ UNCHANGED <<database, cache, requester, tx, approvers, walk, crashes,
                   faults>>

\* iota_tangle_transaction_load_hashes_of_approvers of the next in the batch;
\* approvers in the batch are skipped.
LoadApprovers(h) ==
    /\ pc[Propagation] = "next"
    /\ approvers = {}
    /\ h \in todo
    /\ \/ /\ todo' = todo \ {h}
          /\ approvers' = ApproversOf(h) \ batch
          /\ UNCHANGED <<pc, tx, batch, faults>>
       \/ Fail(Propagation)
    /\ UNCHANGED <<database, newly, cache, requester, walk, crashes>>

NextApprover(t) ==
    /\ pc[Propagation] = "next"
    /\ t \in approvers
    /\ approvers' = approvers \ {t}
    /\ tx' = [tx EXCEPT ![Propagation] = t]
    /\ Goto(Propagation, "check")
    /\ UNCHANGED <<database, newly, cache, requester, batch, todo, walk, crashes,
                   faults>>

BatchDone ==
    /\ pc[Propagation] = "next"
    /\ approvers = {} /\ todo = {}
    /\ batch' = {}
    /\ Goto(Propagation, "idle")
    /\ UNCHANGED <<database, newly, cache, requester, tx, todo, approvers, walk,
                   crashes, faults>>
-----------------------------------------------------------------------------
(* check_solidity, called by the milestone tracker's threads.              *)

\* The entry points are taken for analyzed.
BeginCheck(m) ==
    /\ cpc = "idle"
    /\ m \in stored \ solid
    /\ cpc' = "walk"
    /\ stack' = <<m>>
    /\ analyzed' = EntryPoints
    /\ found' = {}
    /\ good' = TRUE
    /\ budget' = Limit + Cardinality(EntryPoints)
    /\ missing' = NoTx
    /\ UNCHANGED <<database, newly, cache, requester, pc, tx, propagate, crashes,
                   faults>>

\* A storage error, or max_analyzed reached: check_solidity answers false.
GiveUp ==
    /\ cpc' = "idle" /\ stack' = <<>> /\ analyzed' = {} /\ found' = {}
    /\ good' = TRUE /\ budget' = 0 /\ missing' = NoTx

\* One turn of tangle_traversal_dfs_to_past with check_solidity_do_func.
Visit ==
    /\ cpc = "walk"
    /\ stack # <<>>
    /\ LET h == Head(stack) IN
       \/ h \in analyzed /\ stack' = Tail(stack)
          /\ UNCHANGED <<cpc, analyzed, found, good, budget, missing, faults>>
       \/ h \notin analyzed /\ budget = 0 /\ GiveUp /\ UNCHANGED faults
       \/ h \notin analyzed /\ Fault /\ GiveUp
       \/ /\ h \notin analyzed /\ budget # 0
          /\ budget' = budget - 1
          /\ analyzed' = analyzed \cup {h}
          /\ IF h \in stored \ solid
             THEN /\ found' = found \cup {h}
                  /\ stack' = <<Trunk[h], Branch[h]>> \o Tail(stack)
                  /\ UNCHANGED <<cpc, good, missing>>
             ELSE /\ stack' = Tail(stack)
                  /\ IF h \notin stored
                     THEN good' = FALSE /\ missing' = h /\ cpc' = "request"
                     ELSE UNCHANGED <<good, missing, cpc>>
                  /\ UNCHANGED found
          /\ UNCHANGED faults
    /\ UNCHANGED <<database, newly, cache, requester, pc, tx, propagate, crashes>>

\* A faulty variant of RequestExists: the test is the wrong way round.
RequestIfStored ==
    /\ cpc = "request"
    /\ IF missing \notin stored
       THEN missing' = NoTx /\ cpc' = "walk"
       ELSE cpc' = "enqueue" /\ UNCHANGED missing
    /\ UNCHANGED <<stack, analyzed, found, good, budget, faults>>
    /\ UNCHANGED <<database, newly, cache, requester, pc, tx, propagate, crashes>>

\* request_transaction: iota_tangle_transaction_exist ...
RequestExists ==
    /\ cpc = "request"
    /\ \/ /\ IF missing \in stored
             THEN missing' = NoTx /\ cpc' = "walk"
             ELSE cpc' = "enqueue" /\ UNCHANGED missing
          /\ UNCHANGED <<stack, analyzed, found, good, budget, faults>>
       \/ Fault /\ GiveUp
    /\ UNCHANGED <<database, newly, cache, requester, pc, tx, propagate, crashes>>

\* ... then the queue, under its lock.
Enqueue ==
    /\ cpc = "enqueue"
    /\ hashes' = FifoAdd(hashes, QueueSize, missing)
    /\ missing' = NoTx
    /\ cpc' = "walk"
    /\ UNCHANGED <<database, newly, cache, requested, pc, tx, propagate, stack,
                   analyzed, found, good, budget, crashes, faults>>

\* iota_tangle_transactions_update_solidity, one SQL transaction.  Its error
\* does not keep the candidates from being appended.
EndCheck ==
    /\ cpc = "walk"
    /\ stack = <<>>
    /\ IF good
       THEN /\ \/ solid' = solid \cup found /\ UNCHANGED faults
               \/ Fault /\ UNCHANGED solid
            /\ cpc' = "append"
            /\ UNCHANGED <<stack, analyzed, found, good, budget, missing>>
       ELSE GiveUp /\ UNCHANGED <<solid, faults>>
    /\ UNCHANGED <<stored, newly, cache, requester, pc, tx, propagate, crashes>>

AppendNewly ==
    /\ cpc = "append"
    /\ newly' = newly \cup found
    /\ GiveUp
    /\ UNCHANGED <<database, cache, requester, pc, tx, propagate, crashes, faults>>
-----------------------------------------------------------------------------
\* get_transaction_to_request: the next packet to a neighbor asks for it.
Ask ==
    /\ hashes # <<>>
    /\ requested' = requested \cup {Head(hashes)}
    /\ hashes' = SetRemoveHead(hashes)
    /\ UNCHANGED <<database, newly, cache, pc, tx, propagate, walk, crashes,
                   faults>>

\* The process dies and comes back: caches and queues start empty.
Crash ==
    /\ crashes < MaxCrashes
    /\ crashes' = crashes + 1
    /\ newly' = {}
    /\ tips' = <<>> /\ solidTips' = <<>>
    /\ hashes' = <<>> /\ requested' = {}
    /\ pc' = [th \in Threads |-> "idle"]
    /\ tx' = [th \in Threads |-> NoTx]
    /\ batch' = {} /\ todo' = {} /\ approvers' = {}
    /\ GiveUp
    /\ UNCHANGED <<database, faults>>
-----------------------------------------------------------------------------
WriterStep(w) ==
    \/ Store(w) \/ ClearHashes(w) \/ ClearRequested(w) \/ CountApprovers(w)
    \/ AddTip(w) \/ RemoveTip(w) \/ RemoveSolidTip(w)

CheckStep(th) ==
    \/ CheckTrunk(th) \/ CheckBranch(th) \/ UpdateSolidity(th)
    \/ AddNewSolid(th) \/ SetSolid(th) \/ AddSolidTip(th)

PropagationStep ==
    \/ TakeBatch \/ BatchDone
    \/ \E h \in todo : LoadApprovers(h)
    \/ \E t \in approvers : NextApprover(t)

WalkStep ==
    \/ Visit \/ RequestExists \/ Enqueue \/ EndCheck \/ AppendNewly

Next ==
    \/ \E w \in Writers, t \in Tx : Receive(w, t)
    \/ \E w \in Writers : WriterStep(w)
    \/ \E th \in Threads : CheckStep(th)
    \/ PropagationStep
    \/ \E m \in Milestones : BeginCheck(m)
    \/ WalkStep
    \/ Ask
    \/ Crash

Spec == Init /\ [][Next]_vars

\* The threads run.  The milestone tracker's threads call check_solidity for
\* a milestone again until it is solid, and a neighbor that is asked for a
\* transaction answers it.
Answer(t) == t \in requested /\ \E w \in Writers : Receive(w, t)

FairSpec ==
    /\ Spec
    /\ \A w \in Writers : WF_vars(WriterStep(w)) /\ WF_vars(CheckStep(w))
    /\ WF_vars(CheckStep(Propagation)) /\ WF_vars(PropagationStep)
    /\ \A m \in Milestones : SF_vars(BeginCheck(m))
    /\ WF_vars(WalkStep) /\ WF_vars(Ask)
    /\ \A t \in Tx : SF_vars(Answer(t))
-----------------------------------------------------------------------------

\* What the lists, the sets and the threads hold; a thread that checks or
\* flags a transaction checks one that is stored
\* (iota_consensus_transaction_solidifier_check_and_update_solid_state).
TypeOK ==
    /\ stored \subseteq Tx /\ solid \subseteq stored
    /\ newly \subseteq Tx /\ batch \subseteq Tx /\ todo \subseteq batch
    /\ approvers \subseteq stored
    /\ tips \in Seq(Tx) /\ solidTips \in Seq(Tx)
    /\ hashes \in Seq(Tx) /\ requested \subseteq Tx
    /\ \A th \in Threads : tx[th] \in Tx \cup {NoTx}
    /\ \A th \in Threads : pc[th] \notin {"idle", "store", "next"} => tx[th] \in stored
    /\ stack \in Seq(Hash) /\ analyzed \subseteq Hash /\ found \subseteq stored
    /\ good \in BOOLEAN /\ budget \in Nat /\ missing \in Tx \cup {NoTx}

(***************************************************************************)
(* A transaction is only flagged solid when both its approvees are: the    *)
(* whole past of a solid transaction is stored and solid.  The tracker and *)
(* tip selection walk the past of solid transactions without looking for   *)
(* holes.  Three threads set the flag from what they read earlier, and a   *)
(* crash or an error can stop each of them anywhere.                       *)
(***************************************************************************)
SolidIsComplete ==
    \A t \in solid : {Trunk[t], Branch[t]} \subseteq solid \cup EntryPoints

(***************************************************************************)
(* The two lists of the tips cache never hold the same tip, whatever the   *)
(* threads that add, remove and promote tips do between the two locks, and *)
(* neither outgrows conf.tips_cache_size; what is offered as a solid tip   *)
(* is solid.                                                               *)
(***************************************************************************)
TipsAreSorted ==
    /\ Range(tips) \cap Range(solidTips) = {}
    /\ Len(tips) <= TipsCapacity /\ Len(solidTips) <= TipsCapacity
    /\ Range(solidTips) \subseteq solid

(***************************************************************************)
(* With one storing thread, a transaction in the list of tips has no       *)
(* approver whose update_status is over: neighbors are not sent approved   *)
(* transactions as random tips.                                            *)
(***************************************************************************)
TipsAreUnapproved ==
    \A t \in Range(tips) : \A a \in ApproversOf(t) :
        \E w \in Writers : tx[w] = a /\ pc[w] # "idle"

(***************************************************************************)
(* Solidity spreads: a transaction whose whole past is stored is flagged   *)
(* solid in the end, in whatever order the transactions arrive and however *)
(* the storing threads and the propagation thread interleave.  Neither     *)
(* set ever shrinks: again and again nothing is left to flag.              *)
(***************************************************************************)
SoliditySpreads ==
    []<>(\A t \in Tx : Cone[t] \subseteq stored => t \in solid)

(***************************************************************************)
(* A stored milestone whose past cone fits in max_analyzed becomes solid:  *)
(* what check_solidity misses is requested, answered and stored, although  *)
(* the queue of requests drops its oldest entry when it is full.           *)
(***************************************************************************)
MilestonesAreFetched ==
    []<>(\A m \in Milestones \cap stored :
            \/ m \in solid
            \/ Cardinality(Cone[m]) > Limit + Cardinality(EntryPoints))

(***************************************************************************)
(* What the threads may never break, in whatever order their database      *)
(* calls and critical sections come (transaction_solidifier.c,             *)
(* tips_cache.c).                                                          *)
(***************************************************************************)
SolidifierSafety == TypeOK /\ SolidIsComplete /\ TipsAreSorted
=============================================================================
