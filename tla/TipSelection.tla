--------------------------- MODULE TipSelection ----------------------------
(***************************************************************************)
(* getTransactionsToApprove: the entry point, the cumulative weight of     *)
(* every transaction that approves it, and two weighted random walks from  *)
(* there towards the tips, judged by the walk validator.  Transactions     *)
(* keep arriving between the reads of the database; the request holds the  *)
(* read lock of the latest snapshot, so the ledger stays.                  *)
(*                                                                         *)
(* Every approver has a positive probability, so a random choice is any    *)
(* approver.  A transaction is solid as soon as its past is stored;        *)
(* TransactionSolidifier has the delays.                                   *)
(***************************************************************************)
EXTENDS LedgerValidator, Naturals, Functions

CONSTANTS
    Genesis, NoTx,
    Trunk, Branch,
    CurrentIndex,       \* transaction_current_index
    BundleOf,           \* transaction_bundle
    SnapshotIndex,      \* transaction_snapshot_index, 0 for an unconfirmed one
    MilestoneAt,        \* the milestone with a given index, or NoTx
    LatestSolid,        \* latest_solid_milestone, ...
    LatestSolidIndex,   \* ... and its index
    Ledger,             \* the latest snapshot
    Confirmed,          \* the transactions stored in the first place
    Depths, References, \* the arguments of a request
    MaxDepth, BelowMaxDepthLimit

ASSUME TipSelectionAssumption ==
    /\ Parents = [t \in Tx |-> {Trunk[t], Branch[t]} \ {Genesis}]
    /\ PastClosed(Confirmed) /\ LatestSolid \in Confirmed
    /\ \A t \in Tx : SnapshotIndex[t] # 0 <=> t \in Confirmed
    /\ References \subseteq Tx \cup {NoTx}
    /\ \A d \in Depths : d <= MaxDepth

VARIABLES
    stored,   \* the transactions in the database
    req       \* the request

tipVars == <<stored, req>>

Solid(t) == Cone[t] \subseteq stored

\* iota_tangle_transaction_load_hashes_of_approvers
Approvers(t) == {a \in stored : t \in {Trunk[a], Branch[a]}}
-----------------------------------------------------------------------------
(* iota_tangle_find_tail climbs from index to index.  After the first hop  *)
(* curr_tx and next_tx are the same record: the bundle is compared with    *)
(* itself, and a transaction that does not fit is kept as the current one. *)

RECURSIVE Climb(_, _, _)
Climb(curr, same, index) ==
    LET approvers == Approvers(curr)
        next == {a \in approvers : /\ CurrentIndex[a] = index - 1
                                   /\ same \/ BundleOf[a] = BundleOf[curr]}
    IN  IF index = 0 THEN {curr}
        ELSE IF next # {} THEN UNION {Climb(a, TRUE, index - 1) : a \in next}
        ELSE IF same /\ approvers # {} THEN approvers
        ELSE {curr}

iota_tangle_find_tail(t) ==
    {IF CurrentIndex[c] = 0 THEN c ELSE NoTx : c \in Climb(t, FALSE, CurrentIndex[t])}
-----------------------------------------------------------------------------
(* The entry point and the ratings.                                        *)

\* uint64_t milestone_index = MAX(latest - depth - 1, 0), and the next one
get_entry_point(depth) ==
    LET index == IF LatestSolidIndex > depth + 1 THEN LatestSolidIndex - depth - 1 ELSE 0
        milestone == MilestoneAt[index + 1]
    IN  IF milestone # NoTx THEN milestone ELSE LatestSolid

\* cw_rating_dfs_do_dfs_light: the number of transactions reached
RECURSIVE DfsLight(_, _, _)
DfsLight(graph, stack, visited) ==
    IF stack = <<>> THEN 0
    ELSE LET curr == Head(stack)
         IN  IF curr \notin DOMAIN graph \/ curr \in visited
             THEN DfsLight(graph, Tail(stack), visited)
             ELSE 1 + DfsLight(graph, SetToSeq(graph[curr]) \o Tail(stack), visited \cup {curr})

\* cw_rating_calculate_dfs after the graph is loaded; the entry point comes
\* first and takes the size of the graph.
cw_rating_calculate_dfs(graph, ep) ==
    [t \in DOMAIN graph |->
        IF t = ep THEN Cardinality(DOMAIN graph) ELSE DfsLight(graph, <<t>>, {})]
-----------------------------------------------------------------------------
(* The other randomizer, exit_prob_map, which works out the probability of *)
(* every tip and draws one.  Its numbers are multiples of 1/Unit here, and *)
(* alpha is 0, so that all approvers of a transaction are equally likely.  *)

Unit == 3600

\* map_transition_probabilities
map_transition_probabilities(approvers) == [t \in approvers |-> Unit \div Cardinality(approvers)]

iota_consensus_is_tx_a_tip(graph, t) == graph[t] = {}

\* The loop of exit_prob_map_calculate_probs: a transaction is in the queue
\* once for every way that leads to it.
RECURSIVE Spread(_, _, _)
Spread(graph, queue, probs) ==
    IF queue = <<>> THEN probs
    ELSE LET curr == Head(queue)
             share == map_transition_probabilities(graph[curr])
             spread == [t \in DOMAIN probs |->
                          IF t \in graph[curr] THEN probs[t] + (probs[curr] * share[t]) \div Unit
                          ELSE IF t = curr /\ ~iota_consensus_is_tx_a_tip(graph, t) THEN 0
                          ELSE probs[t]]
         IN  Spread(graph, Tail(queue) \o SetToSeq(graph[curr]), spread)

exit_prob_map_calculate_probs(graph, ep) ==
    Spread(graph, <<ep>>, [t \in DOMAIN graph |-> IF t = ep THEN Unit ELSE 0])

\* exit_prob_map_randomize: the tips it can draw
exit_prob_map_eps_extract_tips(graph) == {t \in DOMAIN graph : iota_consensus_is_tx_a_tip(graph, t)}

exit_prob_map_sum_probs(probs, S) == SumFunctionOnSet(probs, S)
-----------------------------------------------------------------------------
(* The walk validator: epv has the transactions known not to be below the  *)
(* maximal depth, and the delta of what it accepted so far.                *)

lowest_allowed_index ==
    IF LatestSolidIndex < MaxDepth THEN LatestSolidIndex ELSE LatestSolidIndex - MaxDepth

\* What the loop of below_max_depth analyses.  The pop at its end takes the
\* branch pushed just before, so only trunks are followed.
RECURSIVE Analysed(_, _)
Analysed(t, memoized) ==
    IF t = Genesis THEN <<>>
    ELSE IF SnapshotIndex[t] # 0 \/ t \in memoized THEN <<t>>
    ELSE <<t>> \o Analysed(Trunk[t], memoized)

\* The limit is tested before every pop, after a walk of several too.
below_max_depth(epv, tail) ==
    LET analysed == Analysed(tail, epv.memoized)
    IN  \/ \E i \in DOMAIN analysed :
              /\ SnapshotIndex[analysed[i]] # 0
              /\ SnapshotIndex[analysed[i]] < lowest_allowed_index
        \/ Len(analysed) > 1 /\ Len(analysed) >= BelowMaxDepthLimit

\* iota_consensus_exit_prob_transaction_validator_is_valid
is_valid(epv, tail) ==
    LET walk == UpdateDelta(epv.walk, tail, SnapshotIndex, Ledger, LatestSolidIndex)
        refused == \/ tail \notin stored \/ CurrentIndex[tail] # 0 \/ ~Solid(tail)
                   \/ below_max_depth(epv, tail)
    IN  IF refused THEN [epv EXCEPT !.valid = FALSE]
        ELSE [memoized |-> epv.memoized \cup {tail}, walk |-> walk, valid |-> walk.consistent]
-----------------------------------------------------------------------------
NoRequest ==
    [ pc |-> "idle", ep |-> NoTx, reference |-> NoTx, pending |-> {}, graph |-> <<>>,
      ratings |-> <<>>, epv |-> [memoized |-> {}, walk |-> EmptyWalk, valid |-> FALSE],
      from |-> NoTx, moved |-> FALSE, approver |-> NoTx, accepted |-> {},
      trunk |-> NoTx, branch |-> NoTx, failed |-> "RC_OK", ret |-> "RC_OK" ]

TipInit == stored = Confirmed /\ req = NoRequest

\* A transaction arrives and is stored.
Store(t) ==
    /\ req.pc # "done" /\ t \notin stored
    /\ stored' = stored \cup {t} /\ UNCHANGED req

\* The first walk starts from the entry point.
Begin ==
    /\ req.pc = "idle"
    /\ \E depth \in Depths, reference \in References : \E ep \in {get_entry_point(depth)} :
          req' = [req EXCEPT !.pc = "load", !.ep = ep, !.reference = reference, !.pending = {ep}]
    /\ UNCHANGED stored

\* One round of cw_rating_dfs_do_dfs_from_db.  The stack fixes the order in
\* which the pending transactions are taken; any order is allowed here.
Load ==
    /\ req.pc = "load"
    /\ \E t \in req.pending :
          req' = [req EXCEPT
                    !.pending = (@ \cup Approvers(t)) \ (DOMAIN req.graph \cup {t}),
                    !.graph = [u \in DOMAIN @ \cup {t} |-> IF u = t THEN Approvers(t) ELSE @[u]]]
    /\ UNCHANGED stored

Rate ==
    /\ req.pc = "load" /\ req.pending = {}
    /\ req' = [req EXCEPT !.pc = "trunk", !.from = NoTx,
                          !.ratings = cw_rating_calculate_dfs(req.graph, req.ep)]
    /\ UNCHANGED stored

\* iota_consensus_tip_selector_get_transactions_to_approve at its label done:
\* what failed is logged, and the result is that of destroying the validator.
Done(r, failed) == [r EXCEPT !.pc = "done", !.failed = failed, !.ret = "RC_OK"]

\* A faulty variant of Start: the second walk too starts from the entry point.
StartAnew == req.ep

Walking == req.pc \in {"trunk", "branch"}

\* Where a walk starts; only the second one heeds the reference.
WalkStart == IF req.pc = "branch" /\ req.reference # NoTx THEN req.reference ELSE req.ep

\* random_walker_randomize: the start of the walk must be valid.
StartWalk ==
    /\ Walking /\ req.from = NoTx
    /\ \E epv \in {is_valid(req.epv, WalkStart)} :
          req' = IF req.pc = "branch" /\ WalkStart \notin DOMAIN req.ratings
                 THEN Done(req, "RC_TIP_SELECTOR_REFERENCE_TOO_OLD")
                 ELSE IF ~epv.valid THEN Done([req EXCEPT !.epv = epv], "RC_INVALID_ENTRYPOINT")
                 ELSE [req EXCEPT !.epv = epv, !.from = WalkStart, !.moved = FALSE,
                                  !.accepted = @ \cup {WalkStart}]
    /\ UNCHANGED stored

Left == IF req.from \in DOMAIN req.graph THEN req.graph[req.from] ELSE {}

\* random_walker_select_approver_tail: what it selected is in the buffer of
\* the caller, which is the current transaction after the first move.  A
\* refused tail is taken from the approvers, also when it is not one of them.
Walk ==
    /\ Walking /\ req.from # NoTx /\ Left # {}
    /\ \E approver \in Left : \E tail \in iota_tangle_find_tail(approver) :
          \E epv \in {is_valid(req.epv, tail)} :
             req' = IF ~(Left \subseteq DOMAIN req.ratings)
                    THEN Done(req, "RC_MISSING_RATING")
                    ELSE IF tail = NoTx
                    THEN [req EXCEPT !.approver = approver, !.graph[req.from] = @ \ {approver}]
                    ELSE IF ~epv.valid
                    THEN [req EXCEPT !.approver = tail, !.graph[req.from] = @ \ {tail},
                                     !.epv = epv]
                    ELSE [req EXCEPT !.approver = tail, !.epv = epv, !.from = tail,
                                     !.moved = TRUE, !.accepted = @ \cup {tail}]
    /\ UNCHANGED stored

\* The tip is what curr_tail_hash points to, and then the pair is checked.
EndWalk ==
    /\ Walking /\ req.from # NoTx /\ Left = {}
    /\ LET tip == IF req.moved THEN req.approver ELSE req.from
           consistent == CheckConsistency(<<tip, req.trunk>>, SnapshotIndex, Ledger, LatestSolidIndex)
       IN  req' = IF req.pc = "trunk"
                  THEN [req EXCEPT !.pc = "branch", !.trunk = tip, !.from = NoTx]
                  ELSE Done([req EXCEPT !.branch = tip],
                            IF consistent THEN "RC_OK" ELSE "RC_TIPS_NOT_CONSISTENT")
    /\ UNCHANGED stored

Step == Load \/ Rate \/ StartWalk \/ Walk \/ EndWalk
TipNext == Begin \/ Step \/ \E t \in Tx : Store(t)

-----------------------------------------------------------------------------
(* Properties.                                                             *)

\* The transactions of the graph that approve t, found without a stack.
RECURSIVE FutureOf(_, _)
FutureOf(graph, S) ==
    LET more == S \cup UNION {graph[t] : t \in S}
    IN  IF more = S THEN S ELSE FutureOf(graph, more)

\* While transactions arrive during the search, every transaction in reach of
\* the entry point gets a rating, which is the number of transactions that
\* approve it in the graph that was loaded: no walk misses a rating, and
\* weights fall along the way.
RatingsAreExact ==
    Walking /\ req.from = NoTx /\ req.pc = "trunk" =>
        \A t \in DOMAIN req.graph :
            /\ req.graph[t] \subseteq DOMAIN req.ratings
            /\ req.ratings[t] = Cardinality(FutureOf(req.graph, {t}))

\* The probabilities exit_prob_map gives to the tips add up to one, however
\* many ways lead to a transaction, so a draw always ends at a tip.
ExitProbabilitiesAddUp ==
    Walking /\ req.from = NoTx /\ req.pc = "trunk" =>
        exit_prob_map_sum_probs(exit_prob_map_calculate_probs(req.graph, req.ep),
                                exit_prob_map_eps_extract_tips(req.graph)) = Unit

\* The tips approve where their walks started: the entry point, and for the
\* second one the reference if there is one.
TipsApproveTheStart ==
    req.pc = "done" /\ req.branch # NoTx =>
        /\ req.ep \in Cone[req.trunk]
        /\ (IF req.reference = NoTx THEN req.ep ELSE req.reference) \in Cone[req.branch]

\* Tips the validator accepted in the two walks are consistent as a pair,
\* with each other and with the ledger: the final check cannot refuse them.
AcceptedTipsAreConsistent ==
    req.failed = "RC_TIPS_NOT_CONSISTENT" => ~({req.trunk, req.branch} \subseteq req.accepted)
=============================================================================
