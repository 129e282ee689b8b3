-------------------------------- MODULE Api ---------------------------------
(* ciri/api: the commands of the node's API and the HTTP server in front of  *)
(* them.  The node is a record of what the commands read and write: the      *)
(* transactions it stores, the spent addresses and confirmations it keeps,    *)
(* the balances of its latest snapshot, the packets given to its processor.  *)
EXTENDS Bundle, Json

CONSTANTS MaxFindTransactions, MaxGetTrytes, MaxDepth, RemoteLimitApi,
    Uris                \* the uris neighbor_init_with_uri accepts

Reply(rc, res, n) == [rc |-> rc, res |-> res, node |-> n]
Stored(n, h) == \E tx \in n.tx : HashOf(tx) = h
WithHash(n, h) == CHOOSE tx \in n.tx : HashOf(tx) = h

\* iota_consensus_transaction_validate, of what does not depend on the clock.
TransactionValidate(tx) == ~Outside(tx.value) /\ (tx.value # 0 => tx.address \notin BadAddress)

\* iota_tangle_bundle_load: along the trunks, at most last_index + 1 transactions.
BundleLoad(n, tail) ==
    LET Next(b, i) == IF b = <<>> THEN IF Stored(n, tail) THEN <<WithHash(n, tail)>> ELSE <<>>
                      ELSE IF Stored(n, b[Len(b)].trunk) /\ Len(b) <= b[1].last_index
                           THEN Append(b, WithHash(n, b[Len(b)].trunk)) ELSE b
    IN  FoldLeft(Next, <<>>, [i \in 1 .. 8 |-> i])

\* iota_consensus_bundle_validator_validate.
BundleStatus(n, tail) ==
    LET b == BundleLoad(n, tail) IN IF b = <<>> THEN "BUNDLE_EMPTY" ELSE BundleValidate(b)

\* A faulty variant of ApiAttachToTangle: what is attached is stored as well.
ApiAttachToTangleStoring(n, r) ==
    LET p == PowBundle(r.trytes, r.trunk, r.branch, n.attached + 1)
    IN  Reply(RC_OK, [trytes |-> p.val], [n EXCEPT !.attached = @ + 1, !.tx = @ \cup ToSet(p.val)])

ApiAttachToTangle(n, r) ==
    LET p == PowBundle(r.trytes, r.trunk, r.branch, n.attached + 1)
    IN  Reply(RC_OK, [trytes |-> IF p.rc = RC_OK THEN p.val ELSE <<>>],
              [n EXCEPT !.attached = @ + 1])

ApiBroadcastTransactions(n, r) == Reply(RC_OK, <<>>, [n EXCEPT !.stage = @ \cup ToSet(r.trytes)])

\* The tests of one tail, in their order; "ok" goes on to the next.
TailStatus(n, h) ==
    CASE ~Stored(n, h) -> "RC_API_TAIL_MISSING"
      [] WithHash(n, h).current_index # 0 -> "RC_API_NOT_TAIL"
      [] h \notin n.solid -> "not solid"
      [] BundleStatus(n, h) # "BUNDLE_VALID" -> "invalid"
      [] OTHER -> "ok"

\* The status of the first tail that fails a test.
TailsStatus(n, tails) ==
    FoldLeft(LAMBDA s, h : IF s = "ok" THEN TailStatus(n, h) ELSE s, "ok", tails)

\* info stays NULL when every tail is consistent.
Consistency(n, r, status) ==
    CASE status \in {"RC_API_TAIL_MISSING", "RC_API_NOT_TAIL"} -> Reply(status, <<>>, n)
      [] status \in {"not solid", "invalid"} -> Reply(RC_OK, [state |-> FALSE, info |-> <<status>>], n)
      [] OTHER ->
            IF ToSet(r.tails) \cap n.conflicting # {}
            THEN Reply(RC_OK, [state |-> FALSE, info |-> <<"not consistent">>], n)
            ELSE Reply(RC_OK, [state |-> TRUE, info |-> <<>>], n)

ApiCheckConsistency(n, r) ==
    IF ~n.synced THEN Reply("RC_API_UNSYNCED_NODE", <<>>, n)
    ELSE Consistency(n, r, TailsStatus(n, r.tails))

ApiFindTransactions(n, r) ==
    LET Matches(q, F(_)) == {tx \in n.tx : q = <<>> \/ F(tx) \in ToSet(q)}
        found == Matches(r.bundles, LAMBDA tx : tx.bundle)
                 \cap Matches(r.addresses, LAMBDA tx : tx.address)
                 \cap Matches(r.tags, LAMBDA tx : tx.tag)
                 \cap {tx \in n.tx : r.approvees = <<>> \/ {tx.trunk, tx.branch} \cap ToSet(r.approvees) # {}}
    IN  IF r.bundles \o r.addresses \o r.tags \o r.approvees = <<>>
        THEN Reply("RC_API_FIND_TRANSACTIONS_NO_INPUT", <<>>, n)
        ELSE IF Len(SetToSeq(found)) > MaxFindTransactions
        THEN Reply("RC_API_MAX_FIND_TRANSACTIONS", <<>>, n)
        ELSE Reply(RC_OK, [hashes |-> SetToSeq({HashOf(tx) : tx \in found})], n)

\* The balances of the latest snapshot: the latest solid milestone, the tip
\* when none is given, adds nothing to them.
ApiGetBalances(n, r) ==
    IF r.threshold <= 0 \/ r.threshold > 100
    THEN Reply("RC_API_GET_BALANCES_INVALID_THRESHOLD", <<>>, n)
    ELSE IF \E i \in DOMAIN r.tips : ~Stored(n, r.tips[i])
    THEN Reply("RC_API_GET_BALANCES_UNKNOWN_TIP", <<>>, n)
    ELSE Reply(RC_OK, [balances |-> [i \in 1 .. Len(r.addresses) |->
                                        IF r.addresses[i] \in DOMAIN n.balances
                                        THEN n.balances[r.addresses[i]] ELSE 0],
                       references |-> IF r.tips = <<>> THEN <<n.milestone>> ELSE r.tips,
                       milestone_index |-> n.index], n)

ApiGetInclusionStates(n, r) ==
    IF ~n.synced THEN Reply("RC_API_UNSYNCED_NODE", <<>>, n)
    ELSE Reply(RC_OK, [states |-> [i \in 1 .. Len(r.transactions) |->
                          /\ Stored(n, r.transactions[i])
                          /\ r.transactions[i] \in n.confirmed]], n)

ApiGetNodeInfo(n) ==
    Reply(RC_OK,
          [app_name |-> "cIRI", app_version |-> "v", latest_milestone |-> n.milestone,
           latest_milestone_index |-> n.index, latest_solid_subtangle_milestone |-> n.milestone,
           latest_solid_subtangle_milestone_index |-> n.index, milestone_start_index |-> 0,
           neighbors |-> Cardinality(n.neighbors), packets_queue_size |-> 0, time |-> 0, tips |-> 2,
           transactions_to_request |-> 0, features |-> <<>>,
           coordinator_address |-> <<"coordinator">>], n)

\* The tips are the selector's; the branch is reached from the reference.
ApiGetTransactionsToApprove(n, r) ==
    CASE r.depth > MaxDepth -> Reply("RC_API_INVALID_DEPTH_INPUT", <<>>, n)
      [] r.depth <= MaxDepth /\ ~n.synced -> Reply("RC_API_UNSYNCED_NODE", <<>>, n)
      [] OTHER -> Reply(RC_OK, [trunk |-> n.tips[1],
                                branch |-> IF r.reference = <<>> THEN n.tips[2] ELSE r.reference[1]], n)

\* An unknown transaction is answered with nines.
ApiGetTrytes(n, r) ==
    IF Len(r.hashes) > MaxGetTrytes THEN Reply("RC_API_MAX_GET_TRYTES", <<>>, n)
    ELSE Reply(RC_OK, [trytes |-> [i \in 1 .. Len(r.hashes) |->
                          IF Stored(n, r.hashes[i]) THEN WithHash(n, r.hashes[i])
                          ELSE TransactionReset]], n)

\* Invalid and known transactions are passed over.
ApiStoreTransactions(n, r) ==
    Reply(RC_OK, <<>>, [n EXCEPT !.tx = @ \cup {tx \in ToSet(r.trytes) : TransactionValidate(tx)}])

ApiWereAddressesSpentFrom(n, r) ==
    LET Spent(a) == a \in n.spent \/ \E tx \in n.tx : tx.address = a /\ tx.value < 0
    IN  Reply(RC_OK, [states |-> [i \in 1 .. Len(r.addresses) |-> Spent(r.addresses[i])]], n)

\* The uris are taken one after the other, until one cannot be parsed.
Parsed(uris) ==
    {uris[i] : i \in {k \in DOMAIN uris : \A l \in 1 .. k : uris[l] \in Uris}}

\* A neighbor that is there already, or is not, only does not count.
UriSteps(n, uris, last) ==
    [rc |-> IF ToSet(uris) \subseteq Uris THEN RC_OK ELSE "RC_NEIGHBOR_FAILED_URI_PARSING",
     changed |-> Cardinality(SymDiff(n.neighbors, last)), node |-> [n EXCEPT !.neighbors = last]]

ApiAddNeighbors(n, r) ==
    LET s == UriSteps(n, r.uris, n.neighbors \cup Parsed(r.uris))
    IN  Reply(s.rc, [added_neighbors |-> s.changed], s.node)

ApiRemoveNeighbors(n, r) ==
    LET s == UriSteps(n, r.uris, n.neighbors \ Parsed(r.uris))
    IN  Reply(s.rc, [removed_neighbors |-> s.changed], s.node)

ApiGetNeighbors(n) ==
    LET Info(uri) == [address |-> uri, counters |-> [i \in 1 .. 6 |-> 0], connection_type |-> "TCP"]
        all == SetToSeq(n.neighbors)
    IN  Reply(RC_OK, [neighbors |-> [i \in 1 .. Len(all) |-> Info(all[i])]], n)

ApiGetTips(n) == Reply(RC_OK, [hashes |-> n.tips], n)
ApiGetMissingTransactions(n) == Reply(RC_OK, [hashes |-> SetToSeq(n.requested)], n)

-----------------------------------------------------------------------------
(* ciri/api/http/http.c                                                      *)
Answer(text, n) == [text |-> text, node |-> n]
ErrorSerializeResponse(message, n) == Answer(JsonErrorSerializeResponse(message).val, n)

\* Any other node (IRI) also writes the lists that are empty, and an empty info.
Lists == {"hashes", "trytes", "states", "references", "balances"}
Iri(o) == o @@ [k \in Lists |-> <<"array", <<>>>>] @@ String("info", "")

\* What is sent: an object that cannot be written ends this node's process.
Written(n, s) ==
    CASE n.iri /\ s.rc # RC_OK -> Answer(<<Iri(Bool("state", TRUE))>>, n)
      [] ~n.iri /\ s.rc = "NULL_DEREFERENCE" -> Answer(NoText, [n EXCEPT !.up = FALSE])
      [] OTHER -> Answer(IF n.iri /\ s.val # NoText THEN <<Iri(s.val[1])>> ELSE s.val, n)

\* s is what the response of the handler is serialized to.
Handled(a, s) ==
    IF a.rc # RC_OK THEN ErrorSerializeResponse("Internal server error", a.node)
    ELSE Written(a.node, s)

\* The common shape of the process_*_request functions: a request that cannot
\* be read is answered with an empty body, and is not handled.
Process(n, req, a, s) == IF req.rc # RC_OK THEN Answer(NoText, n) ELSE Handled(a, s)

ProcessAttachToTangleRequest(n, t) ==
    LET req == JsonAttachToTangleDeserializeRequest(t)
        a == ApiAttachToTangle(n, req.val)
    IN  Process(n, req, a, JsonAttachToTangleSerializeResponse(a.res))
ProcessBroadcastTransactionsRequest(n, t) ==
    LET req == JsonBroadcastTransactionsDeserializeRequest(t)
    IN  Process(n, req, ApiBroadcastTransactions(n, req.val), Good(NoText))
ProcessCheckConsistencyRequest(n, t) ==
    LET req == JsonCheckConsistencyDeserializeRequest(t)
        a == ApiCheckConsistency(n, req.val)
    IN  Process(n, req, a, JsonCheckConsistencySerializeResponse(a.res))
ProcessFindTransactionsRequest(n, t) ==
    LET req == JsonFindTransactionsDeserializeRequest(t)
        a == ApiFindTransactions(n, req.val)
    IN  Process(n, req, a, JsonFindTransactionsSerializeResponse(a.res))
ProcessGetBalancesRequest(n, t) ==
    LET req == JsonGetBalancesDeserializeRequest(t)
        a == ApiGetBalances(n, req.val)
    IN  Process(n, req, a, JsonGetBalancesSerializeResponse(a.res))
ProcessGetInclusionStatesRequest(n, t) ==
    LET req == JsonGetInclusionStatesDeserializeRequest(t)
        a == ApiGetInclusionStates(n, req.val)
    IN  Process(n, req, a, JsonGetInclusionStatesSerializeResponse(a.res))
ProcessGetNodeInfoRequest(n, t) ==
    LET a == ApiGetNodeInfo(n)
    IN  Handled(a, JsonGetNodeInfoSerializeResponse(a.res))
ProcessGetTransactionsToApproveRequest(n, t) ==
    LET req == JsonGetTransactionsToApproveDeserializeRequest(t)
        a == ApiGetTransactionsToApprove(n, req.val)
    IN  Process(n, req, a, JsonGetTransactionsToApproveSerializeResponse(a.res))
ProcessGetTrytesRequest(n, t) ==
    LET req == JsonGetTrytesDeserializeRequest(t)
        a == ApiGetTrytes(n, req.val)
    IN  Process(n, req, a, JsonGetTrytesSerializeResponse(a.res))
ProcessStoreTransactionsRequest(n, t) ==
    LET req == JsonStoreTransactionsDeserializeRequest(t)
    IN  Process(n, req, ApiStoreTransactions(n, req.val), Good(NoText))
ProcessWereAddressesSpentFromRequest(n, t) ==
    LET req == JsonWereAddressesSpentFromDeserializeRequest(t)
        a == ApiWereAddressesSpentFrom(n, req.val)
    IN  Process(n, req, a, JsonWereAddressesSpentFromSerializeResponse(a.res))
ProcessAddNeighborsRequest(n, t) ==
    LET req == JsonAddNeighborsDeserializeRequest(t)
        a == ApiAddNeighbors(n, req.val)
    IN  Process(n, req, a, JsonAddNeighborsSerializeResponse(a.res))
ProcessRemoveNeighborsRequest(n, t) ==
    LET req == JsonRemoveNeighborsDeserializeRequest(t)
        a == ApiRemoveNeighbors(n, req.val)
    IN  Process(n, req, a, JsonRemoveNeighborsSerializeResponse(a.res))
ProcessGetNeighborsRequest(n, t) ==
    LET a == ApiGetNeighbors(n)
    IN  Handled(a, JsonGetNeighborsSerializeResponse(a.res))
ProcessGetTipsRequest(n, t) ==
    LET a == ApiGetTips(n)
    IN  Handled(a, JsonGetTipsSerializeResponse(a.res))
ProcessGetMissingTransactionsRequest(n, t) ==
    LET a == ApiGetMissingTransactions(n)
    IN  Handled(a, JsonGetMissingTransactionsSerializeResponse(a.res))

ProcessRequest(n, command, t) ==
    CASE command \in RemoteLimitApi ->
            ErrorSerializeResponse("This command is not available on this node", n)
      [] command = "attachToTangle" -> ProcessAttachToTangleRequest(n, t)
      [] command = "broadcastTransactions" -> ProcessBroadcastTransactionsRequest(n, t)
      [] command = "checkConsistency" -> ProcessCheckConsistencyRequest(n, t)
      [] command = "findTransactions" -> ProcessFindTransactionsRequest(n, t)
      [] command = "getBalances" -> ProcessGetBalancesRequest(n, t)
      [] command = "getInclusionStates" -> ProcessGetInclusionStatesRequest(n, t)
      [] command = "getNodeInfo" -> ProcessGetNodeInfoRequest(n, t)
      [] command = "getTransactionsToApprove" -> ProcessGetTransactionsToApproveRequest(n, t)
      [] command = "getTrytes" -> ProcessGetTrytesRequest(n, t)
      [] command = "storeTransactions" -> ProcessStoreTransactionsRequest(n, t)
      [] command = "wereAddressesSpentFrom" -> ProcessWereAddressesSpentFromRequest(n, t)
      [] command = "addNeighbors" -> ProcessAddNeighborsRequest(n, t)
      [] command = "removeNeighbors" -> ProcessRemoveNeighborsRequest(n, t)
      [] command = "getNeighbors" -> ProcessGetNeighborsRequest(n, t)
      [] command = "getTips" -> ProcessGetTipsRequest(n, t)
      [] command = "getMissingTransactions" -> ProcessGetMissingTransactionsRequest(n, t)
      [] OTHER -> ErrorSerializeResponse("Unknown command", n)

\* A request of more than one chunk, or without a body, gets no answer.
Handler(n, t) ==
    CASE t = NoText -> ErrorSerializeResponse("Invalid JSON request", n)
      [] t # NoText /\ "command" \notin DOMAIN t[1] ->
            ErrorSerializeResponse("Command parameter has not been specified in the request", n)
      [] OTHER -> ProcessRequest(n, t[1]["command"][2], t)
=============================================================================
