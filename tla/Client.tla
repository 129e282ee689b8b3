------------------------------- MODULE Client -------------------------------
(* cclient: the extended API, one core API call at a time, over a connection *)
(* that may fail.  cl is the call in progress: its arguments (job), where it *)
(* is (pc) and its local variables; node is the node it talks to.            *)
EXTENDS Api

CONSTANTS
    Seed,               \* the seed of the account
    Retry,              \* CCLIENT_SOCKET_RETRY
    MaxIndex,           \* the last key index generated: the loops stay at it
    MaxFaults,          \* failures of the connection
    MaxEvents           \* what happens to the node meanwhile

VARIABLES cl, node, faults, events
clientVars == <<cl, node, faults, events>>

Start(job, pc, walk) ==
    [job |-> job, pc |-> pc, walk |-> walk, i |-> IF walk = "unspent" THEN job.start ELSE 0,
     used |-> walk = "unspent", addresses |-> <<>>, txs |-> <<>>, inputs |-> <<>>, balances |-> <<>>,
     bundle |-> <<>>, hash |-> job.tail, trytes |-> <<>>, trunk |-> <<"null">>,
     branch |-> <<"null">>, retry |-> 0, rc |-> RC_OK, out |-> <<>>]

Done(c, rc) == [c EXCEPT !.pc = "done", !.rc = rc]
Seeds(job) == IF job.kind = "promote" THEN job.transfers[1].address ELSE Seed
Address(c) == AddressGen(Seeds(c.job), c.i, c.job.security)
\* Append, except for what the loop that stays at MaxIndex has added before.
Push(s, x) == IF s # <<>> /\ s[Len(s)] = x THEN s ELSE Append(s, x)

\* A faulty variant of NextAddress: the index is not counted up.
NextAddressSame(c) == [c EXCEPT !.pc = "spent"]

\* The loops over addresses: on to the next index.
NextAddress(c) == [c EXCEPT !.i = IF @ < MaxIndex THEN @ + 1 ELSE @, !.pc = "spent"]

-----------------------------------------------------------------------------
(* A call ends with a result r and leaves the node and the connection in a    *)
(* state; a call that is made again has no result yet.                        *)
Outcome(r, n, f) == [r |-> r, node |-> n, faults |-> f, again |-> FALSE]

\* iota_service_query: the request is sent again after a broken answer, which
\* the node has then already carried out.
Unreachable ==
    IF node.up /\ faults = 0 THEN {}
    ELSE {Outcome(Bad("RC_ERROR"), node, IF node.up THEN faults - 1 ELSE faults)}

Answered(a) ==
    {Outcome(IF a.node.up THEN Good(a.text) ELSE Bad("RC_CCLIENT_HTTP"), a.node, faults)}

AnswerBroken(a) ==
    IF faults = 0 THEN {}
    ELSE {[Outcome(Bad("RC_UTILS_SOCKET_RECV"), a.node, faults - 1) EXCEPT !.again = cl.retry <= Retry]}

AnswerCut(a) ==
    IF faults = 0 THEN {} ELSE {Outcome(Bad("RC_CCLIENT_HTTP"), a.node, faults - 1)}

IotaServiceQuery(text) ==
    Unreachable \cup
    UNION {Answered(a) \cup AnswerBroken(a) \cup AnswerCut(a) :
              a \in IF node.up THEN {Handler(node, text)} ELSE {}}

\* A core API call: serialize, query, deserialize.
Call(q) == IF q.rc # RC_OK THEN {Outcome(Bad(q.rc), node, faults)} ELSE IotaServiceQuery(q.val)
Deserialized(o, r) == IF o.r.rc = RC_OK THEN [o EXCEPT !.r = r] ELSE o

\* The call in progress goes on as c, unless the request is sent again.
Goes(o, c) ==
    /\ cl' = IF o.again THEN [cl EXCEPT !.retry = @ + 1] ELSE [c EXCEPT !.retry = 0]
    /\ node' = o.node
    /\ faults' = o.faults

-----------------------------------------------------------------------------
(* The core API: one definition per file of cclient/api/core, the outcomes of *)
(* the call.  The answers to store and broadcast are not read.                *)
IotaClientWereAddressesSpentFrom(req) ==
    {Deserialized(o, JsonWereAddressesSpentFromDeserializeResponse(o.r.val)) :
        o \in Call(JsonWereAddressesSpentFromSerializeRequest(req))}
IotaClientFindTransactions(req) ==
    {Deserialized(o, JsonFindTransactionsDeserializeResponse(o.r.val)) :
        o \in Call(JsonFindTransactionsSerializeRequest(req))}
IotaClientGetBalances(req) ==
    {Deserialized(o, JsonGetBalancesDeserializeResponse(o.r.val)) :
        o \in Call(JsonGetBalancesSerializeRequest(req))}
IotaClientGetTransactionsToApprove(req) ==
    {Deserialized(o, JsonGetTransactionsToApproveDeserializeResponse(o.r.val)) :
        o \in Call(JsonGetTransactionsToApproveSerializeRequest(req))}
IotaClientAttachToTangle(req) ==
    {Deserialized(o, JsonAttachToTangleDeserializeResponse(o.r.val)) :
        o \in Call(JsonAttachToTangleSerializeRequest(req))}
IotaClientGetTrytes(req) ==
    {Deserialized(o, JsonGetTrytesDeserializeResponse(o.r.val)) :
        o \in Call(JsonGetTrytesSerializeRequest(req))}
IotaClientCheckConsistency(req) ==
    {Deserialized(o, JsonCheckConsistencyDeserializeResponse(o.r.val)) :
        o \in Call(JsonCheckConsistencySerializeRequest(req))}
IotaClientGetInclusionStates(req) ==
    {Deserialized(o, JsonGetInclusionStatesDeserializeResponse(o.r.val)) :
        o \in Call(JsonGetInclusionStatesSerializeRequest(req))}
IotaClientStoreTransactions(req) == Call(JsonStoreTransactionsSerializeRequest(req))
IotaClientBroadcastTransactions(req) == Call(JsonBroadcastTransactionsSerializeRequest(req))
IotaClientGetNodeInfo ==
    {Deserialized(o, JsonGetNodeInfoDeserializeResponse(o.r.val)) :
        o \in Call(JsonGetNodeInfoSerializeRequest)}
IotaClientGetTips ==
    {Deserialized(o, JsonGetTipsDeserializeResponse(o.r.val)) :
        o \in Call(JsonGetTipsSerializeRequest)}
IotaClientGetNeighbors ==
    {Deserialized(o, JsonGetNeighborsDeserializeResponse(o.r.val)) :
        o \in Call(JsonGetNeighborsSerializeRequest)}
IotaClientAddNeighbors(req) ==
    {Deserialized(o, JsonAddNeighborsDeserializeResponse(o.r.val)) :
        o \in Call(JsonAddNeighborsSerializeRequest(req))}
IotaClientRemoveNeighbors(req) ==
    {Deserialized(o, JsonRemoveNeighborsDeserializeResponse(o.r.val)) :
        o \in Call(JsonRemoveNeighborsSerializeRequest(req))}

-----------------------------------------------------------------------------
(* prepare_transfers                                                         *)
AddTransactionEntry(b, n, address, value, tag) ==
    b \o [i \in 1 .. n |-> [TransactionReset EXCEPT !.address = address, !.tag = tag,
                                !.obsolete_tag = tag, !.value = IF i = 1 THEN value ELSE 0]]

Outputs(transfers) ==
    FoldLeft(LAMBDA b, t : AddTransactionEntry(b, t.chunks, t.address, t.value, t.tag), <<>>, transfers)
Total(transfers) == FoldLeft(LAMBDA sum, t : sum + t.value, 0, transfers)
LastTag(transfers) == transfers[Len(transfers)].tag

\* The inputs are added until they pay for the transfers; over is what is left.
AddInputs(c) ==
    LET Add(s, input) ==
            IF s.over >= 0 \/ input.balance = 0 THEN s
            ELSE [b |-> AddTransactionEntry(s.b, c.job.security, input.address, -input.balance,
                                            LastTag(c.job.transfers)),
                  left |-> s.left - input.balance,
                  over |-> IF input.balance >= s.left THEN input.balance - s.left ELSE -1]
    IN  FoldLeft(Add, [b |-> c.bundle, left |-> Total(c.job.transfers), over |-> -1], c.inputs)

\* send_transfer gives the trytes from the last transaction to the first.
Prepared(c, b) == [c EXCEPT !.bundle = b, !.trytes = Reverse(b), !.pc = "approve"]

\* Without an address for the remainder a new one is asked for first.
AddRemainder(c, remainder) ==
    LET s == AddInputs(c)
        rest == AddTransactionEntry(s.b, 1, remainder[1], s.over, LastTag(c.job.transfers))
    IN  CASE s.over < 0 -> Done(c, "RC_CCLIENT_INSUFFICIENT_BALANCE")
          [] s.over = 0 -> Prepared(c, BundleSign(s.b, Seeds(c.job), c.inputs))
          [] s.over > 0 /\ remainder # <<>> -> Prepared(c, BundleSign(rest, Seeds(c.job), c.inputs))
          [] OTHER -> [c EXCEPT !.pc = "spent", !.walk = "new", !.i = 0, !.used = FALSE]

Prepare(c) ==
    LET messages == [i \in 1 .. Len(Outputs(c.job.transfers)) |-> i]
        d == [c EXCEPT !.bundle = BundleSetMessages(Outputs(c.job.transfers), messages),
                       !.inputs = c.job.inputs]
    IN  IF Total(c.job.transfers) = 0 THEN Prepared(d, BundleFinalize(BundleResetIndexes(d.bundle)))
        ELSE IF c.job.inputs # <<>> THEN [d EXCEPT !.pc = "check_balances"]
        ELSE [d EXCEPT !.pc = "spent", !.walk = "inputs", !.i = 0, !.used = FALSE]

PrepareTransfers ==
    /\ cl.pc = "prepare"
    /\ cl' = Prepare(cl)
    /\ UNCHANGED <<node, faults, events>>

CheckBalances ==
    /\ cl.pc = "check_balances"
    /\ \E o \in IotaClientGetBalances([addresses |-> [i \in 1 .. Len(cl.inputs) |-> cl.inputs[i].address],
                                       threshold |-> 100, tips |-> <<>>]) :
          Goes(o, IF o.r.rc # RC_OK \/ \E i \in DOMAIN cl.inputs : cl.inputs[i].balance # o.r.val.balances[i]
                  THEN Done(cl, "RC_CCLIENT_CHECK_BALANCE")
                  ELSE AddRemainder(cl, cl.job.remainder))
    /\ UNCHANGED events

-----------------------------------------------------------------------------
(* is_used_address and the loops over the key indices that call it           *)
TotalBalance(inputs) == FoldLeft(LAMBDA sum, input : sum + input.balance, 0, inputs)

InputsChosen(c) ==
    IF TotalBalance(c.inputs) < Total(c.job.transfers)
    THEN Done(c, "RC_CCLIENT_INSUFFICIENT_BALANCE") ELSE AddRemainder(c, c.job.remainder)

GetNewAddress(c, rc) ==
    LET d == [c EXCEPT !.addresses = Push(@, Address(c))]
    IN  IF rc # RC_OK \/ c.used THEN NextAddress(d)
        ELSE IF c.job.kind = "new_address" THEN Done(d, RC_OK)
        ELSE AddRemainder(d, <<Address(c)>>)

GetInputs(c, rc) ==
    IF rc = RC_OK /\ ~c.used THEN InputsChosen(c) ELSE [c EXCEPT !.pc = "input_balance"]

GetAccountData(c, rc) ==
    IF rc # RC_OK THEN Done(c, rc)
    ELSE IF c.used THEN NextAddress([c EXCEPT !.addresses = Push(@, Address(c)), !.used = FALSE])
    ELSE IF c.addresses = <<>> THEN Done(c, RC_OK)
    ELSE [c EXCEPT !.pc = "account_balances"]

\* An answer that fails ends get_unspent_address with what ret was: RC_OK.
GetUnspentAddress(c, r) ==
    IF r.rc # RC_OK THEN Done(c, RC_OK)
    ELSE IF ~r.val.states[1] THEN Done([c EXCEPT !.used = FALSE, !.out = <<Address(c)>>], RC_OK)
    ELSE IF c.i + 1 < c.job.total THEN [c EXCEPT !.i = @ + 1] ELSE Done(c, RC_OK)

WasAddressSpentFrom ==
    /\ cl.pc = "spent"
    /\ \E o \in IotaClientWereAddressesSpentFrom([addresses |-> <<Address(cl)>>]) :
          Goes(o, IF cl.walk = "unspent" THEN GetUnspentAddress(cl, o.r)
                  ELSE [cl EXCEPT !.pc = "find",
                                  !.used = IF o.r.rc = RC_OK THEN o.r.val.states[1] ELSE @])
    /\ UNCHANGED events

\* Whatever was_address_spent_from said, the transactions found decide.
Found(c, r) ==
    IF r.rc # RC_OK THEN c
    ELSE [c EXCEPT !.used = r.val.hashes # <<>>,
                   !.txs = IF c.walk = "account" THEN @ \o r.val.hashes ELSE @]

ByAddress(a) == [addresses |-> <<a>>, approvees |-> <<>>, bundles |-> <<>>, tags |-> <<>>]

FindTransactionsByAddress ==
    /\ cl.pc = "find"
    /\ \E o \in IotaClientFindTransactions(ByAddress(Address(cl))) :
          Goes(o, CASE cl.walk = "new" -> GetNewAddress(Found(cl, o.r), o.r.rc)
                    [] cl.walk = "inputs" -> GetInputs(Found(cl, o.r), o.r.rc)
                    [] cl.walk = "account" -> GetAccountData(Found(cl, o.r), o.r.rc))
    /\ UNCHANGED events

InputBalance ==
    /\ cl.pc = "input_balance"
    /\ \E o \in IotaClientGetBalances([addresses |-> <<Address(cl)>>, threshold |-> 100, tips |-> <<>>]) :
          Goes(o, IF o.r.rc # RC_OK THEN NextAddress(cl)
                  ELSE IF TotalBalance(cl.inputs) >= Total(cl.job.transfers) THEN InputsChosen(cl)
                  ELSE NextAddress([cl EXCEPT !.inputs = Push(@,
                           [address |-> Address(cl), balance |-> o.r.val.balances[1],
                            key_index |-> cl.i, security |-> cl.job.security])]))
    /\ UNCHANGED events

AccountBalances ==
    /\ cl.pc = "account_balances"
    /\ \E o \in IotaClientGetBalances([addresses |-> cl.addresses, threshold |-> 100, tips |-> <<>>]) :
          Goes(o, Done([cl EXCEPT !.balances = IF o.r.rc = RC_OK THEN o.r.val.balances ELSE @], o.r.rc))
    /\ UNCHANGED events

-----------------------------------------------------------------------------
(* send_trytes                                                               *)
GetTransactionsToApprove ==
    /\ cl.pc = "approve"
    /\ \E o \in IotaClientGetTransactionsToApprove([depth |-> 1, reference |-> cl.job.reference]) :
          Goes(o, IF o.r.rc # RC_OK THEN Done(cl, o.r.rc)
                  ELSE [cl EXCEPT !.pc = "attach", !.trunk = o.r.val.trunk, !.branch = o.r.val.branch])
    /\ UNCHANGED events

Attached(r) == IF r.rc # RC_OK THEN Done(cl, r.rc) ELSE [cl EXCEPT !.pc = "store", !.trytes = r.val.trytes]

AttachToTangle ==
    /\ cl.pc = "attach"
    /\ IF <<"null">> \in {cl.trunk, cl.branch}
       THEN cl' = Done(cl, "RC_NULL_PARAM") /\ UNCHANGED <<node, faults>>
       ELSE IF cl.job.local_pow
       THEN LET p == PowBundle(cl.trytes, cl.trunk, cl.branch, 99)
            IN  /\ cl' = Attached(IF p.rc = RC_OK THEN Good([trytes |-> p.val]) ELSE Bad("RC_CCLIENT_POW_FAILED"))
                /\ UNCHANGED <<node, faults>>
       ELSE \E o \in IotaClientAttachToTangle([trytes |-> cl.trytes, trunk |-> cl.trunk,
                                               branch |-> cl.branch, mwm |-> 9]) :
               Goes(o, Attached(o.r))
    /\ UNCHANGED events

StoreTransactions ==
    /\ cl.pc = "store"
    /\ \E o \in IotaClientStoreTransactions([trytes |-> cl.trytes]) :
          Goes(o, IF o.r.rc # RC_OK THEN Done(cl, o.r.rc) ELSE [cl EXCEPT !.pc = "broadcast"])
    /\ UNCHANGED events

BroadcastTransactions ==
    /\ cl.pc = "broadcast"
    /\ \E o \in IotaClientBroadcastTransactions([trytes |-> cl.trytes]) :
          Goes(o, Done([cl EXCEPT !.out = IF o.r.rc = RC_OK THEN cl.trytes ELSE @], o.r.rc))
    /\ UNCHANGED events

-----------------------------------------------------------------------------
(* traverse_bundle, with what get_bundle, replay_bundle and broadcast_bundle *)
(* do with the bundle                                                        *)
GetBundle(c) == Done([c EXCEPT !.out = <<BundleValidate(c.bundle)>>], RC_OK)
BroadcastBundle(c) == [c EXCEPT !.trytes = c.bundle, !.pc = "broadcast"]
ReplayBundle(c) ==
    IF BundleValidate(c.bundle) = "BUNDLE_VALID" THEN [c EXCEPT !.trytes = c.bundle, !.pc = "approve"]
    ELSE Done(c, "RC_CCLIENT_INVALID_BUNDLE")

Traversed(c) ==
    CASE c.job.kind = "get_bundle" -> GetBundle(c)
      [] c.job.kind = "broadcast_bundle" -> BroadcastBundle(c)
      [] c.job.kind = "replay" -> ReplayBundle(c)

TraverseWith(c, trytes) ==
    LET tx == trytes[1]
        b == c.bundle
    IN  CASE trytes = <<>> -> Done([c EXCEPT !.bundle = <<>>], "RC_CCLIENT_RES_ERROR")
          [] trytes # <<>> /\ b = <<>> /\ tx.current_index # 0 -> Done(c, "RC_CCLIENT_INVALID_TAIL_HASH")
          [] trytes # <<>> /\ b # <<>> /\ (tx.current_index # Len(b) \/ tx.bundle # b[1].bundle) ->
                Done([c EXCEPT !.bundle = <<>>], "RC_CCLIENT_INVALID_BUNDLE")
          [] OTHER ->
                LET d == [c EXCEPT !.bundle = Append(b, tx), !.hash = tx.trunk]
                IN  IF tx.current_index = d.bundle[1].last_index THEN Traversed(d) ELSE d

TraverseBundle ==
    /\ cl.pc = "trytes"
    /\ \E o \in IotaClientGetTrytes([hashes |-> <<cl.hash>>]) :
          Goes(o, IF o.r.rc # RC_OK THEN Done([cl EXCEPT !.bundle = <<>>], o.r.rc)
                  ELSE TraverseWith(cl, o.r.val.trytes))
    /\ UNCHANGED events

PromoteTransaction(c, r) ==
    IF r.rc # RC_OK THEN Done(c, r.rc)
    ELSE IF r.val.state THEN [c EXCEPT !.pc = "prepare"] ELSE Done(c, "RC_CCLIENT_NOT_PROMOTABLE")

\* The request is freed before it is given to get_trytes.
IsPromotable(c, r) ==
    IF r.rc # RC_OK THEN Done([c EXCEPT !.out = <<FALSE>>], r.rc)
    ELSE Done([c EXCEPT !.out = <<FALSE>>], IF r.val.state THEN "RC_NULL_PARAM" ELSE RC_OK)

CheckConsistency ==
    /\ cl.pc = "consistency"
    /\ \E o \in IotaClientCheckConsistency([tails |-> <<cl.hash>>]) :
          Goes(o, IF cl.job.kind = "promote" THEN PromoteTransaction(cl, o.r) ELSE IsPromotable(cl, o.r))
    /\ UNCHANGED events

\* get_latest_inclusion: after a failed get_node_info the request that was
\* never made is written to.
GetNodeInfo ==
    /\ cl.pc = "info"
    /\ \E o \in IotaClientGetNodeInfo :
          Goes(o, IF o.r.rc # RC_OK THEN [cl EXCEPT !.pc = "crashed", !.rc = o.r.rc]
                  ELSE [cl EXCEPT !.pc = "inclusion", !.trunk = o.r.val.latest_solid_subtangle_milestone])
    /\ UNCHANGED events

GetInclusionStates ==
    /\ cl.pc = "inclusion"
    /\ \E o \in IotaClientGetInclusionStates([transactions |-> <<cl.hash>>, tips |-> <<cl.trunk>>]) :
          Goes(o, Done([cl EXCEPT !.out = IF o.r.rc = RC_OK THEN o.r.val.states ELSE @], o.r.rc))
    /\ UNCHANGED events

FindTransactionObjects ==
    /\ cl.pc = "find_objects"
    /\ \E o \in IotaClientFindTransactions(ByAddress(Address(cl))) :
          Goes(o, IF o.r.rc # RC_OK THEN Done(cl, o.r.rc)
                  ELSE [cl EXCEPT !.pc = "objects", !.txs = o.r.val.hashes])
    /\ UNCHANGED events

GetTransactionObjects ==
    /\ cl.pc = "objects"
    /\ \E o \in IotaClientGetTrytes([hashes |-> cl.txs]) :
          Goes(o, Done([cl EXCEPT !.out = IF o.r.rc = RC_OK THEN o.r.val.trytes ELSE @], o.r.rc))
    /\ UNCHANGED events

\* A call of the core API by itself: the neighbors and the tips of the node.
CoreCall ==
    /\ cl.pc = "core"
    /\ LET uris == [uris |-> cl.job.uris]
       IN  \E o \in CASE cl.job.kind = "add_neighbors" -> IotaClientAddNeighbors(uris)
                      [] cl.job.kind = "remove_neighbors" -> IotaClientRemoveNeighbors(uris)
                      [] cl.job.kind = "get_neighbors" -> IotaClientGetNeighbors
                      [] cl.job.kind = "get_tips" -> IotaClientGetTips :
              Goes(o, Done([cl EXCEPT !.out = IF o.r.rc = RC_OK THEN <<o.r.val>> ELSE <<>>], o.r.rc))
    /\ UNCHANGED events

-----------------------------------------------------------------------------
(* The node's other work: transactions arrive, milestones confirm what is     *)
(* stored, and confirmed transactions are pruned (their addresses recorded).  *)
Event(n) == /\ events > 0
            /\ events' = events - 1
            /\ node' = n
            /\ UNCHANGED <<cl, faults>>

Arrive == \E i \in 0 .. MaxIndex - 1 :
    LET tx == [TransactionReset EXCEPT !.address = AddressGen(Seed, i, 1), !.nonce = -1]
    IN  tx \notin node.tx /\ Event([node EXCEPT !.tx = @ \cup {tx}])

Confirm ==
    LET all == {HashOf(tx) : tx \in node.tx}
    IN  all # node.confirmed /\ Event([node EXCEPT !.confirmed = @ \cup all, !.solid = @ \cup all])

Prune ==
    LET gone == {tx \in node.tx : HashOf(tx) \in node.confirmed}
    IN  /\ gone # {}
        /\ Event([node EXCEPT !.tx = @ \ gone,
                              !.spent = @ \cup {tx.address : tx \in {u \in gone : u.value < 0}}])

Desynchronize == Event([node EXCEPT !.synced = ~@])

ClientStep ==
    \/ PrepareTransfers \/ CheckBalances \/ WasAddressSpentFrom \/ FindTransactionsByAddress
    \/ InputBalance \/ AccountBalances \/ GetTransactionsToApprove \/ AttachToTangle
    \/ StoreTransactions \/ BroadcastTransactions \/ TraverseBundle \/ CheckConsistency
    \/ GetNodeInfo \/ GetInclusionStates \/ FindTransactionObjects \/ GetTransactionObjects
    \/ CoreCall

Environment == Arrive \/ Confirm \/ Prune \/ Desynchronize

CallOver == cl.pc \in {"done", "crashed"} /\ events = 0 /\ UNCHANGED clientVars

ClientNext == ClientStep \/ Environment \/ CallOver

\* Weak fairness of ClientStep, which is enabled until the call has ended, and
\* whose steps are the ones that change cl: the loop of a call goes on as long
\* as its thread runs.
ClientFairness == []<>(cl.pc \in {"done", "crashed"}) \/ []<><<cl' # cl>>_cl

-----------------------------------------------------------------------------
Sends == {"send", "promote", "replay"}

\* prepare_transfers: the bundle that is about to be attached passes the
\* node's own bundle_validate, pays every transfer in full, and takes from the
\* chosen inputs exactly what the transfers and the remainder get, whatever
\* the connection did to the calls that chose inputs and remainder address.
PreparedIsValid ==
    (cl.pc \in {"approve", "attach", "store"} /\ cl.job.kind \in Sends) =>
        /\ BundleValidate(cl.bundle) = "BUNDLE_VALID"
        /\ \A i \in DOMAIN cl.job.transfers : \E tx \in ToSet(cl.bundle) :
              tx.address = cl.job.transfers[i].address /\ tx.value = cl.job.transfers[i].value
        /\ \A tx \in ToSet(cl.bundle) : tx.value < 0 =>
              cl.job.kind = "replay" \/ \E i \in DOMAIN cl.inputs :
                  cl.inputs[i].address = tx.address /\ cl.inputs[i].balance = -tx.value

\* send_trytes: when it reports success, the node has each transaction (or has
\* since confirmed it) and has queued it for broadcast, and together they
\* still are the valid bundle that was prepared.
SentIsOnTheNode ==
    (cl.pc = "done" /\ cl.rc = RC_OK /\ cl.job.kind \in Sends) =>
        /\ cl.out # <<>>
        /\ \A tx \in ToSet(cl.out) : /\ tx \in node.tx \/ HashOf(tx) \in node.confirmed
                                     /\ tx \in node.stage
        /\ BundleValidate(SortSeq(cl.out, LAMBDA x, y : x.current_index < y.current_index)) = "BUNDLE_VALID"

\* iota_service_query repeats a request whose answer broke: attaching twice
\* must not leave two attachments of one bundle in the node, and storing
\* twice must change nothing.
SentOnce ==
    cl.job.kind \in {"send", "promote"} =>
        \A tx \in node.tx, other \in node.tx :
            (tx.bundle # <<>> /\ tx.bundle = other.bundle /\ tx.current_index = other.current_index)
                => tx = other

\* Every call ends, also those that look for an unused address, when the node
\* writes the lists that are empty and the connection fails finitely often.
CallsReturn == node.iri => <>(cl.pc \in {"done", "crashed"})
=============================================================================
