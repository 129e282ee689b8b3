-------------------------------- MODULE Json --------------------------------
(* cclient/serialization/json: the objects that the client and the node      *)
(* exchange.  A text is <<>> when cJSON cannot parse it (an empty body) and   *)
(* otherwise holds one object, a function from keys to tagged values.  A     *)
(* queue, stack or array is a sequence; a NULL one is empty.                 *)
EXTENDS Integers, Sequences, SequencesExt, TLC

RC_OK == "RC_OK"
Good(v) == [rc |-> RC_OK, val |-> v]
Bad(rc) == [rc |-> rc, val |-> <<>>]

NoText == <<>>
EmptyObject == [k \in {} |-> 0]
Object(o) == Good(<<o>>)
Command(name, o) == Object(("command" :> <<"string", name>>) @@ o)

-----------------------------------------------------------------------------
(* helpers.c: what is written                                                *)
Number(k, n) == k :> <<"number", n>>
String(k, s) == k :> <<"string", s>>
Bool(k, b) == k :> <<"bool", b>>
Strings(s) == [i \in 1 .. Len(s) |-> <<"string", s[i]>>]
UtarrayToJson(k, s) == k :> <<"array", Strings(s)>>
StackToJson(k, s) == k :> <<"array", Strings(s)>>

\* An empty queue leaves no key behind, nor does an empty array below.
QueueToJson(k, q) == IF q = <<>> THEN EmptyObject ELSE k :> <<"array", Strings(q)>>
TagsToJson(k, q) == QueueToJson(k, q)
TrytesToJson(k, q) == QueueToJson(k, q)
TrytesArrayToJson(k, a) == QueueToJson(k, a)

\* sprintf of each number: a string.
Uint64sToJson(k, a) ==
    IF a = <<>> THEN EmptyObject
    ELSE k :> <<"array", [i \in 1 .. Len(a) |-> <<"string", ToString(a[i])>>]>>
BoolsToJson(k, a) ==
    IF a = <<>> THEN EmptyObject
    ELSE k :> <<"array", [i \in 1 .. Len(a) |-> <<"bool", a[i]>>]>>
HashToJson(k, h) == String(k, h)

-----------------------------------------------------------------------------
(* helpers.c: what is read                                                   *)
Has(j, k) == k \in DOMAIN j
Is(j, k, kind) == Has(j, k) /\ j[k][1] = kind
KeyOr(j, k, rc) == IF Has(j, k) THEN rc ELSE "RC_CCLIENT_JSON_KEY"
PARSE == "RC_CCLIENT_JSON_PARSE"

JsonGetInt(j, k) == IF Is(j, k, "number") THEN Good(j[k][2]) ELSE Bad(KeyOr(j, k, PARSE))
Unsigned(j, k, bound) ==
    IF Is(j, k, "number") /\ j[k][2] >= 0 THEN Good(j[k][2] % bound) ELSE Bad(KeyOr(j, k, PARSE))
JsonGetUint8(j, k) == Unsigned(j, k, 256)
JsonGetUint16(j, k) == Unsigned(j, k, 65536)

\* A double is cast to 32 or 64 bits: exact for the numbers that occur.
JsonGetUint32(j, k) ==
    IF Is(j, k, "number") /\ j[k][2] >= 0 THEN Good(j[k][2]) ELSE Bad(KeyOr(j, k, PARSE))
JsonGetUint64(j, k) == JsonGetUint32(j, k)
JsonGetString(j, k) == IF Is(j, k, "string") THEN Good(j[k][2]) ELSE Bad(KeyOr(j, k, PARSE))
JsonGetBoolean(j, k) == IF Is(j, k, "bool") THEN Good(j[k][2]) ELSE Bad(KeyOr(j, k, PARSE))
JsonToHash(j, k) == JsonGetString(j, k)

\* Members that are not strings are passed over.
StringsOf(a) ==
    LET s == SelectSeq(a, LAMBDA m : m[1] = "string") IN [i \in 1 .. Len(s) |-> s[i][2]]
JsonToQueue(j, k) ==
    IF Is(j, k, "array") THEN Good(StringsOf(j[k][2])) ELSE Bad(KeyOr(j, k, PARSE))
JsonToTags(j, k) == JsonToQueue(j, k)

\* These read the key without asking whether it is there.
JsonToStack(j, k) == IF Is(j, k, "array") THEN Good(StringsOf(j[k][2])) ELSE Bad(PARSE)
JsonToTrytes(j, k) == JsonToStack(j, k)
JsonToTrytesArray(j, k) == JsonToStack(j, k)
JsonToUtarray(j, k) ==
    IF Is(j, k, "array") /\ \A i \in DOMAIN j[k][2] : j[k][2][i][1] = "string"
    THEN Good(StringsOf(j[k][2])) ELSE Bad(PARSE)

\* strtoll of each string.
Strtoll(s) == CHOOSE n \in 0 .. 99 : ToString(n) = s
JsonToUint64s(j, k) ==
    IF Is(j, k, "array")
    THEN Good([i \in 1 .. Len(j[k][2]) |-> Strtoll(j[k][2][i][2])]) ELSE Bad(PARSE)
JsonToBools(j, k) ==
    IF Is(j, k, "array")
    THEN Good([i \in 1 .. Len(j[k][2]) |-> j[k][2][i] = <<"bool", TRUE>>]) ELSE Bad(PARSE)

\* A key that is looked for with cJSON_HasObjectItem first.
Optional(j, k, r) == IF Has(j, k) THEN r ELSE Good(<<>>)

\* One field after the other until one fails.
ReadFields(f) ==
    LET wrong == {i \in DOMAIN f : f[i][2].rc # RC_OK}
    IN  IF wrong # {}
        THEN Bad(f[CHOOSE i \in wrong : \A j \in wrong : i <= j][2].rc)
        ELSE Good([n \in {f[i][1] : i \in DOMAIN f} |->
                      f[CHOOSE i \in DOMAIN f : f[i][1] = n][2].val])

\* JSON_CHECK_ERROR, then the fields: of the object t[1] of a text that parses.
Read(text, fields) ==
    IF text = NoText THEN Bad(PARSE)
    ELSE IF {"error", "exception"} \cap DOMAIN text[1] # {} THEN Bad("RC_CCLIENT_RES_ERROR")
    ELSE ReadFields(fields)

Needs(field, s) == IF field = <<>> THEN Bad("RC_NULL_PARAM") ELSE s
-----------------------------------------------------------------------------
(* The serializers of every command, under the names of their C functions.  *)
(* A request or response is a record with the fields of the C structure.    *)

JsonFindTransactionsSerializeRequest(r) ==
    Needs(r.addresses \o r.approvees \o r.bundles \o r.tags,
          Command("findTransactions",
                  QueueToJson("addresses", r.addresses) @@ QueueToJson("approvees", r.approvees)
                  @@ QueueToJson("bundles", r.bundles) @@ TagsToJson("tags", r.tags)))
JsonFindTransactionsDeserializeRequest(t) ==
    LET j == t[1]
    IN  IF t # NoText /\ {"bundles", "addresses", "tags", "approvees"} \cap DOMAIN j = {}
        THEN Bad("RC_NULL_PARAM")
        ELSE Read(t, << <<"bundles", Optional(j, "bundles", JsonToQueue(j, "bundles"))>>,
                        <<"addresses", Optional(j, "addresses", JsonToQueue(j, "addresses"))>>,
                        <<"tags", Optional(j, "tags", JsonToTags(j, "tags"))>>,
                        <<"approvees", Optional(j, "approvees", JsonToQueue(j, "approvees"))>> >>)
JsonFindTransactionsSerializeResponse(r) == Object(QueueToJson("hashes", r.hashes))
JsonFindTransactionsDeserializeResponse(t) ==
    Read(t, << <<"hashes", JsonToQueue(t[1], "hashes")>> >>)

JsonGetTrytesSerializeRequest(r) ==
    Needs(r.hashes, Command("getTrytes", QueueToJson("hashes", r.hashes)))
JsonGetTrytesDeserializeRequest(t) ==
    Read(t, << <<"hashes", JsonToQueue(t[1], "hashes")>> >>)
JsonGetTrytesSerializeResponse(r) == Object(TrytesToJson("trytes", r.trytes))
JsonGetTrytesDeserializeResponse(t) ==
    Read(t, << <<"trytes", JsonToTrytes(t[1], "trytes")>> >>)

JsonGetBalancesSerializeRequest(r) ==
    Needs(r.addresses,
          Command("getBalances", QueueToJson("addresses", r.addresses)
                  @@ Number("threshold", r.threshold) @@ QueueToJson("tips", r.tips)))
JsonGetBalancesDeserializeRequest(t) ==
    LET j == t[1]
    IN  Read(t, << <<"threshold", JsonGetUint8(j, "threshold")>>,
                   <<"addresses", JsonToQueue(j, "addresses")>>,
                   <<"tips", Optional(j, "tips", JsonToQueue(j, "tips"))>> >>)
JsonGetBalancesSerializeResponse(r) ==
    Object(Uint64sToJson("balances", r.balances) @@ QueueToJson("references", r.references)
           @@ Number("milestoneIndex", r.milestone_index))
JsonGetBalancesDeserializeResponse(t) ==
    LET j == t[1]
    IN  Read(t, << <<"balances", JsonToUint64s(j, "balances")>>,
                   <<"references", JsonToQueue(j, "references")>>,
                   <<"milestone_index", JsonGetUint64(j, "milestoneIndex")>> >>)

\* Without tips an empty array is written, unlike elsewhere.
JsonGetInclusionStatesSerializeRequest(r) ==
    Needs(r.transactions,
          Command("getInclusionStates",
                  QueueToJson("transactions", r.transactions) @@ UtarrayToJson("tips", r.tips)))
JsonGetInclusionStatesDeserializeRequest(t) ==
    LET j == t[1]
    IN  Read(t, << <<"transactions", JsonToQueue(j, "transactions")>>,
                   <<"tips", Optional(j, "tips", JsonToQueue(j, "tips"))>> >>)
JsonGetInclusionStatesSerializeResponse(r) == Object(BoolsToJson("states", r.states))
JsonGetInclusionStatesDeserializeResponse(t) ==
    Read(t, << <<"states", JsonToBools(t[1], "states")>> >>)

JsonCheckConsistencySerializeRequest(r) ==
    Needs(r.tails, Command("checkConsistency", QueueToJson("tails", r.tails)))
JsonCheckConsistencyDeserializeRequest(t) ==
    Read(t, << <<"tails", JsonToQueue(t[1], "tails")>> >>)

\* info is a pointer, and is followed without a test.
JsonCheckConsistencySerializeResponse(r) ==
    IF r.info = <<>> THEN Bad("NULL_DEREFERENCE")
    ELSE Object(Bool("state", r.state) @@ String("info", r.info[1]))
JsonCheckConsistencyDeserializeResponse(t) ==
    LET j == t[1]
    IN  Read(t, << <<"state", IF Has(j, "state") THEN Good(j["state"] = <<"bool", TRUE>>) ELSE Bad(PARSE)>>,
                   <<"info", JsonGetString(j, "info")>> >>)

JsonAttachToTangleSerializeRequest(r) ==
    Command("attachToTangle",
            HashToJson("trunkTransaction", r.trunk) @@ HashToJson("branchTransaction", r.branch)
            @@ Number("minWeightMagnitude", r.mwm) @@ TrytesArrayToJson("trytes", r.trytes))
JsonAttachToTangleDeserializeRequest(t) ==
    LET j == t[1]
    IN  Read(t, << <<"mwm", JsonGetUint8(j, "minWeightMagnitude")>>,
                   <<"trunk", JsonToHash(j, "trunkTransaction")>>,
                   <<"branch", JsonToHash(j, "branchTransaction")>>,
                   <<"trytes", JsonToTrytesArray(j, "trytes")>> >>)
JsonAttachToTangleSerializeResponse(r) == Object(TrytesArrayToJson("trytes", r.trytes))
JsonAttachToTangleDeserializeResponse(t) ==
    Read(t, << <<"trytes", JsonToTrytesArray(t[1], "trytes")>> >>)

JsonWereAddressesSpentFromSerializeRequest(r) ==
    Needs(r.addresses, Command("wereAddressesSpentFrom", QueueToJson("addresses", r.addresses)))
JsonWereAddressesSpentFromDeserializeRequest(t) ==
    Read(t, << <<"addresses", JsonToQueue(t[1], "addresses")>> >>)
JsonWereAddressesSpentFromSerializeResponse(r) == Object(BoolsToJson("states", r.states))
JsonWereAddressesSpentFromDeserializeResponse(t) ==
    Read(t, << <<"states", JsonToBools(t[1], "states")>> >>)

JsonGetTransactionsToApproveSerializeRequest(r) ==
    Command("getTransactionsToApprove",
            Number("depth", r.depth)
            @@ (IF r.reference = <<>> THEN EmptyObject ELSE HashToJson("reference", r.reference[1])))
JsonGetTransactionsToApproveDeserializeRequest(t) ==
    LET j == t[1]
    IN  Read(t, << <<"depth", JsonGetUint32(j, "depth")>>,
                   <<"reference", IF ~Has(j, "reference") THEN Good(<<>>)
                                  ELSE LET h == JsonToHash(j, "reference")
                                       IN  [h EXCEPT !.val = <<@>>]>> >>)
JsonGetTransactionsToApproveSerializeResponse(r) ==
    Object(HashToJson("trunkTransaction", r.trunk) @@ HashToJson("branchTransaction", r.branch))
JsonGetTransactionsToApproveDeserializeResponse(t) ==
    LET j == t[1]
    IN  Read(t, << <<"trunk", JsonToHash(j, "trunkTransaction")>>,
                   <<"branch", JsonToHash(j, "branchTransaction")>> >>)

JsonStoreTransactionsSerializeRequest(r) ==
    Needs(r.trytes, Command("storeTransactions", TrytesArrayToJson("trytes", r.trytes)))
JsonStoreTransactionsDeserializeRequest(t) ==
    Read(t, << <<"trytes", JsonToTrytesArray(t[1], "trytes")>> >>)

\* The array is allocated, empty or not.
JsonBroadcastTransactionsSerializeRequest(r) ==
    Command("broadcastTransactions", TrytesArrayToJson("trytes", r.trytes))
JsonBroadcastTransactionsDeserializeRequest(t) ==
    Read(t, << <<"trytes", JsonToTrytesArray(t[1], "trytes")>> >>)

-----------------------------------------------------------------------------
JsonGetTipsSerializeRequest == Command("getTips", EmptyObject)
JsonGetTipsSerializeResponse(r) == Object(StackToJson("hashes", r.hashes))
JsonGetTipsDeserializeResponse(t) ==
    Read(t, << <<"hashes", [JsonToStack(t[1], "hashes") EXCEPT !.val = Reverse(@)]>> >>)
JsonGetMissingTransactionsSerializeResponse(r) == Object(StackToJson("hashes", r.hashes))

JsonAddNeighborsSerializeRequest(r) ==
    Needs(r.uris, Command("addNeighbors", UtarrayToJson("uris", r.uris)))
JsonAddNeighborsDeserializeRequest(t) ==
    Read(t, << <<"uris", JsonToUtarray(t[1], "uris")>> >>)
JsonAddNeighborsSerializeResponse(r) == Object(Number("addedNeighbors", r.added_neighbors))
JsonAddNeighborsDeserializeResponse(t) ==
    Read(t, << <<"added_neighbors", JsonGetInt(t[1], "addedNeighbors")>> >>)

JsonRemoveNeighborsSerializeRequest(r) ==
    Needs(r.uris, Command("removeNeighbors", UtarrayToJson("uris", r.uris)))
JsonRemoveNeighborsDeserializeRequest(t) ==
    Read(t, << <<"uris", JsonToUtarray(t[1], "uris")>> >>)
JsonRemoveNeighborsSerializeResponse(r) == Object(Number("removedNeighbors", r.removed_neighbors))
JsonRemoveNeighborsDeserializeResponse(t) ==
    Read(t, << <<"removed_neighbors", JsonGetInt(t[1], "removedNeighbors")>> >>)

\* A neighbor: its address and the six counters, in the order they are read.
Counters == <<"numberOfAllTransactions", "numberOfRandomTransactionRequests",
              "numberOfNewTransactions", "numberOfInvalidTransactions",
              "numberOfStaleTransactions", "numberOfSentTransactions">>
NeighborInfoUtarrayToJsonArray(a) ==
    [i \in 1 .. Len(a) |->
        <<"object", String("address", a[i].address) @@ String("connectiontype", a[i].connection_type)
                    @@ [k \in ToSet(Counters) |->
                          <<"number", a[i].counters[CHOOSE n \in 1 .. 6 : Counters[n] = k]>>]>>]
JsonGetNeighborsSerializeRequest == Command("getNeighbors", EmptyObject)
JsonGetNeighborsSerializeResponse(r) ==
    Object("neighbors" :> <<"array", NeighborInfoUtarrayToJsonArray(r.neighbors)>>)
NeighborOf(j) ==
    [address |-> JsonGetString(j, "address").val,
     counters |-> [n \in 1 .. 6 |-> JsonGetUint32(j, Counters[n]).val],
     connection_type |-> JsonGetString(j, "connectiontype").val]
\* Without a neighbor the result is never set, and stays RC_ERROR.
JsonGetNeighborsDeserializeResponse(t) ==
    LET j == t[1]
    IN  Read(t, << <<"neighbors",
                IF Is(j, "neighbors", "array") /\ j["neighbors"][2] # <<>>
                THEN Good([i \in 1 .. Len(j["neighbors"][2]) |-> NeighborOf(j["neighbors"][2][i][2])])
                ELSE Bad("RC_ERROR")>> >>)

JsonGetNodeInfoSerializeRequest == Command("getNodeInfo", EmptyObject)
JsonGetNodeInfoSerializeResponse(r) ==
    Object(String("appName", r.app_name) @@ String("appVersion", r.app_version)
           @@ HashToJson("latestMilestone", r.latest_milestone)
           @@ Number("latestMilestoneIndex", r.latest_milestone_index)
           @@ HashToJson("latestSolidSubtangleMilestone", r.latest_solid_subtangle_milestone)
           @@ Number("latestSolidSubtangleMilestoneIndex", r.latest_solid_subtangle_milestone_index)
           @@ Number("milestoneStartIndex", r.milestone_start_index)
           @@ Number("neighbors", r.neighbors) @@ Number("packetsQueueSize", r.packets_queue_size)
           @@ Number("time", r.time) @@ Number("tips", r.tips)
           @@ Number("transactionsToRequest", r.transactions_to_request)
           @@ UtarrayToJson("features", r.features)
           @@ HashToJson("coordinatorAddress", r.coordinator_address))
JsonGetNodeInfoDeserializeResponse(t) ==
    LET j == t[1]
    IN  Read(t, << <<"app_name", JsonGetString(j, "appName")>>, <<"app_version", JsonGetString(j, "appVersion")>>,
                   <<"latest_milestone", JsonToHash(j, "latestMilestone")>>,
                   <<"latest_milestone_index", JsonGetUint32(j, "latestMilestoneIndex")>>,
                   <<"latest_solid_subtangle_milestone", JsonToHash(j, "latestSolidSubtangleMilestone")>>,
                   <<"latest_solid_subtangle_milestone_index",
                     JsonGetUint32(j, "latestSolidSubtangleMilestoneIndex")>>,
                   <<"milestone_start_index", JsonGetUint32(j, "milestoneStartIndex")>>,
                   <<"neighbors", JsonGetUint16(j, "neighbors")>>,
                   <<"packets_queue_size", JsonGetUint16(j, "packetsQueueSize")>>,
                   <<"time", JsonGetUint64(j, "time")>>, <<"tips", JsonGetUint32(j, "tips")>>,
                   <<"transactions_to_request", JsonGetUint32(j, "transactionsToRequest")>>,
                   <<"features", JsonToUtarray(j, "features")>>,
                   <<"coordinator_address", JsonToHash(j, "coordinatorAddress")>> >>)

JsonGetNodeApiConfSerializeResponse(r) ==
    Object(Number("maxFindTransactions", r.max_find_transactions)
           @@ Number("maxRequestsList", r.max_requests_list) @@ Number("maxGetTrytes", r.max_get_trytes)
           @@ Number("maxBodyLength", r.max_body_length)
           @@ Number("milestoneStartIndex", r.milestone_start_index) @@ Bool("testNet", r.test_net))
JsonGetNodeApiConfDeserializeResponse(t) ==
    LET j == t[1]
    IN  Read(t, << <<"max_find_transactions", JsonGetUint32(j, "maxFindTransactions")>>,
                   <<"max_requests_list", JsonGetUint32(j, "maxRequestsList")>>,
                   <<"max_get_trytes", JsonGetUint32(j, "maxGetTrytes")>>,
                   <<"max_body_length", JsonGetUint32(j, "maxBodyLength")>>,
                   <<"milestone_start_index", JsonGetUint32(j, "milestoneStartIndex")>>,
                   <<"test_net", JsonGetBoolean(j, "testNet")>> >>)

JsonErrorSerializeResponse(message) == Object(String("error", message))
=============================================================================
