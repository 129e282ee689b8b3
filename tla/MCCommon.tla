------------------------------ MODULE MCCommon ------------------------------
(***************************************************************************)
(* The library that the node and the clients are built on, one part of it  *)
(* in each behaviour.                                                      *)
(*                                                                         *)
(* Storage has three transactions: a bundle of two, with a reattached tail *)
(* of the coordinator, two milestones and one address.  The algorithms are *)
(* the counter of Trinary, the array of FlexTrits, the packets of          *)
(* Transaction, the signature tree of Mss, the two sponges and Troika, the *)
(* signatures of a hash and the Merkle tree, the threads of the bundle     *)
(* miner and those of the proof of work.                                   *)
(***************************************************************************)
EXTENDS SqlStorage, Transaction, Mss, Sponge, Signatures, Miner, ProofOfWork, Troika

CONSTANTS tx0, tx1, mil0, a, co, conn1, conn2, Heights

VARIABLES part, tree


\* tx1 <- tx0 is a bundle that spends a; mil0 approves both and is a candidate.
MCTx == {tx0, tx1, mil0}
MCAddressOf == tx0 :> a @@ tx1 :> a @@ mil0 :> co
MCBundleOf == tx0 :> "b" @@ tx1 :> "b" @@ mil0 :> "m"
MCTagOf == tx0 :> "x" @@ tx1 :> "x" @@ mil0 :> "y"
MCValueOf == tx0 :> 1 @@ tx1 :> -1 @@ mil0 :> 0
MCCurrentIndexOf == tx0 :> 0 @@ tx1 :> 1 @@ mil0 :> 0
MCLastIndexOf == tx0 :> 1 @@ tx1 :> 1 @@ mil0 :> 0
MCTrunkOf == tx0 :> tx1 @@ tx1 :> "genesis" @@ mil0 :> tx1
MCBranchOf == tx0 :> "genesis" @@ tx1 :> "genesis" @@ mil0 :> tx0

Row(solid, index) == [NewRow(InsertColumns, 0) EXCEPT !.solid = solid, !.snapshot_index = index]

\* mil0 is not stored yet, and no address is marked as spent.
Started == [tx |-> tx0 :> Row(FALSE, 0) @@ tx1 :> Row(TRUE, 0),
         milestone |-> 1 :> [hash |-> "old", delta |-> NoDelta] @@ 2 :> [hash |-> tx0, delta |-> NoDelta],
         spent |-> {}]

MCDatabases == {Started}

Update(S, b, col, v) == [op |-> "update", keys |-> S, bulk |-> b, col |-> col, value |-> v]

MCWrites ==
    {[op |-> "store", key |-> h, keys |-> {h}] : h \in {tx0, mil0}}
    \cup {Update({tx1}, FALSE, "solid", TRUE), Update({tx0, mil0}, TRUE, "solid", TRUE),
          Update({tx0}, FALSE, "snapshot_index", 2), Update({tx0, tx1}, TRUE, "snapshot_index", 2),
          Update({mil0}, FALSE, "validity", 1), Update({tx0, tx1}, TRUE, "validity", 1)}
    \cup {[op |-> "delete", keys |-> {tx0}, bulk |-> FALSE],
          [op |-> "delete", keys |-> {tx0, tx1}, bulk |-> TRUE],
          [op |-> "metadata_clear", keys |-> {"all"}],
          [op |-> "milestone_store", key |-> mil0, keys |-> {mil0}, index |-> 3],
          [op |-> "milestone_delete", key |-> tx0, keys |-> {tx0}],
          [op |-> "milestone_clear", keys |-> {"all"}],
          [op |-> "state_delta_store", keys |-> {2}, index |-> 2, value |-> "delta"],
          [op |-> "spent", keys |-> {a}, bulk |-> FALSE],
          [op |-> "spent", keys |-> {a, co}, bulk |-> TRUE]}

MCFind(b, ad, t, ap) == [op |-> "find", bundles |-> b, addresses |-> ad, tags |-> t, approvees |-> ap]

MCQueries ==
    {[op |-> "load", key |-> tx0, model |-> x] : x \in {"all", "essence_metadata",
        "essence_attachment_metadata", "essence_consensus", "metadata"}}
    \cup {MCFind(<<"b">>, <<a>>, <<>>, <<>>), MCFind(<<>>, <<>>, <<"x", "y">>, <<tx1, tx0>>)}
    \cup {[op |-> o, key |-> k] : o \in {"exist", "milestone_exist"}, k \in {"any", tx0}}
    \cup {[op |-> "by_address", key |-> a], [op |-> "approvers", key |-> tx1, before |-> 0],
          [op |-> "approvers", key |-> tx1, before |-> 1], [op |-> "candidates"],
          [op |-> "count"], [op |-> "approvers_count", key |-> tx1], [op |-> "milestone", key |-> tx0],
          [op |-> "milestone_by_index", index |-> 3], [op |-> "milestone_first"],
          [op |-> "milestone_last"], [op |-> "milestone_next", index |-> 0],
          [op |-> "state_delta", index |-> 2], [op |-> "spent_exist", key |-> a]}

\* The tables, the clock, the calls and the answers are those of storage.h.
Abstract == INSTANCE Storage WITH db <- db, now <- now, call <- call, answer <- answer

\* A call finds the statement it executes prepared, and a connection that is
\* destroyed has finalized every one.
StatementsReady == \A c \in Connection :
    /\ call[c] # Idle /\ call[c].op # "find" => StatementOf(call[c]) \in statements[c]
    /\ pc[c] = "destroyed" => statements[c] = {}

\* storage.h, for both backends: SqlStorage implements Storage, and no call
\* runs into a statement that is not prepared.
ImplementsStorage == Abstract!Spec /\ []StatementsReady
-----------------------------------------------------------------------------
counter == <<ctr, number, wrapped>>
array == <<e, cells, trits, changes>>
sponges == <<writer, reader, agreed, spongeCalls>>
signed == <<hash, leaves>>
algorithms == <<counter, array, transactionVars, tree, sponges, troikaVars, signed, minerVars, powVars>>
vars == <<part, sqlVars, algorithms>>

MCTryteValues == {-13, 2, 13}
MCTargets == {<<"hashcash", 1>>, <<"hashcash", 3>>, <<"hamming", 1>>, <<"hamming", 2>>}
MCBlocks == {<<0, 1, -1>>, <<1, 1, 1>>}
MCRoundConstant(r, s, c) == (r + s * s + c * s + c) % 3

\* A part that the behaviour is not about.
NoStorage ==
    /\ backend = "none" /\ db = Started /\ now = 1
    /\ call = [c \in Connection |-> Idle] /\ answer = [c \in Connection |-> Idle]
    /\ pc = [c \in Connection |-> "none"] /\ statements = [c \in Connection |-> {}]
    /\ todo = [c \in Connection |-> {}] /\ done = [c \in Connection |-> {}]
    /\ pack = [c \in Connection |-> NoPack] /\ calls = 0 /\ faults = 0
NoCounter == number = 0 /\ ctr = Zeros(Width) /\ wrapped = 0
NoArray == cells = <<>> /\ trits = <<>> /\ changes = 0
NoTransaction == tx = <<>> /\ packet = <<>> /\ written = FALSE
NoTree == tree = MssGen(MssCreate(<<1>>, 0))
NoSponges == StartSpongos
NoTroika == plain = <<>> /\ sliced = <<>> /\ sameHash = TRUE /\ troikaCalls = 0
NoSigned == hash = <<>> /\ leaves = 0
NoMiner ==
    /\ mining = [at |-> "end"] /\ ctxs = [t \in Threads |-> NewCtx]
    /\ found = FALSE /\ score = <<>> /\ result = [ret |-> "none"]
NoPow == job = [at |-> "none"] /\ insts = <<>> /\ overall = "none"

Parts == {"storage", "counter", "array", "transaction", "tree", "sponge", "spongos", "troika", "signed",
          "miner", "pow"}

Init ==
    /\ part \in Parts
    /\ IF part = "storage" THEN SqlInit ELSE NoStorage
    /\ IF part = "counter" THEN TrinaryInit ELSE NoCounter
    /\ IF part = "transaction" THEN TransactionInit ELSE NoTransaction
    /\ IF part = "array" THEN FlexInit ELSE NoArray
    /\ part \notin {"array", "transaction"} => e = 1
    /\ IF part = "tree" THEN tree \in {MssGen(MssCreate(<<1>>, h)) : h \in Heights} ELSE NoTree
    /\ CASE part = "sponge" -> StartSponge [] part = "spongos" -> StartSpongos [] OTHER -> NoSponges
    /\ IF part = "troika" THEN TroikaInit ELSE NoTroika
    /\ IF part = "signed" THEN SignaturesInit ELSE NoSigned
    /\ IF part = "miner" THEN MinerInit ELSE NoMiner
    /\ IF part = "pow" THEN PowInit ELSE NoPow

\* The tree goes on to its next key, or is saved and loaded.
Sign == tree' = MssNext(tree)
Reload == MssReadable(MssSerialize(tree)) /\ tree' = MssDeserialize(MssSerialize(tree))

Algorithm ==
    /\ UNCHANGED signed
    /\ IF part = "counter" THEN Count ELSE UNCHANGED counter
    /\ CASE part = "array" -> FlexNext /\ UNCHANGED transactionVars
         [] part = "transaction" -> TransactionNext /\ UNCHANGED <<cells, trits, changes>>
         [] OTHER -> UNCHANGED <<array, transactionVars>>
    /\ IF part = "tree" THEN Sign \/ Reload ELSE UNCHANGED tree
    /\ CASE part = "sponge" -> SpongeNext [] part = "spongos" -> SpongosNext
         [] OTHER -> UNCHANGED sponges
    /\ IF part = "troika" THEN TroikaNext ELSE UNCHANGED troikaVars
    /\ IF part = "miner" THEN MinerNext ELSE UNCHANGED minerVars
    /\ IF part = "pow" THEN PowNext ELSE UNCHANGED powVars

Next ==
    /\ UNCHANGED part
    /\ \/ part = "storage" /\ SqlNext /\ UNCHANGED algorithms
       \/ part # "storage" /\ Algorithm /\ UNCHANGED sqlVars

Spec == Init /\ [][Next]_vars /\ SqlFairness
-----------------------------------------------------------------------------
\* Every call returns, also when two bulk writes wait for each other's rows.
CallsReturn == \A c \in Connection : []<>(call[c] = Idle)

\* The step by step traversal of a signature tree is right at every key, also
\* after any saves and loads on the way: TraversalIsExact of Mss.
TreeIsTraversed == TraversalIsExact(tree)

\* trits.c, flex_trit.c, the conversions and transaction.c: sums are exact or
\* reported to overflow, every form reads back to the same trits, equal contents
\* have equal bytes, and a packet is written as it was read (AdditionIsExact,
\* FormsReadBack, PackedFormIsUnique, ConversionsAgree, FieldsReadBack,
\* PacketsAreKept, WeightCountsZeros).
CodecsAreExact ==
    /\ part = "counter" => AdditionIsExact /\ FormsReadBack
    /\ part = "array" => PackedFormIsUnique /\ ConversionsAgree
    /\ part = "transaction" => FieldsReadBack /\ PacketsAreKept /\ WeightCountsZeros

\* sponge.c, spongos.c, ftroika.c: a reader's sponge follows the writer's, and
\* the sliced form of the permutation below it gives what the plain one does
\* (ReaderFollowsWriter, FastIsPlain).
SpongesAgree ==
    /\ ReaderFollowsWriter
    /\ part = "troika" => FastIsPlain

\* iss.c, merkle.c, mss_traversal.c: a signature is of one hash only, every
\* branch leads to the root, and every key of a tree has its path
\* (SignaturesAreOfOneHash, BranchesLeadToTheRoot, TreeIsTraversed).
SignaturesVerify ==
    /\ part = "signed" => SignaturesAreOfOneHash /\ BranchesLeadToTheRoot
    /\ part = "tree" => TreeIsTraversed

\* bundle_miner.c, pearl_diver.c: threads that share a search report what the
\* search was for (MinedIsBest, NonceIsRight).
SearchesAreRight == MinedIsBest /\ NonceIsRight
=============================================================================
