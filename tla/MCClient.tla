------------------------------ MODULE MCClient ------------------------------
(***************************************************************************)
(* The programs around the node, one of them in each behaviour.            *)
(*                                                                         *)
(* The client calls a node that holds one deposit on the first address of  *)
(* the account and one attached bundle of two transactions.                *)
(*                                                                         *)
(* The MAM sender and receiver have small trees: every key of a tree can   *)
(* be used up, a message can be lost, cut, repeated or overtaken, and the  *)
(* sender can restart from its file between any two calls.                 *)
(***************************************************************************)
EXTENDS Client, Mam

CONSTANTS Jobs          \* the names of the calls made

VARIABLE part

vars == <<part, clientVars, mamVars>>

MCTrusts == {ChannelCreate(0, h).mss.root : h \in Height}
MCPsks == {<<"p">>}
MCSks == {<<"n">>}
MCRecipients ==
    {<<>>, <<<<"psk", <<"q">>>>, <<"psk", <<"p">>>>, <<"ntru", <<"m">>>>, <<"ntru", <<"n">>>>>>}

Other == AddressGen("other", 0, 1)
Mine(i) == AddressGen(Seed, i, 1)
Transfer(value, chunks) == [address |-> Other, value |-> value, chunks |-> chunks, tag |-> 1]
Input(i, balance) == [address |-> Mine(i), balance |-> balance, key_index |-> i, security |-> 1]
Secure(i) == AddressGen(Seed, i, 2)
SecureInput(i, balance) == [address |-> Secure(i), balance |-> balance, key_index |-> i, security |-> 2]
Tips == <<<<"t">>, <<"b">>>>

Attachment ==
    LET b == BundleFinalize(BundleResetIndexes(
                 AddTransactionEntry(<<>>, 2, Other, 0, 0)))
    IN  PowBundle(b, Tips[1], Tips[2], 0).val
TailHash == HashOf(Attachment[1])

Job(kind) ==
    [kind |-> kind, security |-> 1, transfers |-> <<>>, inputs |-> <<>>, remainder |-> <<>>,
     reference |-> <<>>, tail |-> TailHash, local_pow |-> FALSE, start |-> 0, total |-> 2,
     uris |-> <<"u", "bad", "v">>]

Started(name) ==
    CASE name = "send" -> Start([Job("send") EXCEPT !.transfers = <<Transfer(2, 1)>>], "prepare", "")
      [] name = "send_inputs" ->
            Start([Job("send") EXCEPT !.transfers = <<Transfer(0, 2), Transfer(2, 1)>>,
                                      !.inputs = <<Input(1, 0), Input(0, 3)>>,
                                      !.remainder = <<Mine(2)>>, !.local_pow = TRUE], "prepare", "")
      [] name = "send_exact" ->
            Start([Job("send") EXCEPT !.transfers = <<Transfer(3, 1)>>,
                                      !.inputs = <<Input(0, 3)>>, !.security = 1], "prepare", "")
      [] name = "promote" ->
            Start([Job("promote") EXCEPT !.transfers = <<Transfer(0, 2)>>,
                                         !.reference = <<TailHash>>], "consistency", "")
      [] name = "is_promotable" -> Start(Job("is_promotable"), "consistency", "")
      [] name \in {"replay", "get_bundle", "broadcast_bundle"} -> Start(Job(name), "trytes", "")
      [] name = "inclusion" -> Start(Job("inclusion"), "info", "")
      [] name = "objects" -> Start(Job("objects"), "find_objects", "")
      [] name = "new_address" -> Start(Job("new_address"), "spent", "new")
      [] name = "unspent" -> Start(Job("unspent"), "spent", "unspent")
      [] name \in {"add_neighbors", "remove_neighbors", "get_neighbors", "get_tips"} ->
            Start(Job(name), "core", "")
      [] name = "send_secure" ->
            Start([Job("send") EXCEPT !.transfers = <<Transfer(4, 2)>>, !.security = 2,
                                      !.inputs = <<SecureInput(0, 2), SecureInput(1, 3)>>,
                                      !.remainder = <<Mine(2)>>], "prepare", "")
      [] name = "account" -> Start(Job("account"), "spent", "account")

Deposit == [TransactionReset EXCEPT !.address = Mine(0), !.value = 3, !.nonce = -2]

Node(iri, kept) ==
    [tx |-> kept \cup ToSet(Attachment), spent |-> {}, confirmed |-> {HashOf(tx) : tx \in kept},
     solid |-> {HashOf(tx) : tx \in kept \cup ToSet(Attachment)}, conflicting |-> {},
     balances |-> [a \in {Mine(0), Secure(0), Secure(1)} |-> IF a = Secure(0) THEN 2 ELSE 3], index |-> 1, milestone |-> <<"m">>,
     tips |-> Tips, synced |-> TRUE, stage |-> {}, attached |-> 0, up |-> TRUE,
     neighbors |-> {"u"}, requested |-> {}, iri |-> iri]

Spending == [TransactionReset EXCEPT !.address = Mine(0), !.value = -3, !.nonce = -3]

ClientInit ==
    /\ \E name \in Jobs : cl = Started(name)
    /\ \E iri \in BOOLEAN, s \in {{Deposit}, {Deposit, Spending}} :
          /\ cl.job.kind \in {"send"} => s = {Deposit}
          /\ node = Node(iri, s)
    /\ faults = MaxFaults
    /\ events = MaxEvents

\* The part that the behaviour is not about.
NoClient ==
    /\ cl = [pc |-> "crashed", job |-> [kind |-> "none"]]
    /\ node = [iri |-> FALSE, tx |-> {}]
    /\ faults = 0 /\ events = 0
NoMam ==
    /\ snd = Down /\ rcv = Down /\ bundle = <<>> /\ tangle = {} /\ file = NoFile
    /\ read = [rc |-> "none", sound |-> FALSE] /\ ghost = NoHistory

Init ==
    \/ part = "client" /\ ClientInit /\ NoMam
    \/ part = "mam" /\ MamInit /\ NoClient

\* The receiver has nothing left to read, or has read MaxReads times.
MamOver == snd = Down /\ (tangle = {} \/ ghost.reads = MaxReads) /\ UNCHANGED mamVars

Next ==
    /\ UNCHANGED part
    /\ \/ part = "client" /\ ClientNext /\ UNCHANGED mamVars
       \/ part = "mam" /\ (MamNext \/ MamOver) /\ UNCHANGED clientVars

Spec == Init /\ [][Next]_vars /\ ClientFairness
-----------------------------------------------------------------------------
\* send_trytes.c, http.c: what a call reports as sent is on the node, as one
\* valid bundle, and is attached and stored once however often a request is
\* repeated (SentIsOnTheNode, SentOnce).
SentExactlyOnce == SentIsOnTheNode /\ SentOnce

\* mam/api/api.c: what is delivered as authentic was written there, and what
\* should be readable is read (AuthenticatedIsWritten, SoundReadsSucceed).
ReadersGetWhatWasWritten == AuthenticatedIsWritten /\ SoundReadsSucceed

\* mam/api/api.c, mss_traversal.c: no one-time key and no keystream is used
\* for two texts unless a restart lost state, and a load brings back what was
\* saved (FreshUnlessStale, LoadRestores).
SenderStaysFresh == FreshUnlessStale /\ LoadRestores
=============================================================================
