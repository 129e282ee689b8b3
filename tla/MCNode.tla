------------------------------- MODULE MCNode -------------------------------
(***************************************************************************)
(* The parts of the node around the tangle, one of them in each behaviour: *)
(* the link of two neighbors, the reader of packets, the stages of the     *)
(* pipeline, the life of the process from its arguments to its end, and a  *)
(* request for tips.                                                       *)
(*                                                                         *)
(* The pipeline has three stages: packets go from the processor to the     *)
(* hasher to the validator.  The request meets milestone m, the latest,    *)
(* which confirms what it approves; old was confirmed long before.  The    *)
(* others approve m: bundle b of three transactions, two transfers of the  *)
(* same funds, the second of which approves two transactions of b, and     *)
(* late, whose trunk is old.                                               *)
(***************************************************************************)
EXTENDS Router, Node, Lifecycle, TipSelection

CONSTANTS x, y, m, old, b0, b1, b2, pay, repay, late, Parts

VARIABLE part

vars == <<part, routerVars, readerVars, nodeVars, lifecycleVars, tipVars>>

PipelineOrder == <<"hasher", "validator", "processor">>
PipelineBatch == [s \in ToSet(PipelineOrder) |-> IF s = "hasher" THEN 2 ELSE 1]
PipelineFeeds == [hasher |-> "validator", validator |-> None, processor |-> "hasher"]

MCAddress == {x, y}
MCTx == {m, old, b0, b1, b2, pay, repay, late}

MCTrunk == [t \in MCTx |-> CASE t = b0 -> b1 [] t = b1 -> b2 [] t = repay -> b0
                             [] t = late -> old [] t \in {m, old} -> Genesis [] OTHER -> m]
MCBranch == [t \in MCTx |-> CASE t = repay -> b2 [] t \in {m, old} -> Genesis [] OTHER -> m]
MCParents == [t \in MCTx |-> {MCTrunk[t], MCBranch[t]} \ {Genesis}]
MCCurrentIndex == [t \in MCTx |-> CASE t = b1 -> 1 [] t = b2 -> 2 [] OTHER -> 0]
MCBundleOf == [t \in MCTx |-> IF t \in {b0, b1, b2} THEN b0 ELSE t]
MCSnapshotIndex == [t \in MCTx |-> CASE t = m -> 3 [] t = old -> 1 [] OTHER -> 0]
MCMilestoneAt == [i \in 1..4 |-> IF i = 3 THEN m ELSE NoTx]
MCValue == [t \in MCTx |-> [z \in MCAddress |->
                IF t \notin {pay, repay} THEN 0 ELSE IF z = x THEN -2 ELSE 2]]
MCLedger == [z \in MCAddress |-> IF z = x THEN 2 ELSE 0]

\* A part that the behaviour is not about: nothing of it is there to take a step.
NoRouter ==
    /\ dialers = {} /\ calm = FALSE
    /\ state = [n \in Nodes |-> "handshaking"] /\ stream = [n \in Nodes |-> 0]
    /\ end = [e \in ConnEnds |-> "none"] /\ data = [e \in ConnEnds |-> FALSE]
    /\ inbox = [e \in ConnEnds |-> <<>>]
    /\ linkFails = 0 /\ restarts = 0 /\ resets = 0
NoReader == packets = <<>> /\ wire = <<>> /\ piece = <<>> /\ buffer = <<>> /\ handed = <<>>
NoPipeline ==
    /\ running = [s \in Stages |-> FALSE] /\ queue = [s \in Stages |-> <<>>]
    /\ at = [s \in Stages |-> "none"] /\ hand = [s \in Stages |-> <<>>]
    /\ doing = "end" /\ nth = 1 /\ destroyed = {} /\ caches = FALSE
    /\ added = 0 /\ finished = <<>> /\ failures = 0
NoLifecycle ==
    /\ setup = [phase |-> "used"] /\ conf = [snapshots |-> FALSE, pruning |-> FALSE]
    /\ main = "end" /\ step = 1 /\ handler = 0 /\ ready = {} /\ flag = {}
    /\ thread = [t \in Threads |-> "none"] /\ held = {} /\ orderly = TRUE /\ fails = 0

\* The nodes are alike; when both of them dial, reads and timers are calm.
FewLinks == 1 \in dialers /\ (dialers = Nodes => calm)

\* A second argument follows the file of settings or repeats the option of the
\* first; without a snapshot's file main takes one argument.
FewSettings ==
    Len(setup.args) = 2 =>
        setup.json # 0 /\ setup.args[1].key \in {"config", setup.args[2].key}

Init ==
    /\ part \in Parts
    /\ IF part = "router" THEN RouterInit /\ FewLinks ELSE NoRouter
    /\ IF part = "reader" THEN ReaderInit ELSE NoReader
    /\ IF part = "pipeline" THEN NodeInit ELSE NoPipeline
    /\ IF part = "lifecycle" THEN LifecycleInit /\ FewSettings ELSE NoLifecycle
    /\ TipInit

Next ==
    /\ UNCHANGED part
    /\ \/ /\ part = "router" /\ RouterNext
          /\ UNCHANGED <<readerVars, nodeVars, lifecycleVars, tipVars>>
       \/ /\ part = "reader" /\ ReaderNext
          /\ UNCHANGED <<routerVars, nodeVars, lifecycleVars, tipVars>>
       \/ /\ part = "pipeline" /\ NodeNext
          /\ UNCHANGED <<routerVars, readerVars, lifecycleVars, tipVars>>
       \/ /\ part = "lifecycle" /\ LifecycleNext
          /\ UNCHANGED <<routerVars, readerVars, nodeVars, tipVars>>
       \/ /\ part = "tips" /\ TipNext
          /\ UNCHANGED <<routerVars, readerVars, nodeVars, lifecycleVars>>

Fairness == RouterFairness /\ NodeFairness /\ LifecycleFairness
Spec == Init /\ [][Next]_vars /\ Fairness
-----------------------------------------------------------------------------
\* router.c: a neighbor that is ready has a stream, which is open, and the
\* packets its bytes make up are handed on whole, in order and once, however
\* TCP cuts them (ReadyHasStream, StreamIsOpen, NothingIsLost).
RouterIsSound == ReadyHasStream /\ StreamIsOpen /\ NothingIsLost

\* main.c, conf.c: the last text given for a setting is the one in use, and
\* two parts of the node never use different copies of it (LastGivenHolds,
\* CopiesAgree).
SettingsHold == LastGivenHolds /\ CopiesAgree

\* main.c, core.c, node.c, consensus.c: what the threads use is destroyed
\* after them, and nothing that was initialised is left (StagesOutliveUsers,
\* CachesOutliveUsers, UsersGoFirst, EverythingIsReleased).
TeardownIsOrderly ==
    StagesOutliveUsers /\ CachesOutliveUsers /\ UsersGoFirst /\ EverythingIsReleased

\* tip_selector.c and what it calls: ratings count the approvers, exit
\* probabilities add up, the tips approve where their walks started, and tips
\* that were accepted are consistent as a pair, while transactions arrive.
TipsAreSound ==
    RatingsAreExact /\ ExitProbabilitiesAddUp /\ TipsApproveTheStart /\ AcceptedTipsAreConsistent
=============================================================================
