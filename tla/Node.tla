-------------------------------- MODULE Node --------------------------------
(***************************************************************************)
(* The life of a node's pipeline: node_start spawns one thread per stage,  *)
(* SIGINT makes main stop and join them one after the other, and the       *)
(* stages are destroyed when that is done, or when one could not be        *)
(* started.  What a stage does with an item is the business of Gossip; here *)
(* are its queue, its condition variable and its thread.                   *)
(*                                                                         *)
(* A thread that finds its queue empty waits on the condition variable     *)
(* with a lock of its own, so whoever adds an item or stops the stage can  *)
(* signal between the two.                                                 *)
(***************************************************************************)
EXTENDS Naturals, FiniteSets, Sequences, SequencesExt

CONSTANTS
    Order,       \* the stages in the order of node_start and node_stop
    Entry,       \* the stage the router and the API add to
    Feeds,       \* the stage a stage passes items on to, or None
    None,
    Batch,       \* how many items a stage works on at once
    Chatter,     \* whether other items keep coming
    MaxItems, MaxQueue, MaxFailures

Stages == ToSet(Order)

ASSUME NodeAssumption ==
    /\ IsInjective(Order) /\ Entry \in Stages
    /\ Feeds \in [Stages -> Stages \cup {None}] /\ None \notin Stages
    /\ Batch \in [Stages -> Nat \ {0}]
    /\ Chatter \in BOOLEAN /\ MaxItems \in Nat /\ MaxQueue \in Nat /\ MaxFailures \in Nat

VARIABLES
    running,     \* stage.running
    queue,       \* stage.queue
    at,          \* where the stage's thread is, or "none"
    hand,        \* the items the thread works on
    doing,       \* what main does, ...
    nth,         \* ... and to which stage of Order
    destroyed,   \* the stages that are destroyed
    caches,      \* whether tips and recent_seen_bytes exist
    added,       \* items added from outside, which are numbered
    finished,    \* items that have left the pipeline, in order
    failures

nodeVars == <<running, queue, at, hand, doing, nth, destroyed, caches, added, finished, failures>>
threads == <<queue, at, hand>>
stage == Order[nth]

NodeInit ==
    /\ running = [s \in Stages |-> FALSE]
    /\ queue = [s \in Stages |-> <<>>]
    /\ at = [s \in Stages |-> "none"]
    /\ hand = [s \in Stages |-> <<>>]
    /\ doing = "start" /\ nth = 1
    /\ destroyed = {} /\ caches = TRUE
    /\ added = 0 /\ finished = <<>> /\ failures = 0
-----------------------------------------------------------------------------
(* The thread of a stage.                                                  *)

\* Queues have no limit; MaxQueue other items stand for any number of them.
Push(q, item) == IF item = 0 /\ Len(q) >= MaxQueue THEN q ELSE Append(q, item)

\* The hasher tests the flag in its inner loops too.
Abandons(s) == Batch[s] > 1 /\ ~running[s]

Signalled(s) == IF at[s] = "waiting" THEN "loop" ELSE at[s]

\* while (running)
Loop(s) ==
    /\ at[s] = "loop"
    /\ at' = [at EXCEPT ![s] = IF running[s] THEN "pop" ELSE "done"]
    /\ UNCHANGED <<running, queue, hand, doing, nth, destroyed, caches, added, finished, failures>>

\* A faulty variant of Pop: takes the entry that came last.
PopLast(s) ==
    /\ at[s] = "pop"
    /\ IF queue[s] # <<>> /\ Len(hand[s]) < Batch[s]
       THEN /\ hand' = [hand EXCEPT ![s] = Append(@, Last(queue[s]))]
            /\ queue' = [queue EXCEPT ![s] = Front(@)]
            /\ at' = [at EXCEPT ![s] = IF Batch[s] = 1 THEN "work" ELSE "pop"]
       ELSE /\ at' = [at EXCEPT ![s] = IF hand[s] = <<>> THEN "idle" ELSE "work"]
            /\ UNCHANGED <<queue, hand>>
    /\ UNCHANGED <<running, doing, nth, destroyed, caches, added, finished, failures>>

\* A stage takes one entry; the hasher takes as many as there are and it can
\* hash at once, and looks at the flag each time.
Pop(s) ==
    /\ at[s] = "pop"
    /\ \/ /\ Abandons(s)
          /\ at' = [at EXCEPT ![s] = "done"] /\ hand' = [hand EXCEPT ![s] = <<>>]
          /\ UNCHANGED queue
       \/ /\ ~Abandons(s) /\ queue[s] # <<>> /\ Len(hand[s]) < Batch[s]
          /\ hand' = [hand EXCEPT ![s] = Append(@, Head(queue[s]))]
          /\ queue' = [queue EXCEPT ![s] = Tail(@)]
          /\ at' = [at EXCEPT ![s] = IF Batch[s] = 1 THEN "work" ELSE "pop"]
       \/ /\ ~Abandons(s) /\ (queue[s] = <<>> \/ Len(hand[s]) = Batch[s])
          /\ at' = [at EXCEPT ![s] = IF hand[s] = <<>> THEN "idle" ELSE "work"]
          /\ UNCHANGED <<queue, hand>>
    /\ UNCHANGED <<running, doing, nth, destroyed, caches, added, finished, failures>>

\* cond_handle_wait
Wait(s) ==
    /\ at[s] = "idle"
    /\ at' = [at EXCEPT ![s] = "waiting"]
    /\ UNCHANGED <<running, queue, hand, doing, nth, destroyed, caches, added, finished, failures>>

\* A thread hands an item to the queue of the next stage and signals it; the
\* hasher gives up what it has in hand when it is told to stop.
Work(s) ==
    /\ at[s] = "work"
    /\ LET item == Head(hand[s])
           next == Feeds[s]
           left == IF Abandons(s) THEN <<>> ELSE Tail(hand[s])
           then == [at EXCEPT ![s] = IF left = <<>> THEN "loop" ELSE "work"]
       IN  /\ hand' = [hand EXCEPT ![s] = left]
           /\ IF next = None \/ Abandons(s)
              THEN /\ finished' = IF item = 0 \/ Abandons(s) THEN finished
                                  ELSE Append(finished, item)
                   /\ at' = then
                   /\ UNCHANGED queue
              ELSE /\ queue' = [queue EXCEPT ![next] = Push(@, item)]
                   /\ at' = [then EXCEPT ![next] = Signalled(next)]
                   /\ UNCHANGED finished
    /\ UNCHANGED <<running, doing, nth, destroyed, caches, added, failures>>
-----------------------------------------------------------------------------
(* The router and the API add items until they are stopped, which node_stop *)
(* does after the stages.                                                  *)

\* A faulty variant of Add: does not signal the thread.
AddQuietly(item) ==
    /\ doing \in {"run", "stop", "join"}
    /\ queue' = [queue EXCEPT ![Entry] = Push(@, item)]
    /\ UNCHANGED at

\* processor_stage_add
Add(item) ==
    /\ doing \in {"run", "stop", "join"}
    /\ queue' = [queue EXCEPT ![Entry] = Push(@, item)]
    /\ at' = [at EXCEPT ![Entry] = Signalled(Entry)]

AddNew ==
    /\ added < MaxItems
    /\ added' = added + 1
    /\ Add(added + 1)
    /\ UNCHANGED <<running, hand, doing, nth, destroyed, caches, finished, failures>>

AddOther ==
    /\ Chatter
    /\ Add(0)
    /\ UNCHANGED <<running, hand, doing, nth, destroyed, caches, added, finished, failures>>
-----------------------------------------------------------------------------
(* main                                                                    *)

\* One stage of node_start.
StartStage ==
    /\ doing = "start"
    /\ running' = [running EXCEPT ![stage] = TRUE]
    /\ \/ /\ at' = [at EXCEPT ![stage] = "loop"]
          /\ doing' = IF nth = Len(Order) THEN "run" ELSE "start"
          /\ nth' = IF nth = Len(Order) THEN 1 ELSE nth + 1
          /\ UNCHANGED failures
       \/ /\ failures < MaxFailures
          /\ failures' = failures + 1
          /\ doing' = "destroy" /\ nth' = 1
          /\ UNCHANGED at
    /\ UNCHANGED <<queue, hand, destroyed, caches, added, finished>>

\* ciri_stop, on main's own thread, which was asleep
InterruptMain ==
    /\ doing = "run"
    /\ doing' = "stop"
    /\ UNCHANGED <<running, threads, nth, destroyed, caches, added, finished, failures>>

\* One stage of node_stop: the flag, the signal, ...
StopStage ==
    /\ doing = "stop"
    /\ running' = [running EXCEPT ![stage] = FALSE]
    /\ at' = [at EXCEPT ![stage] = Signalled(stage)]
    /\ doing' = "join"
    /\ UNCHANGED <<queue, hand, nth, destroyed, caches, added, finished, failures>>

\* ... and thread_handle_join.
JoinStage ==
    /\ doing = "join"
    /\ at[stage] = "done"
    /\ doing' = IF nth = Len(Order) THEN "destroy" ELSE "stop"
    /\ nth' = IF nth = Len(Order) THEN 1 ELSE nth + 1
    /\ UNCHANGED <<running, threads, destroyed, caches, added, finished, failures>>

\* One stage of node_destroy; a running one answers RC_STILL_RUNNING ...
DestroyStage ==
    /\ doing = "destroy" /\ nth <= Len(Order)
    /\ IF running[stage]
       THEN UNCHANGED <<destroyed, queue>>
       ELSE /\ destroyed' = destroyed \cup {stage}
            /\ queue' = [queue EXCEPT ![stage] = <<>>]
    /\ nth' = nth + 1
    /\ UNCHANGED <<running, at, hand, doing, caches, added, finished, failures>>

\* ... and the caches of the node go in any case.
DestroyCaches ==
    /\ doing = "destroy" /\ nth > Len(Order) /\ caches
    /\ caches' = FALSE
    /\ UNCHANGED <<running, threads, doing, nth, destroyed, added, finished, failures>>

\* main returns, which ends every thread.
Exit ==
    /\ doing = "destroy" /\ ~caches
    /\ doing' = "end" /\ nth' = 1
    /\ at' = [s \in Stages |-> "none"]
    /\ UNCHANGED <<running, queue, hand, destroyed, caches, added, finished, failures>>
-----------------------------------------------------------------------------
StageThread(s) == Loop(s) \/ Pop(s) \/ Wait(s) \/ Work(s)
MainThread == StartStage \/ StopStage \/ JoinStage \/ DestroyStage \/ DestroyCaches \/ Exit

NodeNext == MainThread \/ InterruptMain \/ AddNew \/ AddOther \/ \E s \in Stages : StageThread(s)

\* Every thread gets to run, and other items keep coming.
NodeFairness ==
    WF_nodeVars(MainThread) /\ WF_nodeVars(AddOther) /\ \A s \in Stages : WF_nodeVars(StageThread(s))

-----------------------------------------------------------------------------
StageAlive(s) == at[s] \notin {"none", "done"}

\* A stage is destroyed only when its own thread and the threads that add to
\* its queue are gone, even if the node could not be started.
StagesOutliveUsers ==
    \A s \in Stages : StageAlive(s) => s \notin destroyed /\ Feeds[s] \notin destroyed

\* The stages' threads use the caches of the node, which are destroyed after
\* the last thread ended, provided that every stage could be started.
CachesOutliveUsers ==
    ~caches /\ failures = 0 => \A s \in Stages : ~StageAlive(s)

\* Where an item is on its way: the stages from Entry on.
Path[s \in Stages \cup {None}] == IF s = None THEN <<>> ELSE <<s>> \o Path[Feeds[s]]

\* Items are never doubled nor overtaken on their way through the stages, and
\* none is lost while the node runs.
ItemsKeepOrder ==
    LET there == Reverse(Path[Entry])
        onTheWay == FlattenSeq([i \in DOMAIN there |-> hand[there[i]] \o queue[there[i]]])
        items == SelectSeq(finished \o onTheWay, LAMBDA x : x # 0)
    IN  /\ \A i, j \in DOMAIN items : i < j => items[i] < items[j]
        /\ doing = "run" => Len(items) = added

\* processor.c: "Continuously looks for a packet from a processor packet queue
\* and process it".  The items that were added get through while the node runs.
ItemsGetThrough ==
    added > Len(finished) ~> (added = Len(finished) \/ doing # "run")
=============================================================================
