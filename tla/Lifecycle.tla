----------------------------- MODULE Lifecycle -----------------------------
(***************************************************************************)
(* The life of the ciri process: main puts the settings together (module   *)
(* Configuration), initialises every component in order, starts those that *)
(* have threads, logs the sizes of the queues every few seconds, and       *)
(* destroys everything at the end.  SIGINT is handled on the thread of     *)
(* main, wherever it is: the handler stops the components and joins their  *)
(* threads, then main goes on.                                             *)
(*                                                                         *)
(* Any initialisation, start, or count of the stored transactions may      *)
(* fail.  A thread may end early because it cannot open the database.  A   *)
(* thread that waits without a timeout misses a signal sent between its    *)
(* last look at the flag and its wait: Node shows that step by step.       *)
(***************************************************************************)
EXTENDS Configuration, FiniteSets

CONSTANT MaxFails

VARIABLES
    conf,      \* the settings that decide what is started
    main,      \* what main does, ...
    step,      \* ... and at which component of the list in question
    handler,   \* the step of ciri_stop, 0 when no signal is handled
    ready,     \* the components that are initialised and not destroyed
    flag,      \* the components whose running is true
    thread,    \* the threads
    held,      \* the components whose lock main holds to read a size
    orderly,   \* the start was not interrupted, and nothing failed but an early thread
    fails

lifecycle == <<conf, main, step, handler, ready, flag, thread, held, orderly, fails>>
lifecycleVars == <<setup, lifecycle>>
-----------------------------------------------------------------------------
(* The lists of components, in the order of the code.                      *)

iota_consensus_init ==
    << "bundle_validator", "cw_rating", "entry_point_selector", "ep_randomizer",
       "snapshots_provider", "transaction_solidifier", "milestone_tracker",
       "tip_selector", "transaction_validator", "milestone_service",
       "ledger_validator", "snapshots_service", "pruning_service",
       "local_snapshots_manager", "spent_addresses_service" >>

node_init ==
    << "broadcaster", "hasher", "validator", "processor", "responder",
       "tips_requester", "transaction_requester", "tips", "recent_seen_bytes", "router" >>

main_init == <<"storage", "tangle">>
core_init == iota_consensus_init \o node_init
ciri_init == core_init \o <<"api", "http">>

Uninitialised == IF conf.pruning THEN {} ELSE {"pruning_service"}
Enabled(list) == SelectSeq(list, LAMBDA c : c \notin Uninitialised)
InitOrder == Enabled(main_init \o ciri_init)

\* The manager starts and stops its pruning service.
local_snapshots_manager_start ==
    IF conf.snapshots THEN Enabled(<<"local_snapshots_manager", "pruning_service">>) ELSE <<>>

local_snapshots_manager_stop == Reverse(local_snapshots_manager_start)

iota_consensus_start ==
    <<"milestone_tracker", "transaction_solidifier">> \o local_snapshots_manager_start

\* router is last; "node" and "core" are the flags of node_t and core_t
node_start ==
    <<"broadcaster", "hasher", "validator", "processor", "responder",
      "tips_requester", "router", "node">>

StartOrder == iota_consensus_start \o node_start \o <<"core", "http">>

iota_consensus_stop ==
    <<"milestone_tracker", "transaction_solidifier">> \o local_snapshots_manager_stop

node_stop ==
    <<"node", "broadcaster", "hasher", "validator", "processor", "responder",
      "tips_requester", "router">>

StopOrder == <<"http", "core">> \o node_stop \o iota_consensus_stop

iota_consensus_destroy ==
    << "bundle_validator", "cw_rating", "entry_point_selector", "ep_randomizer",
       "ledger_validator", "milestone_tracker", "transaction_solidifier",
       "tip_selector", "transaction_validator", "pruning_service",
       "local_snapshots_manager", "snapshots_provider", "snapshots_service",
       "milestone_service", "spent_addresses_service" >>

node_destroy ==
    << "router", "transaction_requester", "tips_requester", "broadcaster",
       "hasher", "validator", "processor", "responder", "tips", "recent_seen_bytes" >>

core_destroy == node_destroy \o iota_consensus_destroy

DestroyOrder ==
    Enabled(<<"http", "api">> \o core_destroy \o <<"tangle", "storage">>)
-----------------------------------------------------------------------------
(* The components with threads.  The start of each sets its flag and       *)
(* spawns the threads, its stop clears the flag, signals and joins them,   *)
(* and its destruction is refused while the flag is up.  They differ in    *)
(* their threads, in which of these wait without a timeout                 *)
(* (cond_handle_wait), and in the components the threads use.  "storage"   *)
(* stands for a connection to the database of the thread's own.            *)

Component(threads, untimed, uses) == [threads |-> threads, untimed |-> untimed, uses |-> uses]

Solidifying == {"transaction_solidifier", "transaction_requester", "snapshots_provider", "tips"}
Validating == {"ledger_validator", "bundle_validator", "milestone_tracker", "snapshots_provider"}
Sending == {"router", "transaction_requester"}

milestone_tracker ==
    Component(<<"milestone_validator", "milestone_solidifier">>, {"milestone_validator"},
              Solidifying \cup Validating \cup {"storage"})

transaction_solidifier ==
    Component(<<"transaction_solidifier">>, {}, Solidifying \cup {"storage"})

local_snapshots_manager ==
    Component(<<"local_snapshots_manager">>, {},
              {"snapshots_service", "snapshots_provider", "milestone_service",
               "pruning_service", "storage"})

pruning_service ==
    Component(<<"pruning_service">>, {"pruning_service"},
              {"spent_addresses_service", "tips", "storage"})

broadcaster ==
    Component(<<"broadcaster">>, {"broadcaster"}, Sending \cup {"storage"})

hasher ==
    Component(<<"hasher">>, {"hasher"}, {"validator"})

validator ==
    Component(<<"validator">>, {"validator"},
              Solidifying \cup {"broadcaster", "responder", "storage", "recent_seen_bytes",
                               "transaction_validator", "milestone_tracker"})

processor ==
    Component(<<"processor">>, {"processor"},
              {"hasher", "responder", "recent_seen_bytes", "router"})

responder ==
    Component(<<"responder">>, {"responder"},
              Sending \cup {"tips", "recent_seen_bytes", "storage"})

tips_requester ==
    Component(<<"tips_requester">>, {}, {"router", "storage"})

\* The event loop of libuv; its stop walks the handles and wakes it.
router ==
    Component(<<"router">>, {}, {"processor"})

\* The daemon of libmicrohttpd, which opens the database for a request.
http ==
    Component(<<"http">>, {},
              Solidifying \cup Validating \cup
                {"api", "tip_selector", "router", "processor", "broadcaster",
                 "transaction_validator", "spent_addresses_service"})

Flag == Component(<<>>, {}, {})    \* node_t and core_t

Components ==
    [ milestone_tracker |-> milestone_tracker, transaction_solidifier |-> transaction_solidifier,
      local_snapshots_manager |-> local_snapshots_manager, pruning_service |-> pruning_service,
      broadcaster |-> broadcaster, hasher |-> hasher, validator |-> validator,
      processor |-> processor, responder |-> responder, tips_requester |-> tips_requester,
      router |-> router, http |-> http, node |-> Flag, core |-> Flag ]

Threads ==
    { "milestone_validator", "milestone_solidifier", "transaction_solidifier",
      "local_snapshots_manager", "pruning_service", "broadcaster", "hasher",
      "validator", "processor", "responder", "tips_requester", "router", "http" }

ThreadsOf(c) == Components[c].threads
Owner(t) ==
    IF t \in ToSet(milestone_tracker.threads) THEN "milestone_tracker" ELSE t
Uses(t) == Components[Owner(t)].uses
WaitsUntimed(t) == t \in Components[Owner(t)].untimed
OpensDatabase(t) == "storage" \in Uses(t)

\* The sizes that main logs.
Sized == {"processor", "hasher", "validator", "broadcaster", "transaction_requester", "responder"}

Alive(t) == thread[t] \notin {"none", "done"}
-----------------------------------------------------------------------------
LifecycleInit ==
    /\ ConfigurationInit
    /\ conf = [snapshots |-> FALSE, pruning |-> FALSE]
    /\ main = "conf" /\ step = 1 /\ handler = 0
    /\ ready = {} /\ flag = {}
    /\ thread = [t \in Threads |-> "none"]
    /\ held = {} /\ orderly = TRUE /\ fails = 0

Fail == fails < MaxFails /\ fails' = fails + 1

Advance(list, next) ==
    IF step < Len(list) THEN main' = main /\ step' = step + 1 ELSE main' = next /\ step' = 1

\* main goes on with the settings.  Of these, the two switches of the local
\* snapshots decide what follows; what they were made of is not read again.
UseSettings ==
    /\ main = "conf"
    /\ \/ /\ Configured
          /\ main' = "init"
          /\ conf' = [snapshots |-> setup.conf["consensus.local_snapshots_is_enabled"] = "first",
                      pruning |-> setup.conf["consensus.pruning_is_enabled"] = "first"]
          /\ setup' = [phase |-> "used"]
       \/ /\ setup.phase = "failed"
          /\ main' = "end"
          /\ setup' = [phase |-> "used"]
          /\ UNCHANGED conf
    /\ UNCHANGED <<step, handler, ready, flag, thread, held, orderly, fails>>

\* main, core_init, iota_consensus_init and node_init: the first failure ends
\* the process, and nothing is destroyed.
Initialise ==
    /\ main = "init" /\ handler = 0
    /\ \/ /\ ready' = ready \cup {InitOrder[step]}
          /\ Advance(InitOrder, "start")
          /\ UNCHANGED <<orderly, fails>>
       \/ /\ Fail
          /\ main' = "end" /\ step' = 1 /\ orderly' = FALSE
          /\ UNCHANGED ready
    /\ UNCHANGED <<conf, handler, flag, thread, held>>

\* The start of a component sets its flag, then spawns its threads; when one
\* cannot be spawned ciri_start returns, and main goes to its label destroy.
\* The HTTP server is taken as started even if it could not be.
Start ==
    /\ main = "start" /\ handler = 0
    /\ LET c == StartOrder[step]
           spawned == ThreadsOf(c)
       IN  /\ flag' = flag \cup {c}
           /\ \E n \in 0..Len(spawned) :
                 /\ thread' = [t \in Threads |-> IF \E i \in 1..n : t = spawned[i]
                                                  THEN "alive" ELSE thread[t]]
                 /\ IF n = Len(spawned) THEN UNCHANGED fails ELSE Fail
                 /\ IF n = Len(spawned) \/ c = "http"
                    THEN Advance(StartOrder, "run") /\ UNCHANGED orderly
                    ELSE main' = "destroy" /\ step' = 1 /\ orderly' = FALSE
    /\ UNCHANGED <<conf, handler, ready, held>>

\* A faulty variant of Leave: the loop does not look at the flag.
LeaveOnError ==
    /\ main = "run" /\ handler = 0
    /\ "core" \in flag /\ Fail /\ orderly' = FALSE
    /\ main' = "destroy" /\ step' = 1
    /\ UNCHANGED <<conf, handler, ready, flag, thread, held>>

\* The loop of main ends when the flag of core_t is down, or when the stored
\* transactions cannot be counted: then main destroys without stopping.
Leave ==
    /\ main = "run" /\ handler = 0
    /\ \/ "core" \notin flag /\ UNCHANGED <<orderly, fails>>
       \/ "core" \in flag /\ Fail /\ orderly' = FALSE
    /\ main' = "destroy" /\ step' = 1
    /\ UNCHANGED <<conf, handler, ready, flag, thread, held>>

\* What refuses to be destroyed, with RC_STILL_RUNNING, or whose parent does.
StillRunning(c) ==
    \/ c \in flag
    \/ c \in ToSet(core_destroy) /\ "core" \in flag
    \/ c \in ToSet(node_destroy) /\ "node" \in flag
    \/ c = "pruning_service" /\ "local_snapshots_manager" \in flag

\* A faulty variant of Destroy: does not ask whether the component runs.
DestroyRunning ==
    /\ main = "destroy" /\ handler = 0
    /\ ready' = ready \ {DestroyOrder[step]}
    /\ Advance(DestroyOrder, "end")
    /\ UNCHANGED <<conf, handler, flag, thread, held, orderly, fails>>

\* ciri_destroy and the rest of main: every component is tried.
Destroy ==
    /\ main = "destroy" /\ handler = 0
    /\ ready' = IF StillRunning(DestroyOrder[step]) THEN ready ELSE ready \ {DestroyOrder[step]}
    /\ Advance(DestroyOrder, "end")
    /\ UNCHANGED <<conf, handler, flag, thread, held, orderly, fails>>
-----------------------------------------------------------------------------
(* SIGINT: ciri_stop interrupts main, and does nothing unless core_t runs. *)

\* main may be asleep, or read the size of a queue with its lock held.
Interrupt ==
    /\ main \in {"start", "run", "destroy"} /\ handler = 0 /\ "core" \in flag
    /\ handler' = 1
    /\ held' \in IF main = "run" THEN {{}} \cup {{c} : c \in Sized} ELSE {{}}
    /\ orderly' = (orderly /\ main = "run")
    /\ UNCHANGED <<conf, main, step, ready, flag, thread, fails>>

Joined(c) == \A i \in DOMAIN ThreadsOf(c) : thread[ThreadsOf(c)[i]] \in {"none", "done"}

\* The stop of a component clears its flag and signals its threads, ...
Stop ==
    /\ handler \in 1..Len(StopOrder)
    /\ LET c == StopOrder[handler]
       IN  /\ c \in flag
           /\ flag' = flag \ {c}
           /\ \E missed \in SUBSET {t \in ToSet(ThreadsOf(c)) : Alive(t) /\ WaitsUntimed(t)} :
                 thread' = [t \in Threads |-> IF t \in missed THEN "asleep" ELSE thread[t]]
    /\ UNCHANGED <<conf, main, step, handler, ready, held, orderly, fails>>

\* ... and waits for them to end.  A component that does not run is passed
\* over.  At the end main goes on, and gives back the lock it held.
Join ==
    /\ handler \in 1..Len(StopOrder)
    /\ StopOrder[handler] \notin flag
    /\ Joined(StopOrder[handler])
    /\ handler' = IF handler = Len(StopOrder) THEN 0 ELSE handler + 1
    /\ held' = IF handler' = 0 THEN {} ELSE held
    /\ thread' = [t \in Threads |-> IF handler' = 0 /\ thread[t] = "blocked" THEN "alive" ELSE thread[t]]
    /\ UNCHANGED <<conf, main, step, ready, flag, orderly, fails>>
-----------------------------------------------------------------------------
(* The threads.                                                            *)

Becomes(t, s) ==
    /\ thread' = [thread EXCEPT ![t] = s]
    /\ UNCHANGED <<conf, main, step, handler, ready, flag, held, orderly>>

\* while (running)
End(t) ==
    /\ thread[t] = "alive" /\ Owner(t) \notin flag
    /\ Becomes(t, "done") /\ UNCHANGED fails

\* iota_tangle_init failed.
EndEarly(t) ==
    /\ thread[t] = "alive" /\ OpensDatabase(t) /\ Fail
    /\ Becomes(t, "done")

\* A thread wants a lock that main holds while it handles the signal.
Block(t) ==
    /\ thread[t] = "alive" /\ handler > 0
    /\ held \cap (Uses(t) \cup {Owner(t)}) # {}
    /\ Becomes(t, "blocked") /\ UNCHANGED fails

\* A thread that missed the signal is woken by one that adds to its queue.
Wake(t) ==
    /\ thread[t] = "asleep"
    /\ \E u \in Threads : thread[u] = "alive" /\ Owner(t) \in Uses(u)
    /\ Becomes(t, "alive") /\ UNCHANGED fails
-----------------------------------------------------------------------------
Main == Initialise \/ Start \/ Leave \/ Destroy
Handler == Stop \/ Join
Thread(t) == End(t) \/ EndEarly(t) \/ Block(t) \/ Wake(t)
Running == main # "end"    \* the threads end with the process

LifecycleNext ==
    \/ main = "conf" /\ Configure /\ UNCHANGED lifecycle
    \/ UseSettings
    \/ /\ Running /\ UNCHANGED setup
       /\ Main \/ Handler \/ Interrupt \/ \E t \in Threads : Thread(t)

\* Some thread gets to run as long as one can go on.
LifecycleFairness ==
    WF_lifecycle(Running /\ (Main \/ Handler \/ \E t \in Threads : End(t)))

-----------------------------------------------------------------------------
(* Properties.                                                             *)

\* A component with threads is not destroyed before they have ended, on any
\* path of main.  When the start went through and main left its loop because
\* of the signal, a component is there as long as any thread that uses it.
UsersGoFirst ==
    Running => \A t \in Threads : Alive(t) =>
        /\ Owner(t) \in ready
        /\ orderly => Uses(t) \ Uninitialised \subseteq ready

\* What main initialised is destroyed at the end, and no thread is left, when
\* the start went through and main left its loop because of the signal: the
\* lists of core.c, node.c, consensus.c and main.c fit together.
EverythingIsReleased ==
    main = "end" /\ orderly =>
        /\ ready = {} /\ flag = {}
        /\ \A t \in Threads : ~Alive(t)

\* After a SIGINT ciri_stop joins every thread and the process ends, unless a
\* thread slept through its signal or needs the lock main was interrupted with.
InterruptEnds ==
    handler > 0 ~> \/ main = "end"
                   \/ \E t \in Threads : thread[t] \in {"asleep", "blocked"}
=============================================================================
