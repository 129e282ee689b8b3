--------------------------- MODULE Configuration ---------------------------
(***************************************************************************)
(* How main puts the settings of the node together: the defaults, over     *)
(* them the JSON file of the snapshot, over them the YAML file, over it    *)
(* the command line.  The settings live in four structures (ciri, node,    *)
(* api, consensus), and some have a copy in several of them.               *)
(*                                                                         *)
(* The text of a value is abstract.  Each option takes "first" and         *)
(* "second" ("true" and "false" for a switch); "bad" is a text its check   *)
(* is there to refuse.  An option read with atoi or atof has no check, and *)
(* takes a bad text as zero.                                               *)
(***************************************************************************)
EXTENDS Naturals, Sequences, SequencesExt, TLC

CONSTANTS
    Given,              \* the options that the YAML file and the command line may use
    Jsons,              \* how many items of the snapshot's JSON file are read; 0: no file
    MaxArgs, MaxEntries,
    API_ENDPOINTS_NUM   \* how many commands remote_limit_api has room for

ASSUME ConfigurationAssumption ==
    /\ Jsons \subseteq 0..9
    /\ MaxArgs \in Nat /\ MaxEntries \in Nat /\ API_ENDPOINTS_NUM \in Nat \ {0}

VARIABLE setup
-----------------------------------------------------------------------------
(* The options: how the text is read, and the fields it is written to.     *)

Option(check, fields) == [check |-> check, fields |-> fields]

ciri_options ==
    [ config |-> Option("text", {"ciri.conf_path"}),
      help |-> Option("help", {}),
      log_level |-> Option("choice", {"ciri.log_level"}),
      spent_addresses_db_path |->
        Option("text", {"ciri.spent_addresses_db_path", "consensus.spent_addresses_db_path",
                        "api.spent_addresses_db_path"}),
      tangle_db_path |->
        Option("text", {"ciri.tangle_db_path", "consensus.tangle_db_path",
                        "node.tangle_db_path", "api.tangle_db_path"}),
      tangle_db_revalidate |-> Option("switch", {"ciri.tangle_db_revalidate"}) ]

node_options ==
    [ auto_tethering_enabled |-> Option("switch", {"node.auto_tethering_enabled"}),
      max_neighbors |-> Option("number", {"node.max_neighbors"}),
      mwm |-> Option("number", {"node.mwm", "consensus.mwm"}),
      neighboring_address |-> Option("text", {"node.neighboring_address"}),
      neighboring_port |-> Option("number", {"node.neighboring_port"}),
      neighbors |-> Option("text", {"node.neighbors"}),
      p_send_milestone |-> Option("probability", {"node.p_send_milestone"}),
      recent_seen_bytes_cache_size |-> Option("number", {"node.recent_seen_bytes_cache_size"}),
      reconnect_attempt_interval |-> Option("number", {"node.reconnect_attempt_interval"}),
      requester_queue_size |-> Option("number", {"node.requester_queue_size"}),
      tips_cache_size |-> Option("number", {"node.tips_cache_size"}) ]

api_options ==
    [ http_port |-> Option("number", {"api.http_port"}),
      max_find_transactions |-> Option("number", {"api.max_find_transactions"}),
      max_get_trytes |-> Option("number", {"api.max_get_trytes"}),
      remote_limit_api |-> Option("list", {"api.remote_limit_api"}) ]

\* coordinator_max_milestone_index, 1 << depth, stands as the depth it is made of.
consensus_options ==
    [ alpha |-> Option("number", {"consensus.alpha"}),
      below_max_depth |-> Option("number", {"consensus.below_max_depth"}),
      coordinator_address |->
        Option("trytes", {"consensus.coordinator_address", "node.coordinator_address"}),
      coordinator_depth |->
        Option("number", {"consensus.coordinator_depth",
                          "consensus.coordinator_max_milestone_index"}),
      coordinator_security_level |-> Option("level", {"consensus.coordinator_security_level"}),
      coordinator_signature_type |-> Option("choice", {"consensus.coordinator_signature_type"}),
      last_milestone |-> Option("number", {"consensus.last_milestone"}),
      max_depth |-> Option("number", {"consensus.max_depth"}),
      snapshot_file |-> Option("copy", {"consensus.snapshot_file"}),
      snapshot_signature_depth |-> Option("number", {"consensus.snapshot_signature_depth"}),
      snapshot_signature_file |-> Option("copy", {"consensus.snapshot_signature_file"}),
      snapshot_signature_index |-> Option("number", {"consensus.snapshot_signature_index"}),
      snapshot_signature_pubkey |-> Option("trytes", {"consensus.snapshot_signature_pubkey"}),
      snapshot_signature_skip_validation |->
        Option("switch", {"consensus.snapshot_signature_skip_validation"}),
      snapshot_timestamp |-> Option("number", {"consensus.snapshot_timestamp_sec"}),
      spent_addresses_files |-> Option("pointer", {"consensus.spent_addresses_files"}) ]

local_snapshots_options ==
    [ local_snapshots_enabled |-> Option("switch", {"consensus.local_snapshots_is_enabled"}),
      local_snapshots_pruning_enabled |-> Option("switch", {"consensus.pruning_is_enabled"}),
      local_snapshots_transactions_growth_threshold |->
        Option("number", {"consensus.transactions_growth_threshold"}),
      local_snapshots_min_depth |-> Option("number", {"consensus.min_depth"}),
      local_snapshots_base_dir |-> Option("copy", {"consensus.base_dir"}) ]

cli_arguments_g ==
    ciri_options @@ node_options @@ api_options @@ consensus_options @@ local_snapshots_options

Fields == UNION {cli_arguments_g[o].fields : o \in DOMAIN cli_arguments_g}
-----------------------------------------------------------------------------
(* Reading one value.                                                      *)

\* get_log_level, get_sponge_type, get_probability, get_trytes, get_true_false
\* and the tests for an empty text refuse; atoi, atof and strcpy do not.
Refuses(check, value) == value = "bad" /\ check \notin {"number", "copy", "pointer"}

Stored(check, value) == IF check = "number" /\ value = "bad" THEN "zero" ELSE value

\* The commands in the text of remote_limit_api; a bad text has too many.
Commands(value) ==
    CASE value = "first" -> <<"a", "b">>
      [] value = "second" -> <<"c">>
      [] OTHER -> [i \in 1..API_ENDPOINTS_NUM + 1 |-> "d"]

\* The list is written from its first slot on; what was there and is not
\* overwritten stays.
Overlay(old, new) == new \o SubSeq(old, Len(new) + 1, Len(old))

Kept(conf) == [ret |-> "RC_OK", conf |-> conf]
Refused(conf) == [ret |-> "RC_CONF_INVALID_ARGUMENT", conf |-> conf]

\* optarg is the argument getopt_long is at.  There is none while the YAML
\* file is read, and strlen then reads a null pointer.  An unknown key of the
\* YAML file is the key 0, and falls to the default of the switch.
set_conf_value(conf, key, value, optarg) ==
    IF key \notin DOMAIN cli_arguments_g THEN Refused(conf)
    ELSE LET o == cli_arguments_g[key]
         IN  CASE o.check = "help" -> [ret |-> "exit", conf |-> conf]
               [] key = "config" /\ ~optarg -> [ret |-> "crash", conf |-> conf]
               [] Refuses(o.check, value) -> Refused(conf)
               [] o.check = "list" ->
                    Kept([conf EXCEPT !["api.remote_limit_api"] = Overlay(@, Commands(value))])
               [] OTHER ->
                    Kept([f \in Fields |-> IF f \in o.fields THEN Stored(o.check, value)
                                                             ELSE conf[f]])
-----------------------------------------------------------------------------
(* The sources.                                                            *)

Values == {"first", "second", "bad"}

\* getopt_long gives '?' for an option it does not know and ':' for one
\* without its argument.
Arguments == [key : Given, value : Values] \cup [key : {"?", ":"}, value : {"bad"}]
Entries == [key : Given \cup {"unknown"}, value : Values]

Blank == [f \in Fields |-> IF f = "api.remote_limit_api" THEN <<>> ELSE "default"]

iota_api_conf_init == [f \in {"api.remote_limit_api"} |-> <<>>]
iota_node_conf_init == [f \in {"node.mwm", "node.coordinator_address"} |-> "default"]
iota_consensus_local_snapshots_conf_init ==
    [f \in {"consensus.local_snapshots_is_enabled", "consensus.pruning_is_enabled"} |-> "second"]

\* The items of the JSON file in the order they are read.  Its signature is
\* optional; an item that is missing or wrong ends the reading, and the
\* caller drops the error: what was read before it is kept.
JsonItems ==
    << "consensus.snapshot_timestamp_sec", "consensus.coordinator_depth",
       "consensus.last_milestone", "consensus.coordinator_address",
       "consensus.coordinator_security_level", "consensus.coordinator_signature_type",
       "consensus.snapshot_signature_depth", "consensus.snapshot_signature_index",
       "consensus.snapshot_signature_pubkey" >>

iota_snapshot_conf_init(conf, n) ==
    [f \in Fields |-> IF \E i \in 1..n : f = JsonItems[i] THEN "json" ELSE conf[f]]

\* coordinator_max_milestone_index is set after the JSON file was read.
iota_consensus_conf_init(conf, n) ==
    LET read == iota_snapshot_conf_init(conf, n)
    IN  iota_consensus_local_snapshots_conf_init @@
        [read EXCEPT !["consensus.coordinator_max_milestone_index"] =
                        read["consensus.coordinator_depth"]]

iota_ciri_conf_default_init(n) ==
    iota_api_conf_init @@ iota_node_conf_init @@
        iota_consensus_conf_init(Blank, n)
-----------------------------------------------------------------------------
ArgumentLists == UNION {[1..n -> Arguments] : n \in 0..MaxArgs}

ConfigurationInit ==
    setup \in [phase : {"default"}, args : ArgumentLists, at : {1}, json : Jsons,
               entries : {<<>>}, conf : {Blank}]

Ends == setup' = [setup EXCEPT !.phase = "failed"]

DefaultInit ==
    /\ setup.phase = "default"
    /\ setup' = [setup EXCEPT !.phase = "scan", !.conf = iota_ciri_conf_default_init(setup.json)]

\* The first half of iota_ciri_conf_file_init looks for --config among the
\* arguments, and ends the process on one that getopt_long does not take.
ScanArguments ==
    /\ setup.phase = "scan"
    /\ LET paths == SelectSeq(setup.args, LAMBDA a : a.key = "config")
       IN  IF \E i \in DOMAIN setup.args :
                 LET a == setup.args[i]
                 IN  a.key \in {"?", ":"} \/ (a.key = "config" /\ a.value = "bad")
           THEN Ends
           ELSE setup' = [setup EXCEPT !.phase = "file", !.conf["ciri.conf_path"] =
                            IF paths = <<>> THEN @ ELSE Last(paths).value]

\* There is no file, or nothing in it: the token that is deleted at the end was never set, which
\* may pass or may end the process.
NoFile ==
    /\ setup.phase = "file" /\ setup.entries = <<>>
    /\ Ends \/ setup' = [setup EXCEPT !.phase = "cli"]

\* spent_addresses_files keeps a pointer into the token, which is deleted.
Dangling(conf, e) ==
    IF e.key = "spent_addresses_files"
    THEN [conf EXCEPT !["consensus.spent_addresses_files"] = "freed"] ELSE conf

ReadEntry ==
    /\ setup.phase = "file" /\ Len(setup.entries) < MaxEntries
    /\ \E e \in Entries :
         LET r == set_conf_value(setup.conf, e.key, e.value, FALSE)
         IN  IF r.ret = "RC_OK"
             THEN setup' = [setup EXCEPT !.entries = Append(@, e), !.conf = Dangling(r.conf, e)]
             ELSE Ends

\* The file ends, or cannot be scanned any further.
EndFile ==
    /\ setup.phase = "file" /\ setup.entries # <<>>
    /\ Ends \/ setup' = [setup EXCEPT !.phase = "cli"]

\* A faulty variant of ReadArgument: optind was not reset to 1 after the scan.
ReadArgumentNone ==
    /\ setup.phase = "cli"
    /\ setup' = [setup EXCEPT !.phase = "done"]

\* One round of the loop of iota_ciri_conf_cli_init.
ReadArgument ==
    /\ setup.phase = "cli"
    /\ IF setup.at > Len(setup.args) THEN setup' = [setup EXCEPT !.phase = "done"]
       ELSE LET a == setup.args[setup.at]
                r == set_conf_value(setup.conf, a.key, a.value, TRUE)
            IN  IF r.ret = "RC_OK" THEN setup' = [setup EXCEPT !.at = @ + 1, !.conf = r.conf]
                ELSE Ends

Configure == DefaultInit \/ ScanArguments \/ NoFile \/ ReadEntry \/ EndFile \/ ReadArgument
-----------------------------------------------------------------------------
(* Properties.                                                             *)

Configured == setup.phase = "done"

\* The texts that were given for an option, in the order of their weight.
TextsFor(o) ==
    LET given == SelectSeq(setup.entries \o setup.args, LAMBDA g : g.key = o)
    IN  [i \in DOMAIN given |-> given[i].value]

\* When main goes on with the settings, every option has the value that was
\* given last, the command line counting after the YAML file, and nothing was
\* given that a check refuses.  An option that was not given has its default
\* or what the JSON file says.  A list starts with the commands given last.
LastGivenHolds ==
    Configured => \A o \in Given \ {"help"} :
        LET check == cli_arguments_g[o].check
            texts == TextsFor(o)
        IN  IF texts = <<>>
            THEN check # "list" => \A f \in cli_arguments_g[o].fields :
                     setup.conf[f] \in {"default", "json", "second"}
            ELSE /\ \A i \in DOMAIN texts : ~Refuses(check, texts[i])
                 /\ IF check = "list"
                    THEN IsPrefix(Commands(Last(texts)), setup.conf["api.remote_limit_api"])
                    ELSE \A f \in cli_arguments_g[o].fields :
                            setup.conf[f] \in {Stored(check, Last(texts)), "freed"}

\* Two parts of the node never work with different copies of one setting: the
\* paths of the databases, the minimum weight magnitude and the number of the
\* coordinator's keys.  The coordinator's address of the node, which its
\* handshakes carry, is that of the consensus unless the JSON file gave it.
CopiesAgree ==
    Configured =>
        LET conf == setup.conf
            Same(S) == \A f, g \in S : conf[f] = conf[g]
        IN  /\ Same({"ciri.tangle_db_path", "consensus.tangle_db_path",
                     "node.tangle_db_path", "api.tangle_db_path"})
            /\ Same({"ciri.spent_addresses_db_path", "consensus.spent_addresses_db_path",
                     "api.spent_addresses_db_path"})
            /\ Same({"node.mwm", "consensus.mwm"})
            /\ Same({"consensus.coordinator_depth", "consensus.coordinator_max_milestone_index"})
            /\ \/ conf["consensus.coordinator_address"] = "json"
               \/ Same({"consensus.coordinator_address", "node.coordinator_address"})
=============================================================================
