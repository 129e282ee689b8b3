------------------------------- MODULE Gossip -------------------------------
(***************************************************************************)
(* The gossip pipeline of a node: the stages a packet goes through, each a *)
(* thread with a queue.                                                    *)
(*                                                                         *)
(*   router, API -> processor -> hasher -> validator -> broadcaster        *)
(*                      |                      |                           *)
(*                      +----> responder <-----+                           *)
(*                                                                         *)
(* A packet carries a transaction and a request.  The processor knows      *)
(* recently seen transactions by a digest of their bytes: such a packet    *)
(* only has its request served, any other one is hashed and validated      *)
(* first.  A step is one critical section or one database call.            *)
(*                                                                         *)
(* The stages refer to a neighbor by its address in the router's array,    *)
(* which is kept sorted: here an index into slots.                         *)
(***************************************************************************)
EXTENDS Naturals, FiniteSets, Sequences, Functions

CONSTANTS
    Tx,            \* transactions, each standing for its own hash as well
    Valid,         \* those that pass iota_consensus_transaction_validate
    Tails,         \* tails of bundles at the coordinator's address
    Light,         \* hashes without mwm trailing zero trits
    Digest,        \* XXH64 of a transaction's bytes
    Neighbors,     \* the peers' endpoints, numbers in the order of endpoint_cmp
    Paired,        \* those the node is configured with
    Null,          \* the null hash
    Cut,           \* a light hash whose last mwm trits were not sent
    None,          \* nothing: no transaction, no job
    Validator, Api, \* the two threads that store transactions
    CacheSize,     \* conf.recent_seen_bytes_cache_size
    HasherMax,     \* HASHER_MAX
    MaxEvents      \* bound on the packets, calls, errors and changes of a behaviour

Writers == {Validator, Api}

\* Up to eight neighbors utarray does not move its memory.
Capacity == Cardinality(Neighbors)

Peer == [peer : Neighbors, up : BOOLEAN]
Packet == [id : Nat, src : Neighbors \cup {Api}, tx : Tx, req : Tx \cup {Null}]
Located == [p : Packet, nb : 0..Capacity]
Asked == [id : Nat \ {0}, nb : 1..Capacity, hash : Tx \cup {Null, Cut}]
Reply == [id : Nat \ {0}, nb : 1..Capacity, hash : Tx \cup {Null, Cut}, tx : Tx \cup {None}]

ASSUME GossipAssumption ==
    /\ IsFiniteSet(Tx) /\ Valid \subseteq Tx /\ Tails \subseteq Valid
    /\ Light \subseteq Tx \ Valid
    /\ IsFiniteSet(Neighbors) /\ Neighbors \subseteq Nat \ {0} /\ Paired \subseteq Neighbors
    /\ Cardinality(Neighbors) <= 8
    /\ DOMAIN Digest = Tx /\ IsInjective(Digest)
    /\ {CacheSize, HasherMax, MaxEvents} \subseteq Nat \ {0}
    /\ {Null, Cut, None} \cap Tx = {} /\ Null # Cut
    /\ None \notin Peer /\ None \notin Located /\ None \notin Reply
    /\ Validator # Api /\ Api \notin Neighbors

VARIABLES
    slots, used,     \* the memory of router.neighbors, and its length
    conn,            \* data of the peer's stream: the neighbor's address
    procQ, hashQ, valQ, respQ, castQ,  \* the queues of the stages
    cache,           \* recent_seen_bytes, oldest entry first
    stored,          \* the database
    candidates,      \* offered to the milestone tracker
    pc, job,         \* where a storing thread is, and what it works on
    reply,           \* what the responder is about to send
    sent,            \* packets handed to the neighbors' writers
    received,        \* history: the packets received from peers
    served,          \* history: the packets whose request left the responder
    casts,           \* history: how often a transaction was put up for broadcast
    failed,          \* history: transactions a storage error interfered with
    events           \* calls, storage errors, changes of neighbors and connections

peers   == <<slots, used, conn>>
threads == <<pc, job>>
history == <<received, served, casts, failed>>
vars == <<peers, procQ, hashQ, valQ, respQ, castQ, cache, stored, candidates,
          threads, reply, sent, history, events>>

\* An index into slots is an address; 0 is NULL.
Find(n) == LET at == {i \in 1..used : slots[i].peer = n}
           IN  IF at = {} THEN 0 ELSE CHOOSE i \in at : TRUE

\* utarray_find searches a sorted array.
Ordered == \A i, j \in 1..used : i < j => slots[i].peer < slots[j].peer

\* Where utarray_sort puts a neighbor.
Place(n) == CHOOSE k \in 1..(used + 1) : \A i \in 1..used : slots[i].peer < n <=> i < k

\* What is read back of a hash of which 243 - mwm trits were sent.
Decoded(h) == IF h \in Light THEN Cut ELSE h

\* What the world around the pipeline does, packets aside, is counted.
Room  == Len(received) + events < MaxEvents
Event == Room /\ events' = events + 1
-----------------------------------------------------------------------------
(* The recent seen bytes cache.                                            *)

CacheHas(d) == \E i \in DOMAIN cache : cache[i].digest = d
CacheGet(d) == cache[CHOOSE i \in DOMAIN cache : cache[i].digest = d].hash

CachePut(d, h) ==
    IF CacheHas(d) THEN cache
    ELSE Append(IF Len(cache) >= CacheSize THEN Tail(cache) ELSE cache,
                [digest |-> d, hash |-> h])
-----------------------------------------------------------------------------
Init ==
    /\ used = Cardinality(Paired)
    /\ slots \in [1..Capacity -> {[peer |-> n, up |-> TRUE] : n \in Paired} \cup {None}]
    /\ \A i \in 1..Capacity : slots[i] # None <=> i <= used
    /\ Ordered
    /\ conn = [n \in Neighbors |-> Find(n)]
    /\ procQ = <<>> /\ hashQ = <<>> /\ valQ = <<>> /\ respQ = <<>> /\ castQ = <<>>
    /\ cache = <<>>
    /\ stored \in SUBSET Valid
    /\ candidates = stored \cap Tails
    /\ pc = [w \in Writers |-> "idle"]
    /\ job = [w \in Writers |-> None]
    /\ reply = None
    /\ sent = {}
    /\ received = <<>> /\ served = {}
    /\ casts = [t \in Tx |-> 0]
    /\ failed = {}
    /\ events = 0
-----------------------------------------------------------------------------
(* The router's thread and the API put packets into the pipeline.          *)

\* router_read of a whole gossip packet; the source is looked up through the
\* stream's data.
Receive(n, t, r) ==
    /\ conn[n] # 0
    /\ Room
    /\ received' = Append(received, [peer |-> n, tx |-> t, req |-> r, had |-> r \in stored])
    /\ procQ' = Append(procQ, [id |-> Len(received) + 1, src |-> slots[conn[n]].peer,
                               tx |-> t, req |-> r])
    /\ UNCHANGED <<peers, hashQ, valQ, respQ, castQ, cache, stored, candidates,
                   threads, reply, sent, served, casts, failed, events>>

\* iota_api_broadcast_transactions: an empty source, zeros for a request.
BroadcastTransactions(t) ==
    /\ Event
    /\ procQ' = Append(procQ, [id |-> 0, src |-> Api, tx |-> t, req |-> Null])
    /\ UNCHANGED <<peers, hashQ, valQ, respQ, castQ, cache, stored, candidates,
                   threads, reply, sent, history>>
-----------------------------------------------------------------------------
(* responder_process_request: asking for the packet's own transaction is   *)
(* asking for a random tip.                                                *)

RequestHash(p, hash) == IF Decoded(p.req) = hash THEN Null ELSE Decoded(p.req)

ProcessRequest(p, nb, hash) ==
    IF nb = 0
    THEN served' = served \cup {p.id} /\ UNCHANGED respQ
    ELSE /\ respQ' = Append(respQ, [id |-> p.id, nb |-> nb, hash |-> RequestHash(p, hash)])
         /\ UNCHANGED served

\* A faulty variant of Process: takes the requested hash for the packet's.
ProcessMixed ==
    /\ procQ # <<>>
    /\ LET p == Head(procQ)
           nb == Find(p.src)
       IN  IF CacheHas(Digest[p.tx])
           THEN ProcessRequest(p, nb, p.req) /\ UNCHANGED hashQ
           ELSE hashQ' = Append(hashQ, [p |-> p, nb |-> nb]) /\ UNCHANGED <<respQ, served>>
    /\ procQ' = Tail(procQ)
    /\ UNCHANGED <<peers, valQ, castQ, cache, stored, candidates, threads, reply,
                   sent, received, casts, failed, events>>

\* processor_stage_routine
Process ==
    /\ procQ # <<>>
    /\ LET p == Head(procQ)
           nb == Find(p.src)
       IN  IF CacheHas(Digest[p.tx])
           THEN ProcessRequest(p, nb, CacheGet(Digest[p.tx])) /\ UNCHANGED hashQ
           ELSE hashQ' = Append(hashQ, [p |-> p, nb |-> nb]) /\ UNCHANGED <<respQ, served>>
    /\ procQ' = Tail(procQ)
    /\ UNCHANGED <<peers, valQ, castQ, cache, stored, candidates, threads, reply,
                   sent, received, casts, failed, events>>

\* hasher_stage_routine: what is queued, up to HasherMax packets, is hashed in
\* one go and handed on in the same order.
HashBatch ==
    /\ \E k \in 1..HasherMax :
         /\ k <= Len(hashQ)
         /\ valQ' = valQ \o SubSeq(hashQ, 1, k)
         /\ hashQ' = SubSeq(hashQ, k + 1, Len(hashQ))
    /\ UNCHANGED <<peers, procQ, respQ, castQ, cache, stored, candidates, threads,
                   reply, sent, history, events>>
-----------------------------------------------------------------------------
(* The validator stage, and iota_api_store_transactions, store valid       *)
(* transactions that are new.                                              *)

Goto(w, label) == pc' = [pc EXCEPT ![w] = label]

\* Where a thread goes on after a transaction, stored or not.
After(w) == IF w = Validator THEN "put" ELSE "idle"

Interferes(w) == Event /\ failed' = failed \cup {job[w].p.tx} /\ Goto(w, After(w))

\* validate_transaction_bytes up to iota_tangle_transaction_exist
Validate ==
    /\ pc[Validator] = "idle"
    /\ valQ # <<>>
    /\ valQ' = Tail(valQ)
    /\ job' = [job EXCEPT ![Validator] = Head(valQ)]
    /\ LET t == Head(valQ).p.tx
       IN  \/ /\ Goto(Validator, IF t \in Valid \ stored THEN "store" ELSE "put")
              /\ UNCHANGED <<failed, events>>
           \/ t \in Valid /\ Event /\ failed' = failed \cup {t} /\ Goto(Validator, "put")
    /\ UNCHANGED <<peers, procQ, hashQ, respQ, castQ, cache, stored, candidates, reply,
                   sent, received, served, casts>>

\* iota_api_store_transactions up to iota_tangle_transaction_exist
StoreTransactions(t) ==
    /\ pc[Api] = "idle"
    /\ Event
    /\ t \in Valid \ stored
    /\ Goto(Api, "store")
    /\ job' = [job EXCEPT ![Api] = [p |-> [id |-> 0, src |-> Api, tx |-> t, req |-> Null],
                                    nb |-> 0]]
    /\ UNCHANGED <<peers, procQ, hashQ, valQ, respQ, castQ, cache, stored, candidates,
                   reply, sent, history>>

\* A faulty variant of Store: takes an error for success.
StoreRegardless(w) ==
    /\ pc[w] = "store"
    /\ \/ stored' = stored \cup {job[w].p.tx} /\ UNCHANGED events
       \/ Event /\ UNCHANGED stored
    /\ Goto(w, "status")
    /\ UNCHANGED <<peers, procQ, hashQ, valQ, respQ, castQ, cache, candidates, job,
                   reply, sent, history>>

\* iota_tangle_transaction_store: the hash is a key of the table, so it fails
\* when the other thread was faster.
Store(w) ==
    /\ pc[w] = "store"
    /\ \/ /\ job[w].p.tx \notin stored
          /\ stored' = stored \cup {job[w].p.tx}
          /\ Goto(w, "status")
          /\ UNCHANGED <<failed, events>>
       \/ job[w].p.tx \in stored /\ Goto(w, After(w)) /\ UNCHANGED <<stored, failed, events>>
       \/ Interferes(w) /\ UNCHANGED stored
    /\ UNCHANGED <<peers, procQ, hashQ, valQ, respQ, castQ, cache, candidates, job,
                   reply, sent, received, served, casts>>

\* iota_consensus_transaction_solidifier_update_status.  After an error the
\* stored transaction is neither broadcast nor offered to the tracker.
UpdateStatus(w) ==
    /\ pc[w] = "status"
    /\ \/ Goto(w, "offer") /\ UNCHANGED <<failed, events>>
       \/ Interferes(w)
    /\ UNCHANGED <<peers, procQ, hashQ, valQ, respQ, castQ, cache, stored, candidates,
                   job, reply, sent, received, served, casts>>

\* The validator broadcasts the packet; both threads offer a milestone to
\* the tracker.
Offer(w) ==
    /\ pc[w] = "offer"
    /\ LET p == job[w].p
       IN  /\ IF w = Validator
              THEN /\ castQ' = Append(castQ, p)
                   /\ casts' = [casts EXCEPT ![p.tx] = @ + 1]
              ELSE UNCHANGED <<castQ, casts>>
           /\ candidates' = candidates \cup ({p.tx} \cap Tails)
    /\ Goto(w, After(w))
    /\ UNCHANGED <<peers, procQ, hashQ, valQ, respQ, cache, stored, job, reply, sent,
                   received, served, failed, events>>

\* The validator stage marks the packet as seen, whatever became of it ...
MarkSeen ==
    /\ pc[Validator] = "put"
    /\ LET t == job[Validator].p.tx IN cache' = CachePut(Digest[t], t)
    /\ Goto(Validator, "request")
    /\ UNCHANGED <<peers, procQ, hashQ, valQ, respQ, castQ, stored, candidates, job,
                   reply, sent, history, events>>

\* ... and has its request served.
PassRequest ==
    /\ pc[Validator] = "request"
    /\ LET j == job[Validator] IN ProcessRequest(j.p, j.nb, j.p.tx)
    /\ Goto(Validator, "idle")
    /\ job' = [job EXCEPT ![Validator] = None]
    /\ UNCHANGED <<peers, procQ, hashQ, valQ, castQ, cache, stored, candidates, reply,
                   sent, received, casts, failed, events>>
-----------------------------------------------------------------------------
(* The responder stage.                                                    *)

\* get_transaction_for_request.  The tips and the milestone indexes that
\* node_is_synced compares are other components': any values do.
LoadReply ==
    /\ reply = None
    /\ respQ # <<>>
    /\ respQ' = Tail(respQ)
    /\ LET q == Head(respQ)
           Answer(t) == reply' = [id |-> q.id, nb |-> q.nb, hash |-> q.hash, tx |-> t]
       IN  \/ /\ q.hash = Null
              /\ \/ \E tip \in stored \cup {None} : Answer(tip) /\ UNCHANGED served
                 \/ served' = served \cup {q.id} /\ UNCHANGED reply
              /\ UNCHANGED <<failed, events>>
           \/ /\ q.hash # Null
              /\ Answer(IF q.hash \in stored THEN q.hash ELSE None)
              /\ UNCHANGED <<served, failed, events>>
           \/ /\ Event
              /\ Answer(None)
              /\ failed' = failed \cup ({q.hash} \cap Tx)
              /\ UNCHANGED served
    /\ UNCHANGED <<peers, procQ, hashQ, valQ, castQ, cache, stored, candidates, threads,
                   sent, received, casts>>

\* respond_to_request: the transaction, or else the latest milestone or an
\* empty transaction to keep the exchange going.
Respond ==
    /\ reply # None
    /\ cache' = IF reply.tx = None THEN cache ELSE CachePut(Digest[reply.tx], reply.hash)
    /\ \E t \in IF reply.tx # None THEN {reply.tx} ELSE (stored \cap Tails) \cup {None} :
         sent' = IF slots[reply.nb].up
                 THEN sent \cup {[kind |-> "reply", to |-> slots[reply.nb].peer,
                                  tx |-> t, why |-> reply.id]}
                 ELSE sent
    /\ served' = served \cup {reply.id}
    /\ reply' = None
    /\ UNCHANGED <<peers, procQ, hashQ, valQ, respQ, castQ, stored, candidates, threads,
                   received, casts, failed, events>>
-----------------------------------------------------------------------------
(* The broadcaster stage and the tips requester.                           *)

\* endpoint_cmp, 0 for the same endpoint
EndpointCmp(a, b) == IF a = b THEN 0 ELSE 1

\* The neighbors a packet is broadcast to.
Targets(p) ==
    {i \in 1..used : EndpointCmp(p.src, slots[i].peer) = 0 /\ slots[i].up}

\* broadcaster_stage_routine, which holds neighbors_lock for the whole round
Broadcast ==
    /\ castQ # <<>>
    /\ castQ' = Tail(castQ)
    /\ LET p == Head(castQ)
       IN  sent' = sent \cup {[kind |-> "cast", to |-> slots[i].peer, tx |-> p.tx,
                               why |-> p.src] : i \in Targets(p)}
    /\ UNCHANGED <<peers, procQ, hashQ, valQ, respQ, cache, stored, candidates, threads,
                   reply, history, events>>

\* tips_requester_routine: the latest milestone, with itself for a request
RequestTips(m) ==
    /\ m \in stored \cap Tails
    /\ Event
    /\ sent' = sent \cup {[kind |-> "poll", to |-> slots[i].peer, tx |-> m, why |-> m] :
                              i \in {j \in 1..used : slots[j].up}}
    /\ UNCHANGED <<peers, procQ, hashQ, valQ, respQ, castQ, cache, stored, candidates,
                   threads, reply, history>>
-----------------------------------------------------------------------------
(* The neighbors: connections end and are made again, and the API adds and *)
(* removes neighbors.  utarray_sort and utarray_erase move the structures  *)
(* that queues and streams point to.                                       *)

Disconnect(n) ==
    /\ conn[n] # 0
    /\ Event
    /\ slots' = [slots EXCEPT ![conn[n]].up = FALSE]
    /\ conn' = [conn EXCEPT ![n] = 0]
    /\ UNCHANGED <<used, procQ, hashQ, valQ, respQ, castQ, cache, stored, candidates,
                   threads, reply, sent, history>>

Connect(n) ==
    /\ conn[n] = 0
    /\ Find(n) # 0
    /\ ~slots[Find(n)].up
    /\ slots' = [slots EXCEPT ![Find(n)].up = TRUE]
    /\ conn' = [conn EXCEPT ![n] = Find(n)]
    /\ UNCHANGED <<used, procQ, hashQ, valQ, respQ, castQ, cache, stored, candidates,
                   threads, reply, sent, history, events>>

NeighborAdd(n) ==
    /\ Event
    /\ Find(n) = 0
    /\ used' = used + 1
    /\ slots' = [i \in 1..Capacity |->
                    IF i = Place(n) THEN [peer |-> n, up |-> FALSE]
                    ELSE IF i \in Place(n)..(used + 1) THEN slots[i - 1] ELSE slots[i]]
    /\ UNCHANGED <<conn, procQ, hashQ, valQ, respQ, castQ, cache, stored, candidates,
                   threads, reply, sent, history>>

NeighborRemove(n) ==
    /\ Event
    /\ Find(n) # 0
    /\ used' = used - 1
    /\ slots' = [i \in 1..Capacity |->
                    IF i \in Find(n)..(used - 1) THEN slots[i + 1] ELSE slots[i]]
    /\ UNCHANGED <<conn, procQ, hashQ, valQ, respQ, castQ, cache, stored, candidates,
                   threads, reply, sent, history>>
-----------------------------------------------------------------------------
Next ==
    \/ \E n \in Neighbors, t \in Tx, r \in Tx \cup {Null} : Receive(n, t, r)
    \/ \E t \in Tx : BroadcastTransactions(t) \/ StoreTransactions(t)
    \/ Process \/ HashBatch \/ Validate \/ MarkSeen \/ PassRequest
    \/ \E w \in Writers : Store(w) \/ UpdateStatus(w) \/ Offer(w)
    \/ LoadReply \/ Respond \/ Broadcast
    \/ \E m \in Tails : RequestTips(m)
    \/ \E n \in Neighbors :
         Disconnect(n) \/ Connect(n) \/ NeighborAdd(n) \/ NeighborRemove(n)

Spec == Init /\ [][Next]_vars
-----------------------------------------------------------------------------
\* What the array of neighbors, the queues and the threads hold.
TypeOK ==
    /\ slots \in [1..Capacity -> Peer \cup {None}] /\ used \in 0..Capacity
    /\ \A i \in 1..used : slots[i] # None
    /\ conn \in [Neighbors -> 0..Capacity]
    /\ procQ \in Seq(Packet) /\ castQ \in Seq(Packet)
    /\ hashQ \in Seq(Located) /\ valQ \in Seq(Located) /\ respQ \in Seq(Asked)
    /\ pc \in [Writers -> {"idle", "store", "status", "offer", "put", "request"}]
    /\ job \in [Writers -> Located \cup {None}] /\ reply \in Reply \cup {None}
    /\ stored \subseteq Valid /\ candidates \subseteq stored \cap Tails
    /\ casts \in [Tx -> Nat] /\ failed \subseteq Tx /\ events \in Nat
    /\ received \in Seq([peer : Neighbors, tx : Tx, req : Tx \cup {Null}, had : BOOLEAN])

\* The cache stays within conf.recent_seen_bytes_cache_size and has one entry
\* per digest.
CacheIsBounded ==
    /\ Len(cache) <= CacheSize
    /\ \A i, j \in DOMAIN cache : cache[i].digest = cache[j].digest => i = j

\* The request of every packet received is in exactly one place: on its way
\* with the packet, in the hands of the responder, or served.  So it is
\* neither lost nor served twice, whichever way around the cache it takes.
Places(id) ==
    Cardinality({i \in DOMAIN procQ : procQ[i].id = id})
    + Cardinality({i \in DOMAIN hashQ : hashQ[i].p.id = id})
    + Cardinality({i \in DOMAIN valQ : valQ[i].p.id = id})
    + (IF job[Validator] # None /\ job[Validator].p.id = id THEN 1 ELSE 0)
    + Cardinality({i \in DOMAIN respQ : respQ[i].id = id})
    + (IF reply # None /\ reply.id = id THEN 1 ELSE 0)
    + (IF id \in served THEN 1 ELSE 0)

AskedOnce == \A id \in 1..Len(received) : Places(id) = 1

\* A peer that asks for a transaction the node has when the packet arrives
\* is sent that transaction, if it is sent anything and no storage error
\* came between.
ServesWhatItHas ==
    \A s \in sent : s.kind = "reply" =>
        LET p == received[s.why]
        IN  p.had /\ p.req # p.tx /\ p.req \notin failed => s.tx = p.req

\* A transaction is put up for broadcast once, however many copies of it
\* arrive and whoever stores it.
BroadcastOnce == \A t \in Tx : casts[t] <= 1 /\ (casts[t] = 1 => t \in stored)

\* The cache makes the processor ignore the transaction of a packet, so a
\* valid transaction in it is one the database has, unless storing it failed.
CachedIsStored ==
    \A t \in Valid : CacheHas(Digest[t]) => t \in stored \cup failed

\* A stored milestone is offered to the tracker by the thread that stored it.
MilestonesAreOffered ==
    \A t \in stored \cap Tails :
        \/ t \in candidates \cup failed
        \/ \E w \in Writers : pc[w] \in {"status", "offer"} /\ job[w].p.tx = t

\* processor.c, responder.c, router.c: a request is answered once, and with
\* what was asked for, while the neighbors, which stay sorted, come and go.
RequestsAreServed == TypeOK /\ Ordered /\ AskedOnce /\ ServesWhatItHas

\* validator.c, processor.c, recent_seen_bytes_cache.c: a valid transaction
\* is stored, broadcast once and offered to the tracker, and the cache, which
\* stays within its size, hides no transaction that the node lacks.
TransactionsGoOn ==
    CacheIsBounded /\ BroadcastOnce /\ CachedIsStored /\ MilestonesAreOffered
=============================================================================
