---------------------------- MODULE GossipProofs ----------------------------
(***************************************************************************)
(* Proofs about Gossip: what is asked for is answered, and a stored        *)
(* transaction goes on.  The peers, the caches and the storage are in      *)
(* GossipSteps.                                                            *)
(***************************************************************************)
EXTENDS GossipSteps
USE ZenonT(10), SMTT(60)
-----------------------------------------------------------------------------
(* What is asked for, and what is sent.                                    *)

LEMMA ServeKept ==
    ASSUME ServeInv, UNCHANGED <<procQ, hashQ, valQ, received, respQ, reply, sent, served>>,
           job'[Validator] = job[Validator], stored \subseteq stored', failed \subseteq failed'
    PROVE  ServeInv'
BY DEF ServeInv, AsReceived, HasWhatIsAsked, ServesWhatItHas

\* Only replies are what ServeInv looks at among the packets sent.
LEMMA SendServes ==
    ASSUME ServeInv, Broadcast \/ \E m \in Tails : RequestTips(m)
    PROVE  ServeInv'
<1>1. UNCHANGED <<procQ, hashQ, valQ, received, respQ, reply, served, stored, failed, job>>
  BY DEF Broadcast, RequestTips, threads, history
<1>2. \A s \in sent' : s.kind = "reply" => s \in sent
  BY DEF Broadcast, RequestTips
<1>3. ServesWhatItHas' /\ \A s \in sent' : s.kind = "reply" => s.why \in 1..Len(received)
  BY <1>1, <1>2 DEF ServeInv, ServesWhatItHas
<1> QED
  BY <1>1, <1>3 DEF ServeInv, AsReceived, HasWhatIsAsked

LEMMA AsReceivedKept ==
    ASSUME PeersInv, NEW n \in Neighbors, NEW t \in Tx, NEW r \in Tx \cup {Null}, Receive(n, t, r)
    PROVE  /\ Len(received') = Len(received) + 1 /\ Len(received) \in Nat
           /\ \A k \in 1..Len(received) : received'[k] = received[k]
           /\ received'[Len(received) + 1] = [peer |-> n, tx |-> t, req |-> r, had |-> r \in stored]
           /\ \A p \in Packet : AsReceived(received, p) => AsReceived(received', p)
<1>1. received \in Seq(Kinds) /\ [peer |-> n, tx |-> t, req |-> r, had |-> r \in stored] \in Kinds
  BY DEF PeersInv, TypeOK, Kinds
<1>2. /\ Len(received') = Len(received) + 1 /\ Len(received) \in Nat
      /\ \A k \in 1..Len(received) : received'[k] = received[k]
      /\ received'[Len(received) + 1] = [peer |-> n, tx |-> t, req |-> r, had |-> r \in stored]
  BY <1>1 DEF Receive
<1>3. ASSUME NEW p \in Packet, AsReceived(received, p) PROVE AsReceived(received', p)
  <2>1. p.id \in Nat
    BY DEF Packet
  <2> QED
    BY <1>2, <1>3, <2>1 DEF AsReceived
<1> QED
  BY <1>2, <1>3

LEMMA ReceiveServes ==
    ASSUME PeersInv, ServeInv, NEW n \in Neighbors, NEW t \in Tx, NEW r \in Tx \cup {Null}, Receive(n, t, r)
    PROVE  ServeInv'
<1> DEFINE e == [id |-> Len(received) + 1, src |-> slots[conn[n]].peer, tx |-> t, req |-> r]
           N == Len(received)
<1>1. /\ Len(received') = N + 1 /\ N \in Nat
      /\ \A k \in 1..N : received'[k] = received[k]
      /\ received'[N + 1] = [peer |-> n, tx |-> t, req |-> r, had |-> r \in stored]
      /\ \A p \in Packet : AsReceived(received, p) => AsReceived(received', p)
  BY AsReceivedKept
<1>2. /\ procQ \in Seq(Packet) /\ hashQ \in Seq(Located) /\ valQ \in Seq(Located) /\ respQ \in Seq(Asked)
      /\ job[Validator] \in Located \cup {None} /\ reply \in Reply \cup {None}
  BY DEF PeersInv, TypeOK, Writers
<1>3. /\ procQ' = Append(procQ, e)
      /\ UNCHANGED <<hashQ, valQ, respQ, job, reply, sent, served, stored, failed>>
  BY DEF Receive, threads
<1>4. AsReceived(received', e)
  <2>1. e.id = N + 1 /\ e.tx = t /\ e.req = r /\ e.id # 0
    BY <1>1
  <2>2. received'[N + 1].tx = t /\ received'[N + 1].req = r
    BY <1>1
  <2> HIDE DEF e
  <2> QED
    BY <1>1, <2>1, <2>2 DEF AsReceived
<1> HIDE DEF e, N
<1>5. \A i \in 1..Len(procQ') : AsReceived(received', procQ'[i])
  <2> SUFFICES ASSUME NEW i \in 1..Len(procQ') PROVE AsReceived(received', procQ'[i])
    OBVIOUS
  <2>1. procQ'[i] = e \/ (i \in 1..Len(procQ) /\ procQ'[i] = procQ[i] /\ procQ[i] \in Packet)
    BY <1>2, <1>3
  <2> QED
    BY <1>1, <1>4, <2>1 DEF ServeInv
<1>6. \A l \in Located : l.p \in Packet
  BY DEF Located
<1>7. /\ \A i \in 1..Len(hashQ) : AsReceived(received', hashQ[i].p)
      /\ \A i \in 1..Len(valQ) : AsReceived(received', valQ[i].p)
      /\ job[Validator] # None => AsReceived(received', job[Validator].p)
  <2>1. /\ \A i \in 1..Len(hashQ) : hashQ[i] \in Located
        /\ \A i \in 1..Len(valQ) : valQ[i] \in Located
        /\ job[Validator] # None => job[Validator] \in Located
    BY <1>2
  <2> QED
    BY <1>1, <1>6, <2>1 DEF ServeInv
<1>8. \A k \in 1..(N + 1) : received'[k].had => received'[k].req \in stored
  <2>1. \A k \in 1..N : received'[k].had => received'[k].req \in stored
    BY <1>1 DEF ServeInv, N
  <2>2. received'[N + 1].had = (r \in stored) /\ received'[N + 1].req = r
    BY <1>1
  <2>3. received'[N + 1].had => received'[N + 1].req \in stored
    BY <2>2
  <2>4. \A k \in 1..(N + 1) : k \in 1..N \/ k = N + 1
    BY <1>1
  <2> QED
    BY <2>1, <2>3, <2>4
<1>9. ASSUME NEW i \in 1..Len(respQ)
      PROVE  /\ respQ[i].id <= N + 1
             /\ HasWhatIsAsked(received', respQ[i].id) => respQ[i].hash = received'[respQ[i].id].req
  <2>1. respQ[i] \in Asked /\ respQ[i].id <= N
    BY <1>2 DEF ServeInv, N
  <2>2. respQ[i].id \in 1..N
    BY <1>1, <2>1 DEF Asked
  <2> QED
    BY <1>1, <2>2 DEF ServeInv, HasWhatIsAsked
<1>10. reply # None =>
         /\ reply.id <= N + 1
         /\ HasWhatIsAsked(received', reply.id) /\ received'[reply.id].req \notin failed =>
              reply.tx = received'[reply.id].req
  <2> SUFFICES ASSUME reply # None
               PROVE  /\ reply.id <= N + 1
                      /\ HasWhatIsAsked(received', reply.id) /\ received'[reply.id].req \notin failed =>
                           reply.tx = received'[reply.id].req
    OBVIOUS
  <2>1. reply \in Reply /\ reply.id <= N
    BY <1>2 DEF ServeInv, N
  <2>2. reply.id \in 1..N
    BY <1>1, <2>1 DEF Reply
  <2> QED
    BY <1>1, <2>2 DEF ServeInv, HasWhatIsAsked
<1>11. /\ \A s \in sent : s.kind = "reply" => s.why \in 1..(N + 1)
       /\ served \subseteq 0..(N + 1)
  BY <1>1 DEF ServeInv, N
<1>12. ServesWhatItHas'
  BY <1>1, <1>3 DEF ServeInv, ServesWhatItHas, N
<1>13. /\ \A i \in 1..Len(hashQ) : hashQ[i].p.id = 0 => hashQ[i].nb = 0
       /\ \A i \in 1..Len(valQ) : valQ[i].p.id = 0 => valQ[i].nb = 0
       /\ job[Validator] # None => (job[Validator].p.id = 0 => job[Validator].nb = 0)
  BY DEF ServeInv
<1> HIDE DEF ServeInv
<1> QED
  BY <1>1, <1>3, <1>5, <1>7, <1>8, <1>9, <1>10, <1>11, <1>12, <1>13 DEF ServeInv

LEMMA BroadcastTransactionsServes ==
    ASSUME PeersInv, ServeInv, NEW t \in Tx, BroadcastTransactions(t)
    PROVE  ServeInv'
<1> DEFINE e == [id |-> 0, src |-> Api, tx |-> t, req |-> Null]
<1>1. procQ' = Append(procQ, e) /\ procQ \in Seq(Packet)
  BY DEF BroadcastTransactions, PeersInv, TypeOK
<1>2. UNCHANGED <<hashQ, valQ, received, respQ, reply, sent, served, job, stored, failed>>
  BY DEF BroadcastTransactions, threads, history
<1>3. AsReceived(received, e)
  BY DEF AsReceived
<1> HIDE DEF e
<1>4. \A i \in 1..Len(procQ') : AsReceived(received', procQ'[i])
  <2>1. \A i \in 1..Len(procQ') : procQ'[i] = e \/ (i \in 1..Len(procQ) /\ procQ'[i] = procQ[i])
    BY <1>1
  <2> QED
    BY <1>2, <1>3, <2>1 DEF ServeInv
<1> QED
  BY <1>2, <1>4 DEF ServeInv, AsReceived, HasWhatIsAsked, ServesWhatItHas
\* What the responder is asked for, and who asked.
RespondsAsAsked(rs, q) ==
    \A i \in 1..Len(q) :
      /\ q[i].id <= Len(rs)
      /\ HasWhatIsAsked(rs, q[i].id) => q[i].hash = rs[q[i].id].req

\* responder_process_request passes on a request that the node can serve,
\* also when it takes the null hash from the cache for the packet's.
LEMMA PassedServes ==
    ASSUME PeersInv, ServeInv, NEW q \in Packet, AsReceived(received, q), NEW nb \in 0..Capacity,
           q.id = 0 => nb = 0, NEW h \in {q.tx, Null}, ProcessRequest(q, nb, h)
    PROVE  RespondsAsAsked(received, respQ') /\ served' \subseteq 0..Len(received)
<1>1. RespondsAsAsked(received, respQ) /\ served \subseteq 0..Len(received) /\ Len(received) \in Nat
  BY DEF ServeInv, RespondsAsAsked, PeersInv, TypeOK
<1>2. q.id \in 0..Len(received)
  <2>1. q.id \in Nat
    BY DEF Packet
  <2> QED
    BY <1>1, <2>1 DEF AsReceived
<1>3. CASE nb = 0
  BY <1>1, <1>2, <1>3 DEF ProcessRequest
<1>4. CASE nb # 0
  <2> DEFINE e == [id |-> q.id, nb |-> nb, hash |-> RequestHash(q, h)]
  <2>1. respQ' = Append(respQ, e) /\ served' = served
    BY <1>4 DEF ProcessRequest
  <2>2. respQ \in Seq(Asked) /\ e.id = q.id /\ e.hash = RequestHash(q, h) /\ e \in Asked
    BY <1>4, RequestTyped, CapacityIsNat DEF PeersInv, TypeOK, Asked, Packet
  <2>3. q.id \in 1..Len(received) /\ q.tx = received[q.id].tx /\ q.req = received[q.id].req
    BY <1>1, <1>2, <1>4 DEF AsReceived
  <2>4. HasWhatIsAsked(received, q.id) => RequestHash(q, h) = received[q.id].req
    <3> SUFFICES ASSUME HasWhatIsAsked(received, q.id) PROVE RequestHash(q, h) = q.req
      BY <2>3
    <3>1. received[q.id].had /\ q.req # q.tx
      BY <2>3 DEF HasWhatIsAsked
    <3>2. q.req \in stored
      BY <2>3, <3>1 DEF ServeInv
    <3>3. q.req \in Valid
      BY <3>2 DEF PeersInv, TypeOK
    <3>4. q.req \notin Light /\ q.req # Null
      BY <3>3, HashFacts
    <3> QED
      BY <3>1, <3>4 DEF RequestHash, Decoded
  <2> HIDE DEF e
  <2>5. \A i \in 1..Len(respQ') : respQ'[i] = e \/ (i \in 1..Len(respQ) /\ respQ'[i] = respQ[i])
    BY <2>1, <2>2
  <2>6. e.id <= Len(received) /\ (HasWhatIsAsked(received, e.id) => e.hash = received[e.id].req)
    BY <2>2, <2>3, <2>4
  <2> QED
    BY <1>1, <2>1, <2>5, <2>6 DEF RespondsAsAsked
<1> QED
  BY <1>3, <1>4

\* What the processor takes from its cache.
LEMMA CachedHash ==
    ASSUME CacheInv, NEW t \in Tx, CacheHas(Digest[t])
    PROVE  CacheGet(Digest[t]) \in {t, Null}
<1> DEFINE k == CHOOSE i \in DOMAIN cache : cache[i].digest = Digest[t]
<1>1. k \in DOMAIN cache /\ cache[k].digest = Digest[t] /\ CacheGet(Digest[t]) = cache[k].hash
  BY DEF CacheHas, CacheGet
<1> HIDE DEF k
<1>2. k \in 1..Len(cache)
  BY <1>1 DEF CacheInv
<1>3. PICK u \in Tx : cache[k].digest = Digest[u] /\ cache[k].hash \in {u, Null}
  BY <1>2 DEF CacheInv
<1>4. u = t
  BY <1>1, <1>3, DigestsDiffer
<1> QED
  BY <1>1, <1>3, <1>4

\* The entries of a queue without its first one.
LEMMA TailEntries ==
    ASSUME NEW T, NEW q \in Seq(T), q # <<>>
    PROVE  \A i \in 1..Len(Tail(q)) : i + 1 \in 1..Len(q) /\ Tail(q)[i] = q[i + 1]
OBVIOUS

LEMMA AppendEntries ==
    ASSUME NEW T, NEW q \in Seq(T), NEW e \in T
    PROVE  \A i \in 1..Len(Append(q, e)) :
             Append(q, e)[i] = e \/ (i \in 1..Len(q) /\ Append(q, e)[i] = q[i])
OBVIOUS

\* A source the router does not know, such as the API, is no neighbor.
LEMMA SourceIsFound ==
    ASSUME PeersInv, NEW q \in Packet, AsReceived(received, q)
    PROVE  Find(q.src) \in 0..Capacity /\ (q.id = 0 => Find(q.src) = 0)
<1>1. Find(q.src) \in 0..Capacity
  BY FindIsThere DEF PeersInv
<1>2. q.id = 0 => q.src = Api
  BY DEF AsReceived
<1>3. Find(Api) = 0
  <2>1. \A i \in 1..used : slots[i] \in Peer
    BY ArrayTyped
  <2>2. \A i \in 1..used : slots[i].peer # Api
    BY <2>1, NeighborsAreNumbers DEF Peer
  <2> QED
    BY <2>2, FindIsThere DEF PeersInv
<1> QED
  BY <1>1, <1>2, <1>3

LEMMA ProcessServes ==
    ASSUME PeersInv, ServeInv, CacheInv, Process
    PROVE  ServeInv'
<1> DEFINE q == Head(procQ)
           nb == Find(q.src)
<1>1. procQ \in Seq(Packet) /\ procQ # <<>> /\ procQ' = Tail(procQ) /\ hashQ \in Seq(Located)
  BY DEF PeersInv, TypeOK, Process
<1>2. q \in Packet /\ q = procQ[1] /\ 1 \in 1..Len(procQ)
  BY <1>1, HeadTyped
<1>3. AsReceived(received, q)
  BY <1>2 DEF ServeInv
<1>4. UNCHANGED <<valQ, received, reply, sent, job, stored, failed>>
  BY DEF Process, threads
<1>5. \/ CacheHas(Digest[q.tx]) /\ ProcessRequest(q, nb, CacheGet(Digest[q.tx])) /\ UNCHANGED hashQ
      \/ hashQ' = Append(hashQ, [p |-> q, nb |-> nb]) /\ UNCHANGED <<respQ, served>>
  BY DEF Process
<1>6. \A i \in 1..Len(procQ') : AsReceived(received, procQ'[i])
  BY <1>1, TailEntries DEF ServeInv
<1> HIDE DEF q, nb
<1>7. q.tx \in Tx
  BY <1>2 DEF Packet
<1>8. nb \in 0..Capacity /\ (q.id = 0 => nb = 0)
  BY <1>2, <1>3, SourceIsFound DEF nb
<1>9. RespondsAsAsked(received, respQ') /\ served' \subseteq 0..Len(received)
  <2>1. CASE CacheHas(Digest[q.tx]) /\ ProcessRequest(q, nb, CacheGet(Digest[q.tx])) /\ UNCHANGED hashQ
    <3>1. CacheGet(Digest[q.tx]) \in {q.tx, Null}
      BY <1>7, <2>1, CachedHash
    <3> QED
      BY <1>2, <1>3, <1>8, <2>1, <3>1, PassedServes
  <2>2. CASE UNCHANGED <<respQ, served>>
    BY <2>2 DEF ServeInv, RespondsAsAsked
  <2> QED
    BY <1>5, <2>1, <2>2
<1>10. \A i \in 1..Len(hashQ') :
         AsReceived(received, hashQ'[i].p) /\ (hashQ'[i].p.id = 0 => hashQ'[i].nb = 0)
  <2>1. CASE UNCHANGED hashQ
    BY <2>1 DEF ServeInv
  <2>2. CASE hashQ' = Append(hashQ, [p |-> q, nb |-> nb])
    <3> DEFINE e == [p |-> q, nb |-> nb]
    <3>1. e \in Located /\ e.p = q /\ e.nb = nb
      BY <1>2, <1>8 DEF Located
    <3> HIDE DEF e
    <3>2. \A i \in 1..Len(hashQ') : hashQ'[i] = e \/ (i \in 1..Len(hashQ) /\ hashQ'[i] = hashQ[i])
      BY <1>1, <2>2, <3>1, AppendEntries DEF e
    <3> QED
      BY <1>3, <1>8, <3>1, <3>2 DEF ServeInv
  <2> QED
    BY <1>5, <2>1, <2>2
<1>11. ServesWhatItHas'
  BY <1>4 DEF ServeInv, ServesWhatItHas
<1> QED
  BY <1>4, <1>6, <1>9, <1>10, <1>11 DEF ServeInv, RespondsAsAsked
LEMMA HashBatchServes ==
    ASSUME PeersInv, ServeInv, HashBatch
    PROVE  ServeInv'
<1>1. hashQ \in Seq(Located) /\ valQ \in Seq(Located)
  BY DEF PeersInv, TypeOK
<1>2. PICK k \in 1..HasherMax :
        /\ k <= Len(hashQ)
        /\ valQ' = valQ \o SubSeq(hashQ, 1, k)
        /\ hashQ' = SubSeq(hashQ, k + 1, Len(hashQ))
  BY DEF HashBatch
<1>3. k \in Nat \ {0} /\ Len(hashQ) \in Nat
  BY <1>1, GossipAssumption
<1>4. UNCHANGED <<procQ, received, respQ, reply, sent, served, job, stored, failed>>
  BY DEF HashBatch, threads, history
<1>5. \A i \in 1..Len(hashQ') : \E j \in 1..Len(hashQ) : hashQ'[i] = hashQ[j]
  <2>1. \A i \in 1..Len(hashQ') : k + i \in 1..Len(hashQ) /\ hashQ'[i] = hashQ[k + i]
    BY <1>1, <1>2, <1>3
  <2> QED
    BY <2>1
<1>6. \A i \in 1..Len(valQ') :
        \/ \E j \in 1..Len(valQ) : valQ'[i] = valQ[j]
        \/ \E j \in 1..Len(hashQ) : valQ'[i] = hashQ[j]
  <2> DEFINE b == SubSeq(hashQ, 1, k)
  <2>1. b \in Seq(Located) /\ Len(b) = k /\ \A i \in 1..k : b[i] = hashQ[i] /\ i \in 1..Len(hashQ)
    BY <1>1, <1>2, <1>3
  <2> HIDE DEF b
  <2>2. \A i \in 1..Len(valQ') :
          \/ i \in 1..Len(valQ) /\ valQ'[i] = valQ[i]
          \/ i - Len(valQ) \in 1..Len(b) /\ valQ'[i] = b[i - Len(valQ)]
    <3>1. valQ' = valQ \o b
      BY <1>2 DEF b
    <3> QED
      BY <1>1, <2>1, <3>1
  <2> QED
    BY <2>1, <2>2
<1>7. \A i \in 1..Len(hashQ') :
        AsReceived(received, hashQ'[i].p) /\ (hashQ'[i].p.id = 0 => hashQ'[i].nb = 0)
  BY <1>5 DEF ServeInv
<1>8. \A i \in 1..Len(valQ') :
        AsReceived(received, valQ'[i].p) /\ (valQ'[i].p.id = 0 => valQ'[i].nb = 0)
  BY <1>6 DEF ServeInv
<1>9. ServesWhatItHas'
  BY <1>4 DEF ServeInv, ServesWhatItHas
<1> QED
  BY <1>4, <1>7, <1>8, <1>9 DEF ServeInv

LEMMA ValidateServes ==
    ASSUME PeersInv, ServeInv, Validate
    PROVE  ServeInv'
<1>1. valQ \in Seq(Located) /\ valQ # <<>> /\ valQ' = Tail(valQ) /\ Validator \in Writers
  BY DEF PeersInv, TypeOK, Validate, Writers
<1>2. job'[Validator] = valQ[1] /\ 1 \in 1..Len(valQ)
  BY <1>1, HeadTyped DEF PeersInv, TypeOK, Validate
<1>3. /\ UNCHANGED <<procQ, hashQ, received, respQ, reply, sent, served, stored>>
      /\ failed \subseteq failed'
  BY DEF Validate
<1>4. \A i \in 1..Len(valQ') :
        AsReceived(received, valQ'[i].p) /\ (valQ'[i].p.id = 0 => valQ'[i].nb = 0)
  BY <1>1, TailEntries DEF ServeInv
<1>5. AsReceived(received, job'[Validator].p) /\ (job'[Validator].p.id = 0 => job'[Validator].nb = 0)
  BY <1>2 DEF ServeInv
<1>6. ServesWhatItHas'
  BY <1>3 DEF ServeInv, ServesWhatItHas
<1> QED
  BY <1>3, <1>4, <1>5, <1>6 DEF ServeInv

LEMMA PassRequestServes ==
    ASSUME PeersInv, ServeInv, StoreInv, PassRequest
    PROVE  ServeInv'
<1> DEFINE j == job[Validator]
<1>1. Validator \in Writers /\ pc[Validator] = "request" /\ ProcessRequest(j.p, j.nb, j.p.tx)
  BY DEF Writers, PassRequest
<1>2. j \in Located /\ j.p \in Packet /\ j # None
  BY <1>1, JobTyped, NoneFacts
<1>3. j.nb \in 0..Capacity /\ (j.p.id = 0 => j.nb = 0) /\ AsReceived(received, j.p)
  BY <1>2 DEF Located, ServeInv
<1>4. UNCHANGED <<procQ, hashQ, valQ, received, reply, sent, stored, failed>> /\ job'[Validator] = None
  BY DEF PassRequest, PeersInv, TypeOK, Writers
<1> HIDE DEF j
<1>5. RespondsAsAsked(received, respQ') /\ served' \subseteq 0..Len(received)
  BY <1>1, <1>2, <1>3, PassedServes
<1>6. ServesWhatItHas'
  BY <1>4 DEF ServeInv, ServesWhatItHas
<1> QED
  BY <1>4, <1>5, <1>6 DEF ServeInv, RespondsAsAsked

LEMMA LoadReplyServes ==
    ASSUME PeersInv, ServeInv, LoadReply
    PROVE  ServeInv'
<1> DEFINE q == Head(respQ)
           A(t) == [id |-> q.id, nb |-> q.nb, hash |-> q.hash, tx |-> t]
           want == received[q.id].req
<1>1. respQ \in Seq(Asked) /\ respQ # <<>> /\ respQ' = Tail(respQ) /\ reply = None
  BY DEF PeersInv, TypeOK, LoadReply
<1>2. q \in Asked /\ q = respQ[1] /\ 1 \in 1..Len(respQ)
  BY <1>1, HeadTyped
<1>3. q.id <= Len(received) /\ (HasWhatIsAsked(received, q.id) => q.hash = want)
  BY <1>2 DEF ServeInv
<1>4. /\ UNCHANGED <<procQ, hashQ, valQ, received, sent, stored, job>> /\ failed \subseteq failed'
      /\ served' = served \cup {q.id} \/ served' = served
  BY DEF LoadReply, threads
<1>5. \/ reply' = None
      \/ q.hash = Null /\ \E t \in stored \cup {None} : reply' = A(t)
      \/ q.hash # Null /\ reply' = A(IF q.hash \in stored THEN q.hash ELSE None)
      \/ reply' = A(None) /\ (q.hash \in Tx => q.hash \in failed')
  BY <1>1 DEF LoadReply
<1>6. q.id \in 1..Len(received)
  <2>1. q.id \in Nat \ {0}
    BY <1>2 DEF Asked
  <2>2. Len(received) \in Nat
    BY DEF PeersInv, TypeOK
  <2> QED
    BY <1>3, <2>1, <2>2
<1>7. \A t : A(t).id = q.id /\ A(t).tx = t
  OBVIOUS
<1> HIDE DEF q, A
<1>8. HasWhatIsAsked(received, q.id) => want \in stored /\ want \in Tx /\ want # Null
  <2> SUFFICES ASSUME HasWhatIsAsked(received, q.id) PROVE want \in stored /\ want \in Tx /\ want # Null
    OBVIOUS
  <2>1. want \in stored
    BY <1>6 DEF HasWhatIsAsked, ServeInv
  <2>2. want \in Tx
    BY <2>1, HashFacts DEF PeersInv, TypeOK
  <2> QED
    BY <2>1, <2>2, HashFacts
<1>9. reply' # None =>
        /\ reply'.id = q.id
        /\ HasWhatIsAsked(received, q.id) /\ want \notin failed' => reply'.tx = want
  <2> HIDE DEF want
  <2> QED
    BY <1>3, <1>5, <1>7, <1>8
<1>10. RespondsAsAsked(received, respQ')
  BY <1>1, TailEntries DEF ServeInv, RespondsAsAsked
<1>11. served' \subseteq 0..Len(received)
  <2>1. served \subseteq 0..Len(received)
    BY DEF ServeInv
  <2>2. q.id \in 0..Len(received)
    BY <1>6
  <2> QED
    BY <1>4, <2>1, <2>2
<1>12. ServesWhatItHas'
  BY <1>4 DEF ServeInv, ServesWhatItHas
<1>13. reply' # None =>
         /\ reply'.id <= Len(received')
         /\ HasWhatIsAsked(received', reply'.id) /\ received'[reply'.id].req \notin failed' =>
              reply'.tx = received'[reply'.id].req
  BY <1>3, <1>4, <1>9
<1> QED
  BY <1>4, <1>10, <1>11, <1>12, <1>13 DEF ServeInv, RespondsAsAsked

LEMMA RespondServes ==
    ASSUME PeersInv, ServeInv, Respond
    PROVE  ServeInv'
<1>1. reply \in Reply /\ reply # None /\ reply' = None
  BY DEF PeersInv, TypeOK, Respond
<1>2. reply.id \in 1..Len(received) /\ Len(received) \in Nat
  <2>1. reply.id \in Nat \ {0} /\ reply.id <= Len(received)
    BY <1>1 DEF Reply, ServeInv
  <2>2. Len(received) \in Nat
    BY DEF PeersInv, TypeOK
  <2> QED
    BY <2>1, <2>2
<1>3. /\ UNCHANGED <<procQ, hashQ, valQ, received, respQ, stored, failed, job>>
      /\ served' = served \cup {reply.id}
  BY DEF Respond, threads
<1>4. PICK t, to : /\ reply.tx # None => t = reply.tx
                   /\ sent' \in {sent, sent \cup {[kind |-> "reply", to |-> to, tx |-> t, why |-> reply.id]}}
  BY DEF Respond
<1> DEFINE e == [kind |-> "reply", to |-> to, tx |-> t, why |-> reply.id]
<1>5. e.why = reply.id /\ e.tx = t /\ \A s \in sent' : s \in sent \/ s = e
  BY <1>4
<1> HIDE DEF e
<1>6. HasWhatIsAsked(received, reply.id) /\ received[reply.id].req \notin failed => t = received[reply.id].req
  <2> SUFFICES ASSUME HasWhatIsAsked(received, reply.id), received[reply.id].req \notin failed
               PROVE  t = received[reply.id].req
    OBVIOUS
  <2>1. reply.tx = received[reply.id].req
    BY <1>1 DEF ServeInv
  <2>2. received[reply.id].req \in stored
    BY <1>2 DEF HasWhatIsAsked, ServeInv
  <2>3. received[reply.id].req # None
    BY <2>2, HashFacts DEF PeersInv, TypeOK
  <2> QED
    BY <1>4, <2>1, <2>3
<1>7. \A s \in sent' : s.kind = "reply" => s.why \in 1..Len(received)
  BY <1>2, <1>5 DEF ServeInv
<1>8. ServesWhatItHas'
  <2> SUFFICES ASSUME NEW s \in sent', s.kind = "reply", received[s.why].had,
                      received[s.why].req # received[s.why].tx, received[s.why].req \notin failed
               PROVE  s.tx = received[s.why].req
    BY <1>3 DEF ServesWhatItHas
  <2>1. CASE s \in sent
    BY <2>1 DEF ServeInv, ServesWhatItHas
  <2>2. CASE s = e
    BY <1>5, <1>6, <2>2 DEF HasWhatIsAsked
  <2> QED
    BY <1>5, <2>1, <2>2
<1>9. served' \subseteq 0..Len(received)
  <2>1. served \subseteq 0..Len(received)
    BY DEF ServeInv
  <2>2. reply.id \in 0..Len(received)
    BY <1>2
  <2> QED
    BY <1>3, <2>1, <2>2
<1> QED
  BY <1>1, <1>3, <1>7, <1>8, <1>9 DEF ServeInv
-----------------------------------------------------------------------------
(* Where the request of a packet is.                                       *)

\* How often a packet, or what it asks for, is in a queue.
Queued(q, id)  == Cardinality({i \in DOMAIN q : q[i].id = id})
QueuedP(q, id) == Cardinality({i \in DOMAIN q : q[i].p.id = id})

\* Whether a thread has it in hand.
Working(j, id)    == IF j # None /\ j.p.id = id THEN 1 ELSE 0
Answering(rep, id) == IF rep # None /\ rep.id = id THEN 1 ELSE 0
Served(srv, id)   == IF id \in srv THEN 1 ELSE 0

LEMMA PlacesAre ==
    ASSUME NEW id
    PROVE  /\ Places(id) = Queued(procQ, id) + QueuedP(hashQ, id) + QueuedP(valQ, id)
                           + Working(job[Validator], id) + Queued(respQ, id)
                           + Answering(reply, id) + Served(served, id)
           /\ Places(id)' = Queued(procQ', id) + QueuedP(hashQ', id) + QueuedP(valQ', id)
                            + Working(job'[Validator], id) + Queued(respQ', id)
                            + Answering(reply', id) + Served(served', id)
BY DEF Places, Queued, QueuedP, Working, Answering, Served

ById(T, id)  == {e \in T : e.id = id}
ByPid(T, id) == {e \in T : e.p.id = id}

LEMMA QueuedIsCount ==
    ASSUME NEW T, NEW q \in Seq(T), NEW id
    PROVE  /\ Queued(q, id) = Count(q, ById(T, id)) /\ Queued(q, id) \in Nat
           /\ QueuedP(q, id) = Count(q, ByPid(T, id)) /\ QueuedP(q, id) \in Nat
<1>1. {i \in DOMAIN q : q[i].id = id} = Hits(q, ById(T, id))
  BY DEF Hits, ById
<1>2. {i \in DOMAIN q : q[i].p.id = id} = Hits(q, ByPid(T, id))
  BY DEF Hits, ByPid
<1>3. Count(q, ById(T, id)) \in Nat /\ Count(q, ByPid(T, id)) \in Nat
  BY CountIsNat
<1> QED
  BY <1>1, <1>2, <1>3 DEF Queued, QueuedP, Count

LEMMA QueuedAppend ==
    ASSUME NEW T, NEW q \in Seq(T), NEW e \in T, NEW id
    PROVE  /\ Queued(Append(q, e), id) = Queued(q, id) + (IF e.id = id THEN 1 ELSE 0)
           /\ QueuedP(Append(q, e), id) = QueuedP(q, id) + (IF e.p.id = id THEN 1 ELSE 0)
<1>1. Append(q, e) \in Seq(T)
  OBVIOUS
<1>2. (e \in ById(T, id) <=> e.id = id) /\ (e \in ByPid(T, id) <=> e.p.id = id)
  BY DEF ById, ByPid
<1>3. /\ Count(Append(q, e), ById(T, id)) = Count(q, ById(T, id)) + (IF e \in ById(T, id) THEN 1 ELSE 0)
      /\ Count(Append(q, e), ByPid(T, id)) = Count(q, ByPid(T, id)) + (IF e \in ByPid(T, id) THEN 1 ELSE 0)
  BY CountAppend
<1>4. /\ Queued(Append(q, e), id) = Count(Append(q, e), ById(T, id))
      /\ QueuedP(Append(q, e), id) = Count(Append(q, e), ByPid(T, id))
  BY <1>1, QueuedIsCount
<1>5. Queued(q, id) = Count(q, ById(T, id)) /\ QueuedP(q, id) = Count(q, ByPid(T, id))
  BY QueuedIsCount
<1> QED
  BY <1>2, <1>3, <1>4, <1>5

LEMMA QueuedTail ==
    ASSUME NEW T, NEW q \in Seq(T), q # <<>>, NEW id
    PROVE  /\ Queued(q, id) = (IF Head(q).id = id THEN 1 ELSE 0) + Queued(Tail(q), id)
           /\ QueuedP(q, id) = (IF Head(q).p.id = id THEN 1 ELSE 0) + QueuedP(Tail(q), id)
<1>1. Tail(q) \in Seq(T) /\ Head(q) \in T
  BY HeadTyped
<1>2. /\ Head(q) \in ById(T, id) <=> Head(q).id = id
      /\ Head(q) \in ByPid(T, id) <=> Head(q).p.id = id
  BY <1>1 DEF ById, ByPid
<1>3. /\ Count(q, ById(T, id)) = (IF Head(q) \in ById(T, id) THEN 1 ELSE 0) + Count(Tail(q), ById(T, id))
      /\ Count(q, ByPid(T, id)) = (IF Head(q) \in ByPid(T, id) THEN 1 ELSE 0) + Count(Tail(q), ByPid(T, id))
  BY CountTail
<1>4. /\ Queued(Tail(q), id) = Count(Tail(q), ById(T, id))
      /\ QueuedP(Tail(q), id) = Count(Tail(q), ByPid(T, id))
  BY <1>1, QueuedIsCount
<1>5. Queued(q, id) = Count(q, ById(T, id)) /\ QueuedP(q, id) = Count(q, ByPid(T, id))
  BY QueuedIsCount
<1> QED
  BY <1>2, <1>3, <1>4, <1>5

LEMMA QueuedNone ==
    ASSUME NEW T, NEW q \in Seq(T), NEW id
    PROVE  /\ (\A i \in 1..Len(q) : q[i].id # id) => Queued(q, id) = 0
           /\ (\A i \in 1..Len(q) : q[i].p.id # id) => QueuedP(q, id) = 0
<1>1. ASSUME \A i \in 1..Len(q) : q[i].id # id PROVE Count(q, ById(T, id)) = 0
  <2>1. \A i \in 1..Len(q) : q[i] \notin ById(T, id)
    BY <1>1 DEF ById
  <2> QED
    BY <2>1, CountNone
<1>2. ASSUME \A i \in 1..Len(q) : q[i].p.id # id PROVE Count(q, ByPid(T, id)) = 0
  <2>1. \A i \in 1..Len(q) : q[i] \notin ByPid(T, id)
    BY <1>2 DEF ByPid
  <2> QED
    BY <2>1, CountNone
<1> QED
  BY <1>1, <1>2, QueuedIsCount

\* What AskedOnce counts is counted in numbers.
LEMMA PlacesAreNumbers ==
    ASSUME PeersInv, NEW id
    PROVE  /\ Queued(procQ, id) \in Nat /\ QueuedP(hashQ, id) \in Nat /\ QueuedP(valQ, id) \in Nat
           /\ Queued(respQ, id) \in Nat
           /\ Working(job[Validator], id) \in Nat /\ Answering(reply, id) \in Nat /\ Served(served, id) \in Nat
<1>1. /\ procQ \in Seq(Packet) /\ hashQ \in Seq(Located) /\ valQ \in Seq(Located)
      /\ respQ \in Seq(Asked)
  BY DEF PeersInv, TypeOK
<1>2. /\ Queued(procQ, id) \in Nat /\ QueuedP(hashQ, id) \in Nat /\ QueuedP(valQ, id) \in Nat
      /\ Queued(respQ, id) \in Nat
  BY <1>1, QueuedIsCount
<1>3. Working(job[Validator], id) \in Nat /\ Answering(reply, id) \in Nat /\ Served(served, id) \in Nat
  BY DEF Working, Answering, Served
<1> QED
  BY <1>2, <1>3

\* A step that moves no request.
LEMMA AskedKept ==
    ASSUME AskedOnce, UNCHANGED <<procQ, hashQ, valQ, respQ, reply, served, received>>,
           job'[Validator] = job[Validator]
    PROVE  AskedOnce'
<1>1. \A id : Places(id)' = Places(id)
  BY PlacesAre
<1> QED
  BY <1>1 DEF AskedOnce

LEMMA BroadcastTransactionsAsks ==
    ASSUME PeersInv, AskedOnce, NEW t \in Tx, BroadcastTransactions(t)
    PROVE  AskedOnce'
<1> DEFINE e == [id |-> 0, src |-> Api, tx |-> t, req |-> Null]
<1>1. e \in Packet /\ e.id = 0 /\ procQ' = Append(procQ, e) /\ procQ \in Seq(Packet)
  BY DEF Packet, BroadcastTransactions, PeersInv, TypeOK
<1>2. UNCHANGED <<hashQ, valQ, respQ, reply, served, received, job>>
  BY DEF BroadcastTransactions, threads, history
<1> HIDE DEF e
<1>3. ASSUME NEW id \in 1..Len(received) PROVE Places(id)' = 1
  <2>1. Queued(procQ', id) = Queued(procQ, id)
    BY <1>1, <1>3, QueuedAppend, PlacesAreNumbers
  <2> QED
    BY <1>2, <2>1, PlacesAre DEF AskedOnce
<1> QED
  BY <1>2, <1>3 DEF AskedOnce

LEMMA ReceiveAsks ==
    ASSUME PeersInv, ServeInv, AskedOnce, NEW n \in Neighbors, NEW t \in Tx, NEW r \in Tx \cup {Null},
           Receive(n, t, r)
    PROVE  AskedOnce'
<1> DEFINE N == Len(received)
           e == [id |-> N + 1, src |-> slots[conn[n]].peer, tx |-> t, req |-> r]
<1>1. Len(received') = N + 1 /\ N \in Nat
  BY AsReceivedKept
<1>2. /\ procQ \in Seq(Packet) /\ hashQ \in Seq(Located) /\ valQ \in Seq(Located)
      /\ respQ \in Seq(Asked) /\ procQ' = Append(procQ, e)
  BY DEF PeersInv, TypeOK, Receive
<1>3. UNCHANGED <<hashQ, valQ, respQ, reply, served, job>>
  BY DEF Receive, threads
<1>4. e \in Packet /\ e.id = N + 1
  <2>1. slots[conn[n]] \in Peer
    BY ArrayTyped DEF PeersInv, Receive
  <2> QED
    BY <1>1, <2>1 DEF Packet, Peer
<1> HIDE DEF e, N
<1>5. ASSUME NEW id PROVE Places(id)' = Places(id) + (IF id = N + 1 THEN 1 ELSE 0)
  <2>1. Queued(procQ', id) = Queued(procQ, id) + (IF e.id = id THEN 1 ELSE 0)
    BY <1>2, <1>4, QueuedAppend
  <2> QED
    BY <1>3, <1>4, <2>1, PlacesAre, PlacesAreNumbers
<1>6. Places(N + 1) = 0
  <2>1. \A p \in Packet : AsReceived(received, p) => p.id # N + 1
    BY <1>1 DEF AsReceived, Packet, N
  <2>2. Queued(procQ, N + 1) = 0
    BY <1>2, <2>1, QueuedNone DEF ServeInv
  <2>3. \A l \in Located : AsReceived(received, l.p) => l.p.id # N + 1
    BY <2>1 DEF Located
  <2>4. QueuedP(hashQ, N + 1) = 0
    BY <1>2, <2>3, QueuedNone DEF ServeInv
  <2>5. QueuedP(valQ, N + 1) = 0
    BY <1>2, <2>3, QueuedNone DEF ServeInv
  <2>6. Working(job[Validator], N + 1) = 0
    <3>1. job[Validator] # None => job[Validator] \in Located /\ AsReceived(received, job[Validator].p)
      BY DEF PeersInv, TypeOK, ServeInv, Writers
    <3> QED
      BY <2>3, <3>1 DEF Working
  <2>7. Queued(respQ, N + 1) = 0
    <3>1. \A i \in 1..Len(respQ) : respQ[i] \in Asked /\ respQ[i].id <= N
      BY <1>2 DEF ServeInv, N
    <3>2. \A i \in 1..Len(respQ) : respQ[i].id # N + 1
      BY <1>1, <3>1 DEF Asked
    <3> QED
      BY <1>2, <3>2, QueuedNone
  <2>8. Answering(reply, N + 1) = 0
    <3>1. reply # None => reply \in Reply /\ reply.id <= N
      BY DEF PeersInv, TypeOK, ServeInv, N
    <3>2. reply # None => reply.id # N + 1
      BY <1>1, <3>1 DEF Reply
    <3> QED
      BY <3>2 DEF Answering
  <2>9. Served(served, N + 1) = 0
    <3>1. served \subseteq 0..N
      BY DEF ServeInv, N
    <3> QED
      BY <1>1, <3>1 DEF Served
  <2> QED
    BY <2>2, <2>4, <2>5, <2>6, <2>7, <2>8, <2>9, PlacesAre
<1>7. ASSUME NEW id \in 1..(N + 1) PROVE Places(id)' = 1
  <2>1. CASE id = N + 1
    BY <1>5, <1>6, <2>1
  <2>2. CASE id # N + 1
    <3>1. id \in 1..N
      BY <1>1, <2>2
    <3> QED
      BY <1>5, <2>2, <3>1 DEF AskedOnce, N
  <2> QED
    BY <2>1, <2>2
<1> QED
  BY <1>1, <1>7 DEF AskedOnce
\* responder_process_request takes a request once.
LEMMA PassedAsks ==
    ASSUME PeersInv, NEW q \in Packet, NEW nb \in 0..Capacity, NEW h, q.id = 0 => nb = 0,
           ProcessRequest(q, nb, h), NEW id, q.id = id => Served(served, id) = 0
    PROVE  Queued(respQ', id) + Served(served', id)
             = Queued(respQ, id) + Served(served, id) + (IF q.id = id THEN 1 ELSE 0)
<1>1. Queued(respQ, id) \in Nat /\ Served(served, id) \in Nat /\ respQ \in Seq(Asked)
  BY PlacesAreNumbers DEF PeersInv, TypeOK
<1>2. CASE nb = 0
  <2>1. respQ' = respQ /\ served' = served \cup {q.id}
    BY <1>2 DEF ProcessRequest
  <2>2. Served(served', id) = Served(served, id) + (IF q.id = id THEN 1 ELSE 0)
    BY <2>1 DEF Served
  <2> QED
    BY <1>1, <2>1, <2>2
<1>3. CASE nb # 0
  <2> DEFINE e == [id |-> q.id, nb |-> nb, hash |-> RequestHash(q, h)]
  <2>1. e \in Asked /\ e.id = q.id
    BY <1>3, RequestTyped, CapacityIsNat DEF Asked, Packet
  <2>2. respQ' = Append(respQ, e) /\ served' = served
    BY <1>3 DEF ProcessRequest
  <2> HIDE DEF e
  <2>3. Queued(respQ', id) = Queued(respQ, id) + (IF e.id = id THEN 1 ELSE 0)
    BY <1>1, <2>1, <2>2, QueuedAppend
  <2> QED
    BY <1>1, <2>1, <2>2, <2>3
<1> QED
  BY <1>2, <1>3

LEMMA SumMoves ==
    ASSUME NEW x \in Nat, NEW r \in Nat, NEW d \in Nat, NEW r2 \in Nat, NEW d2 \in Nat, NEW c \in Nat,
           r2 + d2 = r + d + c, 1 = c + x + r + d
    PROVE  x + r2 + d2 = 1
OBVIOUS

LEMMA ProcessAsks ==
    ASSUME PeersInv, PeersInv', ServeInv, AskedOnce, Process
    PROVE  AskedOnce'
<1> DEFINE q == Head(procQ)
           nb == Find(q.src)
<1>1. procQ \in Seq(Packet) /\ procQ # <<>> /\ procQ' = Tail(procQ) /\ hashQ \in Seq(Located)
  BY DEF PeersInv, TypeOK, Process
<1>2. q \in Packet /\ q = procQ[1] /\ 1 \in 1..Len(procQ)
  BY <1>1, HeadTyped
<1>3. AsReceived(received, q)
  BY <1>2 DEF ServeInv
<1>4. UNCHANGED <<valQ, received, reply, job>>
  BY DEF Process, threads
<1>5. \/ ProcessRequest(q, nb, CacheGet(Digest[q.tx])) /\ UNCHANGED hashQ
      \/ hashQ' = Append(hashQ, [p |-> q, nb |-> nb]) /\ UNCHANGED <<respQ, served>>
  BY DEF Process
<1>6. \A id : Queued(procQ, id) = (IF q.id = id THEN 1 ELSE 0) + Queued(procQ', id)
  BY <1>1, QueuedTail
<1> HIDE DEF q, nb
<1>7. nb \in 0..Capacity /\ (q.id = 0 => nb = 0)
  BY <1>2, <1>3, SourceIsFound DEF nb
<1>8. ASSUME NEW id \in 1..Len(received) PROVE Places(id)' = 1
  <2>1. Places(id) = 1
    BY DEF AskedOnce
  <2>2. \A qu \in Seq(Packet) : Queued(qu, id) \in Nat
    BY QueuedIsCount
  <2>3. Queued(procQ', id) \in Nat
    BY <2>2 DEF PeersInv, TypeOK
  <2>4. CASE ProcessRequest(q, nb, CacheGet(Digest[q.tx])) /\ UNCHANGED hashQ
    <3>1. q.id = id => Served(served, id) = 0
      BY <1>6, <2>1, <2>3, PlacesAre, PlacesAreNumbers
    <3>2. Queued(respQ', id) + Served(served', id)
             = Queued(respQ, id) + Served(served, id) + (IF q.id = id THEN 1 ELSE 0)
      BY <1>2, <1>7, <2>4, <3>1, PassedAsks
    <3>3. Queued(respQ', id) \in Nat /\ Served(served', id) \in Nat
      <4>1. respQ' \in Seq(Asked)
        BY DEF PeersInv, TypeOK
      <4> QED
        BY <4>1, QueuedIsCount DEF Served
    <3>4. Places(id)' = Queued(procQ', id) + QueuedP(hashQ, id) + QueuedP(valQ, id)
                        + Working(job[Validator], id) + Queued(respQ', id)
                        + Answering(reply, id) + Served(served', id)
      BY <1>4, <2>4, PlacesAre
    <3>5. 1 = (IF q.id = id THEN 1 ELSE 0) + Queued(procQ', id) + QueuedP(hashQ, id)
              + QueuedP(valQ, id) + Working(job[Validator], id) + Queued(respQ, id)
              + Answering(reply, id) + Served(served, id)
      BY <1>6, <2>1, PlacesAre
    <3>6. /\ QueuedP(hashQ, id) \in Nat /\ QueuedP(valQ, id) \in Nat /\ Queued(respQ, id) \in Nat
          /\ Working(job[Validator], id) \in Nat /\ Answering(reply, id) \in Nat
          /\ Served(served, id) \in Nat
      BY PlacesAreNumbers
    <3> DEFINE c == IF q.id = id THEN 1 ELSE 0
               x == Queued(procQ', id) + QueuedP(hashQ, id) + QueuedP(valQ, id)
                      + Working(job[Validator], id) + Answering(reply, id)
               r == Queued(respQ, id)
               d == Served(served, id)
               r2 == Queued(respQ', id)
               d2 == Served(served', id)
    <3>7. c \in Nat /\ x \in Nat /\ r \in Nat /\ d \in Nat /\ r2 \in Nat /\ d2 \in Nat
      BY <2>3, <3>3, <3>6
    <3>8. Places(id)' = x + r2 + d2
      BY <2>3, <3>3, <3>4, <3>6
    <3>9. r2 + d2 = r + d + c /\ 1 = c + x + r + d
      BY <2>3, <3>2, <3>3, <3>5, <3>6
    <3> HIDE DEF c, x, r, d, r2, d2
    <3> QED
      BY <3>7, <3>8, <3>9, SumMoves
  <2>5. CASE hashQ' = Append(hashQ, [p |-> q, nb |-> nb]) /\ UNCHANGED <<respQ, served>>
    <3> DEFINE e == [p |-> q, nb |-> nb]
    <3>1. e \in Located /\ e.p = q /\ hashQ' = Append(hashQ, e)
      BY <1>2, <1>7, <2>5 DEF Located
    <3> HIDE DEF e
    <3>2. QueuedP(hashQ', id) = QueuedP(hashQ, id) + (IF q.id = id THEN 1 ELSE 0)
      BY <1>1, <3>1, QueuedAppend
    <3> QED
      BY <1>4, <1>6, <2>1, <2>3, <2>5, <3>2, PlacesAre, PlacesAreNumbers
  <2> QED
    BY <1>5, <2>4, <2>5
<1> QED
  BY <1>4, <1>8 DEF AskedOnce

LEMMA HashBatchAsks ==
    ASSUME PeersInv, AskedOnce, HashBatch
    PROVE  AskedOnce'
<1>1. hashQ \in Seq(Located) /\ valQ \in Seq(Located)
  BY DEF PeersInv, TypeOK
<1>2. PICK k \in 1..HasherMax :
        /\ k <= Len(hashQ)
        /\ valQ' = valQ \o SubSeq(hashQ, 1, k)
        /\ hashQ' = SubSeq(hashQ, k + 1, Len(hashQ))
  BY DEF HashBatch
<1>3. k \in 1..Len(hashQ)
  BY <1>1, <1>2, GossipAssumption
<1>4. UNCHANGED <<procQ, received, respQ, reply, served, job>>
  BY DEF HashBatch, threads, history
<1> DEFINE b == SubSeq(hashQ, 1, k)
<1>5. ASSUME NEW id \in 1..Len(received) PROVE Places(id)' = 1
  <2> DEFINE S == ByPid(Located, id)
  <2>1. /\ b \in Seq(Located) /\ hashQ' \in Seq(Located)
        /\ Count(hashQ, S) = Count(b, S) + Count(hashQ', S)
    BY <1>1, <1>2, <1>3, CountSplit
  <2> HIDE DEF b, S
  <2>2. Count(valQ', S) = Count(valQ, S) + Count(b, S)
    BY ZenonT(100), <1>1, <1>2, <2>1, CountConcat DEF b
  <2>3. valQ' \in Seq(Located)
    BY <1>1, <1>2, <2>1 DEF b
  <2>4. QueuedP(hashQ, id) = Count(hashQ, S) /\ QueuedP(valQ, id) = Count(valQ, S)
    BY <1>1, QueuedIsCount DEF S
  <2>5. QueuedP(hashQ', id) = Count(hashQ', S) /\ QueuedP(valQ', id) = Count(valQ', S)
    BY <2>1, <2>3, QueuedIsCount DEF S
  <2>6. Count(b, S) \in Nat /\ Count(hashQ', S) \in Nat /\ Count(valQ, S) \in Nat
    BY <1>1, <2>1, CountIsNat
  <2>7. Places(id) = 1
    BY DEF AskedOnce
  <2> QED
    BY <1>4, <2>1, <2>2, <2>4, <2>5, <2>6, <2>7, PlacesAre, PlacesAreNumbers
<1> QED
  BY <1>4, <1>5 DEF AskedOnce

LEMMA ValidateAsks ==
    ASSUME PeersInv, PeersInv', StoreInv, AskedOnce, Validate
    PROVE  AskedOnce'
<1>1. /\ valQ \in Seq(Located) /\ valQ # <<>> /\ valQ' = Tail(valQ) /\ valQ' \in Seq(Located)
      /\ pc[Validator] = "idle" /\ Validator \in Writers
  BY DEF PeersInv, TypeOK, Validate, Writers
<1>2. job[Validator] = None
  BY <1>1 DEF StoreInv
<1>3. job'[Validator] = Head(valQ) /\ Head(valQ) # None
  BY <1>1, HeadTyped, NoneFacts DEF PeersInv, TypeOK, Validate
<1>4. UNCHANGED <<procQ, hashQ, received, respQ, reply, served>>
  BY DEF Validate
<1>5. ASSUME NEW id \in 1..Len(received) PROVE Places(id)' = 1
  <2>1. QueuedP(valQ, id) = (IF Head(valQ).p.id = id THEN 1 ELSE 0) + QueuedP(valQ', id)
    BY <1>1, QueuedTail
  <2>2. QueuedP(valQ', id) \in Nat
    BY <1>1, QueuedIsCount
  <2>3. /\ Working(job[Validator], id) = 0
        /\ Working(job'[Validator], id) = IF Head(valQ).p.id = id THEN 1 ELSE 0
    BY <1>2, <1>3 DEF Working
  <2>4. Places(id) = 1
    BY DEF AskedOnce
  <2> QED
    BY <1>4, <2>1, <2>2, <2>3, <2>4, PlacesAre, PlacesAreNumbers
<1> QED
  BY <1>4, <1>5 DEF AskedOnce

LEMMA PassRequestAsks ==
    ASSUME PeersInv, PeersInv', ServeInv, StoreInv, AskedOnce, PassRequest
    PROVE  AskedOnce'
<1> DEFINE j == job[Validator]
<1>1. Validator \in Writers /\ pc[Validator] = "request" /\ ProcessRequest(j.p, j.nb, j.p.tx)
  BY DEF Writers, PassRequest
<1>2. j \in Located /\ j.p \in Packet /\ j # None
  BY <1>1, JobTyped, NoneFacts
<1>3. j.nb \in 0..Capacity /\ (j.p.id = 0 => j.nb = 0)
  BY <1>2 DEF Located, ServeInv
<1>4. UNCHANGED <<procQ, hashQ, valQ, received, reply>> /\ job'[Validator] = None
  BY DEF PassRequest, PeersInv, TypeOK, Writers
<1>5. ASSUME NEW id \in 1..Len(received) PROVE Places(id)' = 1
  <2>1. /\ Working(job[Validator], id) = IF j.p.id = id THEN 1 ELSE 0
        /\ Working(job'[Validator], id) = 0
    BY <1>2, <1>4 DEF Working
  <2>2. Places(id) = 1
    BY DEF AskedOnce
  <2> HIDE DEF j
  <2>3. j.p.id = id => Served(served, id) = 0
    BY <2>1, <2>2, PlacesAre, PlacesAreNumbers
  <2>4. Queued(respQ', id) + Served(served', id)
           = Queued(respQ, id) + Served(served, id) + (IF j.p.id = id THEN 1 ELSE 0)
    BY <1>1, <1>2, <1>3, <2>3, PassedAsks
  <2>5. Queued(respQ', id) \in Nat /\ Served(served', id) \in Nat
    <3>1. respQ' \in Seq(Asked)
      BY DEF PeersInv, TypeOK
    <3> QED
      BY <3>1, QueuedIsCount DEF Served
  <2> QED
    BY <1>4, <2>1, <2>2, <2>4, <2>5, PlacesAre, PlacesAreNumbers
<1> QED
  BY <1>4, <1>5 DEF AskedOnce

LEMMA LoadReplyAsks ==
    ASSUME PeersInv, PeersInv', AskedOnce, LoadReply
    PROVE  AskedOnce'
<1> DEFINE q == Head(respQ)
           A(t) == [id |-> q.id, nb |-> q.nb, hash |-> q.hash, tx |-> t]
<1>1. /\ respQ \in Seq(Asked) /\ respQ # <<>> /\ respQ' = Tail(respQ) /\ respQ' \in Seq(Asked)
      /\ reply = None /\ reply' \in Reply \cup {None}
  BY DEF PeersInv, TypeOK, LoadReply
<1>2. q \in Asked
  BY <1>1, HeadTyped
<1>3. UNCHANGED <<procQ, hashQ, valQ, received, job>>
  BY DEF LoadReply, threads
<1>4. \/ reply' = None /\ served' = served \cup {q.id}
      \/ (\E t \in stored \cup {None} : reply' = A(t)) /\ served' = served
  BY <1>1 DEF LoadReply
<1>5. \A t \in stored \cup {None} : A(t) \in Reply /\ A(t).id = q.id
  <2>1. stored \subseteq Tx
    BY HashFacts DEF PeersInv, TypeOK
  <2> QED
    BY <1>2, <2>1 DEF Asked, Reply
<1>6. \A id : Queued(respQ, id) = (IF q.id = id THEN 1 ELSE 0) + Queued(respQ', id)
  BY <1>1, QueuedTail
<1> HIDE DEF q, A
<1>7. ASSUME NEW id \in 1..Len(received) PROVE Places(id)' = 1
  <2>1. Places(id) = 1 /\ Answering(reply, id) = 0
    BY <1>1 DEF AskedOnce, Answering
  <2>2. Queued(respQ', id) \in Nat
    BY <1>1, QueuedIsCount
  <2>3. CASE reply' = None /\ served' = served \cup {q.id}
    <3>1. q.id = id => Served(served, id) = 0
      BY <1>6, <2>1, <2>2, PlacesAre, PlacesAreNumbers
    <3>2. Answering(reply', id) = 0 /\ Served(served', id) = Served(served, id) + (IF q.id = id THEN 1 ELSE 0)
      BY <2>3, <3>1 DEF Answering, Served
    <3> QED
      BY <1>3, <1>6, <2>1, <2>2, <3>2, PlacesAre, PlacesAreNumbers
  <2>4. CASE (\E t \in stored \cup {None} : reply' = A(t)) /\ served' = served
    <3>1. reply' # None /\ reply'.id = q.id
      BY <1>5, <2>4, NoneFacts
    <3>2. Answering(reply', id) = (IF q.id = id THEN 1 ELSE 0) /\ Served(served', id) = Served(served, id)
      BY <2>4, <3>1 DEF Answering
    <3> QED
      BY <1>3, <1>6, <2>1, <2>2, <3>2, PlacesAre, PlacesAreNumbers
  <2> QED
    BY <1>4, <2>3, <2>4
<1> QED
  BY <1>3, <1>7 DEF AskedOnce

LEMMA RespondAsks ==
    ASSUME PeersInv, AskedOnce, Respond
    PROVE  AskedOnce'
<1>1. /\ UNCHANGED <<procQ, hashQ, valQ, respQ, received, job>> /\ reply # None /\ reply' = None
      /\ served' = served \cup {reply.id}
  BY DEF Respond, threads
<1>2. ASSUME NEW id \in 1..Len(received) PROVE Places(id)' = 1
  <2>1. Places(id) = 1
    BY DEF AskedOnce
  <2>2. Answering(reply, id) = (IF reply.id = id THEN 1 ELSE 0) /\ Answering(reply', id) = 0
    BY <1>1 DEF Answering
  <2>3. reply.id = id => Served(served, id) = 0
    BY <2>1, <2>2, PlacesAre, PlacesAreNumbers
  <2>4. Served(served', id) = Served(served, id) + (IF reply.id = id THEN 1 ELSE 0)
    BY <1>1, <2>3 DEF Served
  <2>5. Places(id)' = Queued(procQ, id) + QueuedP(hashQ, id) + QueuedP(valQ, id)
                      + Working(job[Validator], id) + Queued(respQ, id) + Answering(reply', id)
                      + Served(served', id)
    BY <1>1, PlacesAre
  <2>6. 1 = Queued(procQ, id) + QueuedP(hashQ, id) + QueuedP(valQ, id) + Working(job[Validator], id)
            + Queued(respQ, id) + Answering(reply, id) + Served(served, id)
    BY <2>1, PlacesAre
  <2> QED
    BY <2>2, <2>4, <2>5, <2>6, PlacesAreNumbers
<1> QED
  BY <1>1, <1>2 DEF AskedOnce
-----------------------------------------------------------------------------
(* The inductive invariant.                                                *)

LEMMA InitPeers ==
    ASSUME Init
    PROVE  PeersInv
<1>1. Capacity \in Nat /\ used \in 0..Capacity
  <2>1. IsFiniteSet(Neighbors) /\ Paired \subseteq Neighbors
    BY GossipAssumption
  <2>2. /\ IsFiniteSet(Paired) /\ Cardinality(Paired) <= Capacity
        /\ Cardinality(Paired) \in Nat /\ Capacity \in Nat
    BY <2>1, FS_Subset, FS_CardinalityType DEF Capacity
  <2>3. used = Cardinality(Paired)
    BY DEF Init
  <2> QED
    BY <2>2, <2>3
<1>2. {[peer |-> n, up |-> TRUE] : n \in Paired} \subseteq Peer
  <2>1. \A n \in Paired : n \in Neighbors
    BY NeighborsAreNumbers
  <2>2. \A n \in Neighbors : [peer |-> n, up |-> TRUE] \in Peer
    BY DEF Peer
  <2> QED
    BY <2>1, <2>2
<1>3. slots \in [1..Capacity -> Peer \cup {None}]
  <2>1. slots \in [1..Capacity -> {[peer |-> n, up |-> TRUE] : n \in Paired} \cup {None}]
    BY DEF Init
  <2> QED
    BY <1>2, <2>1
<1>4. \A i \in 1..used : i \in 1..Capacity /\ slots[i] # None
  BY <1>1 DEF Init
<1>5. \A n : Find(n) \in 0..Capacity /\ (Find(n) # 0 => slots[Find(n)] # None)
  <2> SUFFICES ASSUME NEW n PROVE Find(n) \in 0..Capacity /\ (Find(n) # 0 => slots[Find(n)] # None)
    OBVIOUS
  <2> DEFINE at == {i \in 1..used : slots[i].peer = n}
  <2>1. Find(n) = 0 \/ Find(n) \in at
    BY DEF Find
  <2>2. \A i \in at : i \in 0..Capacity /\ slots[i] # None
    BY <1>1, <1>4
  <2> HIDE DEF at
  <2> QED
    BY <1>1, <2>1, <2>2
<1>6. conn = [n \in Neighbors |-> Find(n)]
  BY DEF Init
<1>7. /\ conn \in [Neighbors -> 0..Capacity]
      /\ \A n \in Neighbors : conn[n] # 0 => slots[conn[n]] # None
  BY <1>5, <1>6
<1>8. /\ procQ \in Seq(Packet) /\ castQ \in Seq(Packet)
      /\ hashQ \in Seq(Located) /\ valQ \in Seq(Located) /\ respQ \in Seq(Asked)
      /\ received \in Seq([peer : Neighbors, tx : Tx, req : Tx \cup {Null}, had : BOOLEAN])
  BY DEF Init
<1>9. /\ pc \in [Writers -> {"idle", "store", "status", "offer", "put", "request"}]
      /\ job \in [Writers -> Located \cup {None}] /\ reply \in Reply \cup {None}
      /\ stored \subseteq Valid /\ candidates \subseteq stored \cap Tails
      /\ casts \in [Tx -> Nat] /\ failed \subseteq Tx /\ events \in Nat
  BY DEF Init
<1>10. Ordered
  BY DEF Init
<1> QED
  BY <1>1, <1>3, <1>4, <1>7, <1>8, <1>9, <1>10 DEF PeersInv, TypeOK

LEMMA InitInv ==
    ASSUME Init
    PROVE  GossipInv
<1>1. /\ procQ = <<>> /\ hashQ = <<>> /\ valQ = <<>> /\ respQ = <<>> /\ cache = <<>>
      /\ received = <<>> /\ sent = {} /\ served = {} /\ reply = None /\ failed = {}
      /\ candidates = stored \cap Tails
  BY DEF Init
<1>2. /\ pc[Validator] = "idle" /\ job[Validator] = None
      /\ \A w \in Writers : pc[w] = "idle"
      /\ \A t \in Tx : casts[t] = 0
  BY DEF Init, Writers
<1>3. ServeInv
  BY <1>1, <1>2 DEF ServeInv, ServesWhatItHas
<1>4. CacheInv
  <2>1. CacheSize \in Nat
    BY GossipAssumption
  <2> QED
    BY <1>1, <2>1 DEF CacheInv, CacheIsBounded
<1>5. StoreInv
  <2>1. CachedIsStored
    BY <1>1 DEF CachedIsStored, CacheHas
  <2>2. BroadcastOnce /\ MilestonesAreOffered
    BY <1>1, <1>2 DEF BroadcastOnce, MilestonesAreOffered
  <2> QED
    BY <1>2, <2>1, <2>2 DEF StoreInv
<1>6. AskedOnce
  BY <1>1 DEF AskedOnce
<1> QED
  BY <1>3, <1>4, <1>5, <1>6, InitPeers DEF GossipInv

\* What comes from outside: packets, calls, and what is sent on its own.
LEMMA OutsideSteps ==
    ASSUME GossipInv,
           \/ \E n \in Neighbors, t \in Tx, r \in Tx \cup {Null} : Receive(n, t, r)
           \/ \E t \in Tx : BroadcastTransactions(t) \/ StoreTransactions(t)
           \/ Broadcast \/ \E m \in Tails : RequestTips(m)
    PROVE  GossipInv'
<1> USE DEF GossipInv
<1>1. ASSUME NEW n \in Neighbors, NEW t \in Tx, NEW r \in Tx \cup {Null}, Receive(n, t, r)
      PROVE  GossipInv'
  <2>1. UNCHANGED <<cache, reply, stored, threads, casts, candidates, failed>>
    BY <1>1 DEF Receive
  <2>2. CacheInv'
    BY <2>1, CacheKept
  <2>3. StoreInv'
    BY <2>1, StoreKept
  <2> QED
    BY <1>1, <2>2, <2>3, ReceiveTyped, ReceiveServes, ReceiveAsks
<1>2. ASSUME NEW t \in Tx, BroadcastTransactions(t) PROVE GossipInv'
  <2>1. UNCHANGED <<cache, reply, stored, threads, casts, candidates, failed>>
    BY <1>2 DEF BroadcastTransactions, history
  <2>2. CacheInv'
    BY <2>1, CacheKept
  <2>3. StoreInv'
    BY <2>1, StoreKept
  <2> QED
    BY <1>2, <2>2, <2>3, BroadcastTransactionsTyped, BroadcastTransactionsServes, BroadcastTransactionsAsks
<1>3. ASSUME NEW t \in Tx, StoreTransactions(t) PROVE GossipInv'
  <2>1. /\ UNCHANGED <<cache, reply, stored, failed, procQ, hashQ, valQ, received, respQ, sent, served>>
        /\ job'[Validator] = job[Validator]
    BY <1>3, NoneFacts DEF StoreTransactions, history, PeersInv, TypeOK, Writers
  <2>2. CacheInv'
    BY <2>1, CacheKept
  <2>3. ServeInv'
    BY <2>1, ServeKept
  <2>4. AskedOnce'
    BY <2>1, AskedKept
  <2> QED
    BY <1>3, <2>2, <2>3, <2>4, StoreTransactionsTyped, StoreTransactionsStores
<1>4. ASSUME Broadcast \/ \E m \in Tails : RequestTips(m) PROVE GossipInv'
  <2>1. UNCHANGED <<cache, reply, stored, threads, casts, candidates, failed,
                    procQ, hashQ, valQ, respQ, served, received, job>>
    BY <1>4 DEF Broadcast, RequestTips, history, threads
  <2>2. CacheInv'
    BY <2>1, CacheKept
  <2>3. StoreInv'
    BY <2>1, StoreKept
  <2>4. AskedOnce'
    BY <2>1, AskedKept
  <2> QED
    BY <1>4, <2>2, <2>3, <2>4, SendTyped, SendServes
<1> HIDE DEF GossipInv
<1> QED
  BY <1>1, <1>2, <1>3, <1>4

\* The stages up to the responder's queue.
LEMMA StageSteps ==
    ASSUME GossipInv, Process \/ HashBatch \/ Validate \/ MarkSeen \/ PassRequest
    PROVE  GossipInv'
<1> USE DEF GossipInv
<1>1. CASE Process
  <2>1. UNCHANGED <<cache, reply, stored, threads, casts, candidates, failed>>
    BY <1>1 DEF Process
  <2>2. CacheInv' /\ StoreInv'
    BY <2>1, CacheKept, StoreKept
  <2> QED
    BY <1>1, <2>2, ProcessTyped, ProcessServes, ProcessAsks
<1>2. CASE HashBatch
  <2>1. UNCHANGED <<cache, reply, stored, threads, casts, candidates, failed>>
    BY <1>2 DEF HashBatch, history
  <2>2. CacheInv' /\ StoreInv'
    BY <2>1, CacheKept, StoreKept
  <2> QED
    BY <1>2, <2>2, HashBatchTyped, HashBatchServes, HashBatchAsks
<1>3. CASE Validate
  <2>1. UNCHANGED <<cache, reply, stored>>
    BY <1>3 DEF Validate
  <2>2. CacheInv'
    BY <2>1, CacheKept
  <2> QED
    BY <1>3, <2>2, ValidateTyped, ValidateServes, ValidateStores, ValidateAsks
<1>4. CASE MarkSeen
  <2>1. UNCHANGED <<procQ, hashQ, valQ, received, respQ, reply, sent, served, job, stored, failed>>
    BY <1>4 DEF MarkSeen, history
  <2>2. ServeInv' /\ AskedOnce'
    BY <2>1, ServeKept, AskedKept
  <2> QED
    BY <1>4, <2>2, MarkSeenTyped, MarkSeenCache, MarkSeenStores
<1>5. CASE PassRequest
  <2>1. UNCHANGED <<cache, reply, stored>>
    BY <1>5 DEF PassRequest
  <2>2. CacheInv'
    BY <2>1, CacheKept
  <2> QED
    BY <1>5, <2>2, PassRequestTyped, PassRequestServes, PassRequestStores, PassRequestAsks
<1> HIDE DEF GossipInv
<1> QED
  BY <1>1, <1>2, <1>3, <1>4, <1>5

\* Storing a transaction moves no request.
LEMMA StoringSteps ==
    ASSUME GossipInv, NEW w \in Writers, Store(w) \/ UpdateStatus(w) \/ Offer(w)
    PROVE  GossipInv'
<1> USE DEF GossipInv
<1>1. /\ UNCHANGED <<procQ, hashQ, valQ, received, respQ, reply, sent, served, job, cache>>
      /\ stored \subseteq stored' /\ failed \subseteq failed'
  BY DEF Store, UpdateStatus, Offer, Interferes
<1>2. ServeInv' /\ AskedOnce'
  BY <1>1, ServeKept, AskedKept
<1>3. CacheInv'
  BY <1>1, CacheKept
<1>4. PeersInv' /\ StoreInv'
  BY StoreTyped, UpdateStatusTyped, OfferTyped, StoreStores, UpdateStatusStores, OfferStores
<1> QED
  BY <1>2, <1>3, <1>4

LEMMA ResponderSteps ==
    ASSUME GossipInv, LoadReply \/ Respond
    PROVE  GossipInv'
<1> USE DEF GossipInv
<1>1. CASE LoadReply
  <2>1. UNCHANGED <<threads, stored, casts, candidates, cache>> /\ failed \subseteq failed'
    BY <1>1 DEF LoadReply
  <2>2. StoreInv'
    BY <2>1, StoreKept
  <2> QED
    BY <1>1, <2>2, LoadReplyTyped, LoadReplyServes, LoadReplyCache, LoadReplyAsks
<1>2. CASE Respond
  BY <1>2, RespondTyped, RespondServes, RespondCache, RespondStores, RespondAsks
<1> HIDE DEF GossipInv
<1> QED
  BY <1>1, <1>2

\* Neighbors that come and go change nothing in the pipeline.
LEMMA NeighborSteps ==
    ASSUME GossipInv, NEW n \in Neighbors,
           Disconnect(n) \/ Connect(n) \/ NeighborAdd(n) \/ NeighborRemove(n)
    PROVE  GossipInv'
<1> USE DEF GossipInv
<1>1. UNCHANGED pipeline
  BY DEF Disconnect, Connect, NeighborAdd, NeighborRemove, pipeline
<1>2. UNCHANGED <<procQ, hashQ, valQ, received, respQ, reply, sent, served, job, stored, failed,
                  cache, threads, casts, candidates>>
  BY <1>1 DEF pipeline, threads, history
<1>3. ServeInv' /\ AskedOnce'
  BY <1>2, ServeKept, AskedKept
<1>4. CacheInv' /\ StoreInv'
  BY <1>2, CacheKept, StoreKept
<1>5. PeersInv'
  BY DisconnectTyped, ConnectTyped, NeighborAddTyped, NeighborRemoveTyped
<1> QED
  BY <1>3, <1>4, <1>5

LEMMA StepInv ==
    ASSUME GossipInv, [Next]_vars
    PROVE  GossipInv'
<1>1. CASE UNCHANGED vars
  <2>1. UNCHANGED <<peers, procQ, hashQ, valQ, respQ, castQ, cache, stored, candidates, threads,
                    reply, sent, history, events>>
    BY <1>1 DEF vars
  <2>2. UNCHANGED <<slots, used, conn, pc, job, received, served, casts, failed>>
    BY <2>1 DEF peers, threads, history
  <2>3. TypeOK'
    BY <2>1, <2>2 DEF GossipInv, PeersInv, TypeOK
  <2>4. PeersInv'
    BY <2>1, <2>3, PeersKept DEF GossipInv
  <2>5. ServeInv' /\ AskedOnce'
    BY <2>1, <2>2, ServeKept, AskedKept DEF GossipInv
  <2>6. CacheInv' /\ StoreInv'
    BY <2>1, <2>2, CacheKept, StoreKept DEF GossipInv
  <2> QED
    BY <2>4, <2>5, <2>6 DEF GossipInv
<1>2. CASE Next
  BY <1>2, OutsideSteps, StageSteps, StoringSteps, ResponderSteps, NeighborSteps DEF Next
<1> QED
  BY <1>1, <1>2

LEMMA AlwaysGossipInv == Spec => []GossipInv
BY InitInv, StepInv, PTL DEF Spec

\* processor.c, responder.c, router.c: with any number of transactions,
\* neighbors and packets, whatever the sizes of the cache and of the hasher's
\* batches and whichever storage calls fail, every request received is in one
\* place or served, never lost nor served twice, and is answered with the
\* transaction asked for when the node had it.
THEOREM RequestsServed == Spec => []RequestsAreServed
<1>1. GossipInv => RequestsAreServed
  BY DEF GossipInv, PeersInv, ServeInv, RequestsAreServed
<1> QED
  BY <1>1, AlwaysGossipInv, PTL

\* validator.c, processor.c, recent_seen_bytes_cache.c: in the same
\* generality a transaction is put up for broadcast at most once, the cache
\* hides none that the node lacks, and every milestone stored is offered to
\* the milestone tracker.
THEOREM TransactionsAllGoOn == Spec => []TransactionsGoOn
<1>1. GossipInv => TransactionsGoOn
  BY DEF GossipInv, CacheInv, StoreInv, TransactionsGoOn
<1> QED
  BY <1>1, AlwaysGossipInv, PTL
=============================================================================
