----------------------------- MODULE GossipSteps ----------------------------
(***************************************************************************)
(* Proofs about Gossip, for every set of transactions and of up to eight   *)
(* neighbors, every size of the cache and of the hasher's batches, and any *)
(* number of packets, calls and storage errors.                            *)
(***************************************************************************)
EXTENDS Gossip, FiniteSetTheorems, WellFoundedInduction, TLAPS
USE ZenonT(10), SMTT(60)
-----------------------------------------------------------------------------
(* Sequences, and how many of their entries are in a set.                  *)

LEMMA LeastOf ==
    ASSUME NEW T, T \subseteq Nat, T # {}
    PROVE  \E x \in T : \A y \in T : x <= y
<1>1. PICK x \in T : \A y \in T : ~ (<<y, x>> \in OpToRel(<, Nat))
  BY WFMin, NatLessThanWellFounded
<1>2. \A y \in T : ~(y < x)
  <2> SUFFICES ASSUME NEW y \in T, y < x PROVE FALSE
    OBVIOUS
  <2>1. y \in Nat /\ x \in Nat
    OBVIOUS
  <2>2. <<y, x>> \in OpToRel(<, Nat)
    BY <2>1 DEF OpToRel
  <2> QED
    BY <2>2, <1>1
<1> QED
  BY <1>2

Hits(q, S) == {i \in 1..Len(q) : q[i] \in S}
Count(q, S) == Cardinality(Hits(q, S))

LEMMA CountIsNat ==
    ASSUME NEW T, NEW q \in Seq(T), NEW S
    PROVE  IsFiniteSet(Hits(q, S)) /\ Count(q, S) \in Nat
<1>1. IsFiniteSet(1..Len(q))
  BY FS_Interval
<1>2. Hits(q, S) \subseteq 1..Len(q)
  BY DEF Hits
<1> QED
  BY <1>1, <1>2, FS_Subset, FS_CardinalityType DEF Count

LEMMA CountConcat ==
    ASSUME NEW T, NEW q \in Seq(T), NEW r \in Seq(T), NEW S
    PROVE  Count(q \o r, S) = Count(q, S) + Count(r, S)
<1> DEFINE A == Hits(q, S)
           B == {i \in 1..Len(q \o r) : i > Len(q) /\ (q \o r)[i] \in S}
           f == [i \in Hits(r, S) |-> Len(q) + i]
<1>1. /\ Len(q) \in Nat /\ Len(r) \in Nat /\ Len(q \o r) = Len(q) + Len(r)
      /\ \A i \in 1..Len(q) : (q \o r)[i] = q[i]
      /\ \A i \in 1..Len(r) : (q \o r)[Len(q) + i] = r[i]
  OBVIOUS
<1>2. Hits(q \o r, S) = A \cup B /\ A \cap B = {}
  BY <1>1 DEF Hits
<1>3. f \in Bijection(Hits(r, S), B)
  <2>1. \A i \in Hits(r, S) : f[i] \in B
    BY <1>1 DEF Hits
  <2>2. \A i, j \in Hits(r, S) : f[i] = f[j] => i = j
    BY <1>1 DEF Hits
  <2>3. \A k \in B : \E i \in Hits(r, S) : f[i] = k
    <3> SUFFICES ASSUME NEW k \in B PROVE k - Len(q) \in Hits(r, S) /\ f[k - Len(q)] = k
      OBVIOUS
    <3>1. k - Len(q) \in 1..Len(r) /\ Len(q) + (k - Len(q)) = k
      BY <1>1
    <3> QED
      BY <1>1, <3>1 DEF Hits
  <2>4. f = [i \in DOMAIN f |-> f[i]] /\ DOMAIN f = Hits(r, S)
    OBVIOUS
  <2> HIDE DEF f, B
  <2> QED
    BY <2>1, <2>2, <2>3, <2>4 DEF Bijection, Injection, Surjection, IsInjective
<1> HIDE DEF f, B, A
<1>4. IsFiniteSet(A) /\ IsFiniteSet(B) /\ Cardinality(B) = Count(r, S)
  <2>1. IsFiniteSet(A) /\ IsFiniteSet(Hits(r, S))
    BY CountIsNat DEF A
  <2>2. ExistsBijection(Hits(r, S), B)
    BY <1>3 DEF ExistsBijection
  <2> QED
    BY <2>1, <2>2, FS_Bijection DEF Count
<1>5. Cardinality(A \cup B) = Cardinality(A) + Cardinality(B) - Cardinality(A \cap B)
  BY <1>4, FS_Union
<1>6. Cardinality(A \cap B) = 0
  BY <1>2, FS_EmptySet
<1>7. Cardinality(A) \in Nat /\ Cardinality(B) \in Nat
  BY <1>4, FS_CardinalityType
<1> QED
  BY <1>2, <1>4, <1>5, <1>6, <1>7 DEF Count, A

LEMMA CountOne ==
    ASSUME NEW T, NEW e \in T, NEW S
    PROVE  Count(<<e>>, S) = IF e \in S THEN 1 ELSE 0
<1>1. Hits(<<e>>, S) = IF e \in S THEN {1} ELSE {}
  BY DEF Hits
<1> QED
  BY <1>1, FS_EmptySet, FS_Singleton DEF Count

LEMMA CountAppend ==
    ASSUME NEW T, NEW q \in Seq(T), NEW e \in T, NEW S
    PROVE  Count(Append(q, e), S) = Count(q, S) + (IF e \in S THEN 1 ELSE 0)
<1>1. Append(q, e) = q \o <<e>> /\ <<e>> \in Seq(T)
  OBVIOUS
<1>2. Count(q \o <<e>>, S) = Count(q, S) + Count(<<e>>, S)
  BY <1>1, CountConcat
<1>3. Count(<<e>>, S) = IF e \in S THEN 1 ELSE 0
  BY CountOne
<1> QED
  BY <1>1, <1>2, <1>3

LEMMA CountTail ==
    ASSUME NEW T, NEW q \in Seq(T), q # <<>>, NEW S
    PROVE  Count(q, S) = (IF Head(q) \in S THEN 1 ELSE 0) + Count(Tail(q), S)
<1>1. q = <<Head(q)>> \o Tail(q) /\ <<Head(q)>> \in Seq(T) /\ Tail(q) \in Seq(T) /\ Head(q) \in T
  OBVIOUS
<1>2. Count(<<Head(q)>> \o Tail(q), S) = Count(<<Head(q)>>, S) + Count(Tail(q), S)
  BY <1>1, CountConcat
<1>3. Count(<<Head(q)>>, S) = IF Head(q) \in S THEN 1 ELSE 0
  BY <1>1, CountOne
<1> QED
  BY <1>1, <1>2, <1>3

LEMMA CountSplit ==
    ASSUME NEW T, NEW q \in Seq(T), NEW k \in 1..Len(q), NEW S
    PROVE  /\ SubSeq(q, 1, k) \in Seq(T) /\ SubSeq(q, k + 1, Len(q)) \in Seq(T)
           /\ Count(q, S) = Count(SubSeq(q, 1, k), S) + Count(SubSeq(q, k + 1, Len(q)), S)
<1>1. SubSeq(q, 1, k) \in Seq(T) /\ SubSeq(q, k + 1, Len(q)) \in Seq(T)
  OBVIOUS
<1>2. q = SubSeq(q, 1, k) \o SubSeq(q, k + 1, Len(q))
  OBVIOUS
<1> QED
  BY ZenonT(100), <1>1, <1>2, CountConcat

LEMMA CountNone ==
    ASSUME NEW T, NEW q \in Seq(T), NEW S, \A i \in 1..Len(q) : q[i] \notin S
    PROVE  Count(q, S) = 0
<1>1. Hits(q, S) = {}
  BY DEF Hits
<1> QED
  BY <1>1, FS_EmptySet DEF Count
-----------------------------------------------------------------------------
(***************************************************************************)
(* The address a stream or a queue entry has is that of memory in use, now *)
(* or before.                                                              *)
(***************************************************************************)
PeersInv ==
    /\ TypeOK /\ Ordered
    /\ \A n \in Neighbors : conn[n] # 0 => slots[conn[n]] # None

\* The packet is as it was received, or comes from the API.
AsReceived(rs, p) ==
    IF p.id = 0 THEN p.src = Api
    ELSE p.id <= Len(rs) /\ p.tx = rs[p.id].tx /\ p.req = rs[p.id].req

\* What a packet asks for, when the node had it.
HasWhatIsAsked(rs, id) == rs[id].had /\ rs[id].req # rs[id].tx

(***************************************************************************)
(* The packets in the queues are those that were received.  A request the  *)
(* node could serve when it came is passed on as it is, whether the hash   *)
(* of its packet was computed or came from the cache, where it is at worst *)
(* the null hash.                                                          *)
(***************************************************************************)
ServeInv ==
    /\ \A i \in 1..Len(procQ) : AsReceived(received, procQ[i])
    /\ \A i \in 1..Len(hashQ) : AsReceived(received, hashQ[i].p) /\ (hashQ[i].p.id = 0 => hashQ[i].nb = 0)
    /\ \A i \in 1..Len(valQ) : AsReceived(received, valQ[i].p) /\ (valQ[i].p.id = 0 => valQ[i].nb = 0)
    /\ job[Validator] # None =>
         /\ AsReceived(received, job[Validator].p)
         /\ job[Validator].p.id = 0 => job[Validator].nb = 0
    /\ \A k \in 1..Len(received) : received[k].had => received[k].req \in stored
    /\ \A i \in 1..Len(respQ) :
         /\ respQ[i].id <= Len(received)
         /\ HasWhatIsAsked(received, respQ[i].id) => respQ[i].hash = received[respQ[i].id].req
    /\ reply # None =>
         /\ reply.id <= Len(received)
         /\ HasWhatIsAsked(received, reply.id) /\ received[reply.id].req \notin failed =>
              reply.tx = received[reply.id].req
    /\ \A s \in sent : s.kind = "reply" => s.why \in 1..Len(received)
    /\ served \subseteq 0..Len(received)
    /\ ServesWhatItHas

Entry == [digest : {Digest[t] : t \in Tx}, hash : Tx \cup {Null}]

\* The cache knows a transaction by its digest, and its hash or the null hash.
CacheInv ==
    /\ cache \in Seq(Entry) /\ CacheIsBounded
    /\ \A i \in 1..Len(cache) : \E t \in Tx : cache[i].digest = Digest[t] /\ cache[i].hash \in {t, Null}
    /\ reply # None => reply.tx = None \/ (reply.tx \in stored /\ reply.hash \in {reply.tx, Null})

(***************************************************************************)
(* The thread that stored a transaction is the only one to deal with it.   *)
(***************************************************************************)
StoreInv ==
    /\ \A w \in Writers :
         /\ pc[w] # "idle" => job[w] # None
         /\ pc[w] \in {"store", "status", "offer"} => job[w].p.tx \in Valid
         /\ pc[w] \in {"status", "offer"} => job[w].p.tx \in stored /\ casts[job[w].p.tx] = 0
    /\ pc[Validator] = "idle" => job[Validator] = None
    /\ \A v, w \in Writers :
         v # w /\ pc[v] \in {"status", "offer"} /\ pc[w] \in {"status", "offer"}
           => job[v].p.tx # job[w].p.tx
    /\ pc[Validator] = "put" /\ job[Validator].p.tx \in Valid =>
         job[Validator].p.tx \in stored \cup failed
    /\ BroadcastOnce /\ CachedIsStored /\ MilestonesAreOffered

GossipInv == PeersInv /\ ServeInv /\ CacheInv /\ StoreInv /\ AskedOnce
-----------------------------------------------------------------------------
(* The neighbors.                                                          *)

LEMMA NeighborsAreNumbers == Neighbors \subseteq Nat /\ Paired \subseteq Neighbors /\ Api \notin Neighbors
BY GossipAssumption

LEMMA HashFacts ==
    /\ Valid \subseteq Tx /\ Tails \subseteq Valid /\ Light \cap Valid = {}
    /\ Null \notin Tx /\ Cut \notin Tx /\ None \notin Tx /\ Null # Cut
BY GossipAssumption

LEMMA NoneFacts ==
    None \notin Peer /\ None \notin Located /\ None \notin Reply /\ Validator # Api
BY GossipAssumption

LEMMA CapacityIsNat == Capacity \in Nat
BY GossipAssumption, FS_CardinalityType DEF Capacity

LEMMA FindIsThere ==
    ASSUME TypeOK, NEW n
    PROVE  /\ Find(n) \in 0..used /\ Find(n) \in 0..Capacity
           /\ Find(n) # 0 => Find(n) \in 1..used /\ slots[Find(n)].peer = n
           /\ Find(n) = 0 => \A i \in 1..used : slots[i].peer # n
<1> DEFINE at == {i \in 1..used : slots[i].peer = n}
<1>1. used \in 0..Capacity /\ Capacity \in Nat
  BY CapacityIsNat DEF TypeOK
<1>2. CASE at = {}
  BY <1>1, <1>2 DEF Find
<1>3. CASE at # {}
  <2>1. Find(n) \in at
    BY <1>3 DEF Find
  <2> QED
    BY <1>1, <2>1
<1> QED
  BY <1>2, <1>3

\* utarray_sort finds a place for a neighbor that is not there.
LEMMA PlaceIsThere ==
    ASSUME TypeOK, Ordered, NEW n \in Neighbors, Find(n) = 0
    PROVE  /\ Place(n) \in 1..(used + 1)
           /\ \A i \in 1..used : slots[i].peer < n <=> i < Place(n)
<1>1. used \in Nat /\ n \in Nat /\ \A i \in 1..used : slots[i].peer \in Nat /\ slots[i].peer # n
  <2>1. used \in 0..Capacity /\ Capacity \in Nat
    BY CapacityIsNat DEF TypeOK
  <2>2. \A i \in 1..used : slots[i] \in Peer
    BY <2>1 DEF TypeOK
  <2>3. \A i \in 1..used : slots[i].peer \in Neighbors
    BY <2>2 DEF Peer
  <2>4. \A i \in 1..used : slots[i].peer # n
    BY FindIsThere
  <2>5. used \in Nat
    BY <2>1
  <2>6. \A a \in Neighbors : a \in Nat
    BY NeighborsAreNumbers
  <2> QED
    BY <2>3, <2>4, <2>5, <2>6
<1> DEFINE T == {i \in 1..used : n < slots[i].peer} \cup {used + 1}
<1>2. T \subseteq Nat /\ T # {}
  BY <1>1
<1>3. PICK k \in T : \A j \in T : k <= j
  BY <1>2, LeastOf
<1>4. k \in 1..(used + 1)
  BY <1>1
<1>5. \A i \in 1..used : slots[i].peer < n <=> i < k
  <2> SUFFICES ASSUME NEW i \in 1..used PROVE slots[i].peer < n <=> i < k
    OBVIOUS
  <2>1. ASSUME i < k PROVE slots[i].peer < n
    <3>1. i \notin T
      BY <1>1, <1>3, <1>4, <2>1
    <3> QED
      BY <1>1, <3>1
  <2>2. ASSUME ~(i < k) PROVE ~(slots[i].peer < n)
    <3>1. k \in 1..used /\ n < slots[k].peer
      BY <1>1, <1>3, <1>4, <2>2
    <3>2. slots[k].peer <= slots[i].peer
      BY <1>1, <1>4, <2>2, <3>1 DEF Ordered
    <3> QED
      BY <1>1, <3>1, <3>2
  <2> QED
    BY <2>1, <2>2
<1> HIDE DEF T
<1> QED
  BY <1>4, <1>5 DEF Place

\* There are no more neighbors than there can be.
LEMMA RoomForOne ==
    ASSUME TypeOK, Ordered, NEW n \in Neighbors, Find(n) = 0
    PROVE  used + 1 \in 0..Capacity
<1>1. used \in 0..Capacity /\ Capacity \in Nat
  BY CapacityIsNat DEF TypeOK
<1>2. \A i \in 1..used : slots[i].peer \in Neighbors
  <2>1. \A i \in 1..used : slots[i] \in Peer
    BY <1>1 DEF TypeOK
  <2> QED
    BY <2>1 DEF Peer
<1>3. \A i, j \in 1..used : slots[i].peer = slots[j].peer => i = j
  <2> SUFFICES ASSUME NEW i \in 1..used, NEW j \in 1..used, i < j PROVE slots[i].peer # slots[j].peer
    BY <1>1
  <2>1. slots[i].peer < slots[j].peer /\ slots[i].peer \in Nat /\ slots[j].peer \in Nat
    BY <1>2, GossipAssumption DEF Ordered
  <2> QED
    BY <2>1
<1> DEFINE R == Neighbors \ {n}
           f == [i \in 1..used |-> slots[i].peer]
<1>4. f \in [1..used -> R]
  BY <1>2, FindIsThere
<1>5. f \in Injection(1..used, R)
  BY <1>3, <1>4 DEF Injection, IsInjective
<1>6. IsFiniteSet(R) /\ Cardinality(R) = Capacity - 1
  BY GossipAssumption, FS_RemoveElement DEF Capacity
<1>7. Cardinality(1..used) = used
  BY <1>1, FS_Interval
<1> HIDE DEF R, f
<1>8. Cardinality(1..used) <= Cardinality(R)
  BY <1>5, <1>6, FS_Injection DEF ExistsInjection
<1> QED
  BY <1>1, <1>6, <1>7, <1>8
-----------------------------------------------------------------------------
(* What the array, the queues and the threads hold, action by action.      *)

Kinds == [peer : Neighbors, tx : Tx, req : Tx \cup {Null}, had : BOOLEAN]

LEMMA RequestTyped ==
    ASSUME NEW q \in Packet, NEW h
    PROVE  RequestHash(q, h) \in Tx \cup {Null, Cut}
BY DEF RequestHash, Decoded, Packet

LEMMA HeadTyped ==
    ASSUME NEW T, NEW q \in Seq(T), q # <<>>
    PROVE  Head(q) \in T /\ Head(q) = q[1] /\ 1 \in 1..Len(q) /\ Tail(q) \in Seq(T)
OBVIOUS

\* What is handed to the responder asks for a packet of a neighbor.
LEMMA PassedTyped ==
    ASSUME TypeOK, NEW q \in Packet, NEW nb \in 0..Capacity, NEW h, q.id = 0 => nb = 0,
           ProcessRequest(q, nb, h)
    PROVE  respQ' \in Seq(Asked)
<1>1. CASE nb = 0
  BY <1>1 DEF ProcessRequest, TypeOK
<1>2. CASE nb # 0
  <2>1. [id |-> q.id, nb |-> nb, hash |-> RequestHash(q, h)] \in Asked
    BY <1>2, RequestTyped, CapacityIsNat DEF Asked, Packet
  <2>2. respQ' = Append(respQ, [id |-> q.id, nb |-> nb, hash |-> RequestHash(q, h)])
    BY <1>2 DEF ProcessRequest
  <2>3. respQ \in Seq(Asked)
    BY DEF TypeOK
  <2> QED
    BY <2>1, <2>2, <2>3
<1> QED
  BY <1>1, <1>2

LEMMA PeersKept ==
    ASSUME PeersInv, UNCHANGED peers, TypeOK'
    PROVE  PeersInv'
BY DEF PeersInv, peers, Ordered

LEMMA ReceiveTyped ==
    ASSUME PeersInv, NEW n \in Neighbors, NEW t \in Tx, NEW r \in Tx \cup {Null}, Receive(n, t, r)
    PROVE  PeersInv'
<1>1. slots[conn[n]].peer \in Neighbors
  <2>1. slots[conn[n]] \in Peer
    BY CapacityIsNat DEF PeersInv, TypeOK, Receive
  <2> QED
    BY <2>1 DEF Peer
<1>2. Len(received) \in Nat
  BY DEF PeersInv, TypeOK
<1>3. [id |-> Len(received) + 1, src |-> slots[conn[n]].peer, tx |-> t, req |-> r] \in Packet
  BY <1>1, <1>2 DEF Packet
<1>4. procQ' \in Seq(Packet)
  BY <1>3 DEF PeersInv, TypeOK, Receive
<1>5. received' \in Seq(Kinds)
  <2>1. received \in Seq(Kinds) /\ [peer |-> n, tx |-> t, req |-> r, had |-> r \in stored] \in Kinds
    BY DEF PeersInv, TypeOK, Kinds
  <2> QED
    BY <2>1 DEF Receive
<1>6. TypeOK'
  BY <1>4, <1>5 DEF PeersInv, TypeOK, Receive, peers, threads, Kinds
<1> QED
  BY <1>6, PeersKept DEF Receive

LEMMA BroadcastTransactionsTyped ==
    ASSUME PeersInv, NEW t \in Tx, BroadcastTransactions(t)
    PROVE  PeersInv'
<1>1. [id |-> 0, src |-> Api, tx |-> t, req |-> Null] \in Packet
  BY DEF Packet
<1>2. procQ' \in Seq(Packet) /\ events' \in Nat
  BY <1>1 DEF PeersInv, TypeOK, BroadcastTransactions, Event
<1>3. TypeOK'
  BY <1>2 DEF PeersInv, TypeOK, BroadcastTransactions, peers, threads, history
<1> QED
  BY <1>3, PeersKept DEF BroadcastTransactions

LEMMA ProcessTyped ==
    ASSUME PeersInv, ServeInv, Process
    PROVE  PeersInv'
<1> DEFINE q == Head(procQ)
<1>1. q \in Packet /\ q = procQ[1] /\ 1 \in 1..Len(procQ) /\ procQ' \in Seq(Packet)
  BY HeadTyped DEF PeersInv, TypeOK, Process
<1>2. Find(q.src) \in 0..Capacity /\ (q.id = 0 => Find(q.src) = 0)
  <2>1. Find(q.src) \in 0..Capacity
    BY FindIsThere DEF PeersInv
  <2>2. q.id = 0 => q.src = Api
    BY <1>1 DEF ServeInv, AsReceived
  <2>3. Find(Api) = 0
    <3>1. used \in 0..Capacity /\ Capacity \in Nat
      BY CapacityIsNat DEF PeersInv, TypeOK
    <3>2. \A i \in 1..used : slots[i] \in Peer
      BY <3>1 DEF PeersInv, TypeOK
    <3>3. \A i \in 1..used : slots[i].peer # Api
      BY <3>2, NeighborsAreNumbers DEF Peer
    <3> QED
      BY <3>3, FindIsThere DEF PeersInv
  <2> QED
    BY <2>1, <2>2, <2>3
<1>3. respQ' \in Seq(Asked) /\ hashQ' \in Seq(Located)
  <2>1. CASE CacheHas(Digest[q.tx])
    <3>1. ProcessRequest(q, Find(q.src), CacheGet(Digest[q.tx])) /\ UNCHANGED hashQ
      BY <2>1 DEF Process
    <3> HIDE DEF q
    <3> QED
      BY <1>1, <1>2, <3>1, PassedTyped DEF PeersInv, TypeOK
  <2>2. CASE ~CacheHas(Digest[q.tx])
    <3>1. hashQ' = Append(hashQ, [p |-> q, nb |-> Find(q.src)]) /\ UNCHANGED respQ
      BY <2>2 DEF Process
    <3> HIDE DEF q
    <3>2. [p |-> q, nb |-> Find(q.src)] \in Located
      BY <1>1, <1>2 DEF Located
    <3> QED
      BY <3>1, <3>2 DEF PeersInv, TypeOK
  <2> QED
    BY <2>1, <2>2
<1>4. TypeOK'
  BY <1>1, <1>3 DEF PeersInv, TypeOK, Process, peers, threads
<1> QED
  BY <1>4, PeersKept DEF Process

LEMMA HashBatchTyped ==
    ASSUME PeersInv, HashBatch
    PROVE  PeersInv'
<1>1. PICK k \in 1..HasherMax :
        /\ k <= Len(hashQ)
        /\ valQ' = valQ \o SubSeq(hashQ, 1, k)
        /\ hashQ' = SubSeq(hashQ, k + 1, Len(hashQ))
  BY DEF HashBatch
<1>2. hashQ \in Seq(Located) /\ valQ \in Seq(Located) /\ k \in 1..Len(hashQ)
  BY <1>1 DEF PeersInv, TypeOK
<1>3. SubSeq(hashQ, 1, k) \in Seq(Located) /\ hashQ' \in Seq(Located)
  BY <1>1, <1>2, CountSplit
<1>4. valQ' \in Seq(Located)
  BY <1>1, <1>2, <1>3
<1>5. TypeOK'
  BY <1>3, <1>4 DEF PeersInv, TypeOK, HashBatch, peers, threads, history
<1> QED
  BY <1>5, PeersKept DEF HashBatch
LEMMA ValidateTyped ==
    ASSUME PeersInv, Validate
    PROVE  PeersInv'
<1>1. Head(valQ) \in Located /\ valQ' \in Seq(Located)
  BY HeadTyped DEF PeersInv, TypeOK, Validate
<1>2. Head(valQ).p.tx \in Tx
  BY <1>1 DEF Located, Packet
<1>3. failed' \subseteq Tx /\ events' \in Nat
  BY <1>2 DEF PeersInv, TypeOK, Validate, Event
<1>4. /\ pc' \in [Writers -> {"idle", "store", "status", "offer", "put", "request"}]
      /\ job' \in [Writers -> Located \cup {None}]
  BY <1>1 DEF PeersInv, TypeOK, Validate, Goto, Writers
<1>5. TypeOK'
  BY <1>1, <1>3, <1>4 DEF PeersInv, TypeOK, Validate, peers
<1> QED
  BY <1>5, PeersKept DEF Validate

LEMMA StoreTransactionsTyped ==
    ASSUME PeersInv, NEW t \in Tx, StoreTransactions(t)
    PROVE  PeersInv'
<1>1. [id |-> 0, src |-> Api, tx |-> t, req |-> Null] \in Packet
  BY DEF Packet
<1>2. [p |-> [id |-> 0, src |-> Api, tx |-> t, req |-> Null], nb |-> 0] \in Located
  BY <1>1, CapacityIsNat DEF Located
<1>3. /\ pc' \in [Writers -> {"idle", "store", "status", "offer", "put", "request"}]
      /\ job' \in [Writers -> Located \cup {None}] /\ events' \in Nat
  BY <1>2 DEF PeersInv, TypeOK, StoreTransactions, Goto, Writers, Event
<1>4. TypeOK'
  BY <1>3 DEF PeersInv, TypeOK, StoreTransactions, peers, history
<1> QED
  BY <1>4, PeersKept DEF StoreTransactions

\* What a storing thread works on.
LEMMA JobTyped ==
    ASSUME PeersInv, StoreInv, NEW w \in Writers, pc[w] # "idle"
    PROVE  job[w] \in Located /\ job[w].p \in Packet /\ job[w].p.tx \in Tx
<1>1. job[w] \in Located
  BY DEF PeersInv, TypeOK, StoreInv
<1> QED
  BY <1>1 DEF Located, Packet

LEMMA StoreTyped ==
    ASSUME PeersInv, StoreInv, NEW w \in Writers, Store(w)
    PROVE  PeersInv'
<1>1. job[w].p.tx \in Tx /\ job[w].p.tx \in Valid
  BY JobTyped DEF Store, StoreInv
<1>2. failed' \subseteq Tx /\ events' \in Nat /\ stored' \subseteq Valid /\ stored \subseteq stored'
  BY <1>1 DEF PeersInv, TypeOK, Store, Interferes, Event
<1>3. pc' \in [Writers -> {"idle", "store", "status", "offer", "put", "request"}]
  BY DEF PeersInv, TypeOK, Store, Interferes, Goto, After
<1>4. TypeOK'
  BY <1>2, <1>3 DEF PeersInv, TypeOK, Store, peers
<1> QED
  BY <1>4, PeersKept DEF Store

LEMMA UpdateStatusTyped ==
    ASSUME PeersInv, StoreInv, NEW w \in Writers, UpdateStatus(w)
    PROVE  PeersInv'
<1>1. job[w].p.tx \in Tx
  BY JobTyped DEF UpdateStatus
<1>2. failed' \subseteq Tx /\ events' \in Nat
  BY <1>1 DEF PeersInv, TypeOK, UpdateStatus, Interferes, Event
<1>3. pc' \in [Writers -> {"idle", "store", "status", "offer", "put", "request"}]
  BY DEF PeersInv, TypeOK, UpdateStatus, Interferes, Goto, After
<1>4. TypeOK'
  BY <1>2, <1>3 DEF PeersInv, TypeOK, UpdateStatus, peers
<1> QED
  BY <1>4, PeersKept DEF UpdateStatus

LEMMA OfferTyped ==
    ASSUME PeersInv, StoreInv, NEW w \in Writers, Offer(w)
    PROVE  PeersInv'
<1>1. job[w].p \in Packet /\ job[w].p.tx \in Tx /\ job[w].p.tx \in stored
  BY JobTyped DEF Offer, StoreInv
<1>a. /\ castQ' = castQ \/ castQ' = Append(castQ, job[w].p)
      /\ casts' = casts \/ casts' = [casts EXCEPT ![job[w].p.tx] = @ + 1]
      /\ candidates' = candidates \cup ({job[w].p.tx} \cap Tails)
  BY DEF Offer
<1>b. castQ \in Seq(Packet) /\ casts \in [Tx -> Nat] /\ candidates \subseteq stored \cap Tails
  BY DEF PeersInv, TypeOK
<1>2. castQ' \in Seq(Packet)
  BY <1>1, <1>a, <1>b
<1>3. casts' \in [Tx -> Nat] /\ candidates' \subseteq stored \cap Tails
  BY <1>1, <1>a, <1>b
<1>4. pc' \in [Writers -> {"idle", "store", "status", "offer", "put", "request"}]
  BY DEF PeersInv, TypeOK, Offer, Goto, After
<1>5. TypeOK'
  BY <1>2, <1>3, <1>4 DEF PeersInv, TypeOK, Offer, peers
<1> QED
  BY <1>5, PeersKept DEF Offer

LEMMA MarkSeenTyped ==
    ASSUME PeersInv, MarkSeen
    PROVE  PeersInv'
<1>1. pc' \in [Writers -> {"idle", "store", "status", "offer", "put", "request"}]
  BY DEF PeersInv, TypeOK, MarkSeen, Goto
<1>2. TypeOK'
  BY <1>1 DEF PeersInv, TypeOK, MarkSeen, peers, history
<1> QED
  BY <1>2, PeersKept DEF MarkSeen

LEMMA PassRequestTyped ==
    ASSUME PeersInv, ServeInv, StoreInv, PassRequest
    PROVE  PeersInv'
<1> DEFINE j == job[Validator]
<1>1. Validator \in Writers /\ pc[Validator] = "request"
  BY DEF Writers, PassRequest
<1>2. j \in Located /\ j.p \in Packet /\ j # None
  BY <1>1, JobTyped, NoneFacts
<1>3. j.nb \in 0..Capacity /\ (j.p.id = 0 => j.nb = 0)
  BY <1>2 DEF Located, ServeInv
<1>4. ProcessRequest(j.p, j.nb, j.p.tx)
  BY DEF PassRequest
<1> HIDE DEF j
<1>5. respQ' \in Seq(Asked)
  BY <1>2, <1>3, <1>4, PassedTyped DEF PeersInv
<1>6. /\ pc' \in [Writers -> {"idle", "store", "status", "offer", "put", "request"}]
      /\ job' \in [Writers -> Located \cup {None}]
  BY DEF PeersInv, TypeOK, PassRequest, Goto, Writers
<1>7. TypeOK'
  BY <1>5, <1>6 DEF PeersInv, TypeOK, PassRequest, peers
<1> QED
  BY <1>7, PeersKept DEF PassRequest

LEMMA LoadReplyTyped ==
    ASSUME PeersInv, LoadReply
    PROVE  PeersInv'
<1> DEFINE q == Head(respQ)
<1>1. q \in Asked /\ respQ' \in Seq(Asked)
  BY HeadTyped DEF PeersInv, TypeOK, LoadReply
<1>2. \A t \in Tx \cup {None} : [id |-> q.id, nb |-> q.nb, hash |-> q.hash, tx |-> t] \in Reply
  BY <1>1 DEF Asked, Reply
<1>3. failed' \subseteq Tx /\ events' \in Nat
  BY DEF PeersInv, TypeOK, LoadReply, Event
<1>4. stored \subseteq Tx
  BY HashFacts DEF PeersInv, TypeOK
<1>5. \/ reply' = reply
      \/ \E t \in Tx \cup {None} :
           reply' = [id |-> q.id, nb |-> q.nb, hash |-> q.hash, tx |-> t]
  BY <1>4 DEF LoadReply
<1>6. reply' \in Reply \cup {None}
  BY <1>2, <1>5 DEF PeersInv, TypeOK
<1>7. TypeOK'
  BY <1>1, <1>3, <1>6 DEF PeersInv, TypeOK, LoadReply, peers, threads
<1> QED
  BY <1>7, PeersKept DEF LoadReply

LEMMA RespondTyped ==
    ASSUME PeersInv, Respond
    PROVE  PeersInv'
<1>1. TypeOK'
  BY DEF PeersInv, TypeOK, Respond, peers, threads
<1> QED
  BY <1>1, PeersKept DEF Respond

LEMMA SendTyped ==
    ASSUME PeersInv, Broadcast \/ \E m \in Tails : RequestTips(m)
    PROVE  PeersInv'
<1>a. castQ \in Seq(Packet) /\ events \in Nat
  BY DEF PeersInv, TypeOK
<1>b. \/ castQ # <<>> /\ castQ' = Tail(castQ) /\ events' = events
      \/ castQ' = castQ /\ events' = events + 1
  BY DEF Broadcast, RequestTips, Event
<1>1. castQ' \in Seq(Packet) /\ events' \in Nat
  BY <1>a, <1>b, HeadTyped
<1>2. UNCHANGED <<peers, procQ, hashQ, valQ, respQ, cache, stored, candidates, threads, reply, history>>
  BY DEF Broadcast, RequestTips
<1>3. TypeOK'
  BY <1>1, <1>2 DEF PeersInv, TypeOK, peers, threads, history
<1> QED
  BY <1>2, <1>3, PeersKept
\* What the steps of the neighbors leave alone.
pipeline == <<procQ, hashQ, valQ, respQ, castQ, cache, stored, candidates, threads, reply, sent,
              history>>

LEMMA RewiredTyped ==
    ASSUME PeersInv, UNCHANGED pipeline, events' \in Nat,
           slots' \in [1..Capacity -> Peer \cup {None}], used' \in 0..Capacity,
           \A i \in 1..used' : slots'[i] # None,
           conn' \in [Neighbors -> 0..Capacity],
           \A n \in Neighbors : conn'[n] # 0 => slots'[conn'[n]] # None,
           Ordered'
    PROVE  PeersInv'
<1>1. TypeOK'
  BY DEF PeersInv, TypeOK, pipeline, threads, history
<1> QED
  BY <1>1 DEF PeersInv

LEMMA SwitchedTyped ==
    ASSUME PeersInv, UNCHANGED <<used, pipeline>>, events' \in Nat,
           NEW c \in 1..Capacity, slots[c] # None, NEW b \in BOOLEAN,
           slots' = [slots EXCEPT ![c].up = b],
           conn' \in [Neighbors -> 0..Capacity],
           \A n \in Neighbors : conn'[n] \in {0, c, conn[n]}
    PROVE  PeersInv'
<1>1. slots \in [1..Capacity -> Peer \cup {None}] /\ used \in 0..Capacity /\ Capacity \in Nat
  BY CapacityIsNat DEF PeersInv, TypeOK
<1>2. slots[c] \in Peer
  BY <1>1
<1>3. slots'[c] = [slots[c] EXCEPT !.up = b] /\ \A i \in 1..Capacity : i # c => slots'[i] = slots[i]
  BY <1>1
<1>4. slots'[c] \in Peer /\ slots'[c].peer = slots[c].peer
  BY <1>2, <1>3 DEF Peer
<1>5. DOMAIN slots' = 1..Capacity /\ slots' = [i \in DOMAIN slots' |-> slots'[i]]
  BY <1>1
<1>6. \A i \in 1..Capacity : slots'[i] \in Peer \cup {None}
  BY <1>1, <1>3, <1>4
<1>7. slots' \in [1..Capacity -> Peer \cup {None}]
  BY <1>5, <1>6
<1>8. \A i \in 1..Capacity : slots[i] # None => slots'[i] # None /\ slots'[i].peer = slots[i].peer
  BY <1>3, <1>4, NoneFacts
<1>9. \A i \in 1..used : i \in 1..Capacity /\ slots[i] # None
  BY <1>1 DEF PeersInv, TypeOK
<1>10. Ordered'
  BY <1>8, <1>9 DEF PeersInv, Ordered
<1>11. \A n \in Neighbors : conn'[n] # 0 => slots'[conn'[n]] # None
  <2> SUFFICES ASSUME NEW n \in Neighbors, conn'[n] # 0 PROVE slots'[conn'[n]] # None
    OBVIOUS
  <2>1. conn'[n] \in 1..Capacity /\ slots[conn'[n]] # None
    BY <1>1 DEF PeersInv
  <2> QED
    BY <1>8, <2>1
<1>12. \A i \in 1..used' : slots'[i] # None
  BY <1>8, <1>9
<1> QED
  BY <1>1, <1>7, <1>10, <1>11, <1>12, RewiredTyped

LEMMA DisconnectTyped ==
    ASSUME PeersInv, NEW n \in Neighbors, Disconnect(n)
    PROVE  PeersInv'
<1>1. conn \in [Neighbors -> 0..Capacity] /\ events \in Nat /\ Capacity \in Nat
  BY CapacityIsNat DEF PeersInv, TypeOK
<1>2. conn[n] \in 1..Capacity /\ slots[conn[n]] # None
  BY <1>1 DEF PeersInv, Disconnect
<1>3. conn' \in [Neighbors -> 0..Capacity] /\ \A m \in Neighbors : conn'[m] \in {0, conn[n], conn[m]}
  BY <1>1 DEF Disconnect
<1>4. events' \in Nat /\ UNCHANGED <<used, pipeline>> /\ slots' = [slots EXCEPT ![conn[n]].up = FALSE]
  BY <1>1 DEF Disconnect, Event, pipeline
<1> QED
  BY <1>2, <1>3, <1>4, SwitchedTyped

LEMMA ConnectTyped ==
    ASSUME PeersInv, NEW n \in Neighbors, Connect(n)
    PROVE  PeersInv'
<1> DEFINE c == Find(n)
<1>1. conn \in [Neighbors -> 0..Capacity] /\ events \in Nat /\ Capacity \in Nat
  BY CapacityIsNat DEF PeersInv, TypeOK
<1>2. c \in 1..Capacity /\ c \in 1..used
  BY <1>1, FindIsThere DEF PeersInv, Connect
<1>3. slots[c] # None
  BY <1>2 DEF PeersInv, TypeOK
<1>4. /\ conn' = [conn EXCEPT ![n] = c] /\ events' \in Nat /\ UNCHANGED <<used, pipeline>>
      /\ slots' = [slots EXCEPT ![c].up = TRUE]
  BY <1>1 DEF Connect, pipeline
<1> HIDE DEF c
<1>5. conn' \in [Neighbors -> 0..Capacity] /\ \A m \in Neighbors : conn'[m] \in {0, c, conn[m]}
  BY <1>1, <1>2, <1>4
<1> QED
  BY <1>2, <1>3, <1>4, <1>5, SwitchedTyped

\* The array, as the neighbors at work see it.
LEMMA ArrayTyped ==
    ASSUME PeersInv
    PROVE  /\ used \in Nat /\ Capacity \in Nat /\ used <= Capacity
           /\ slots \in [1..Capacity -> Peer \cup {None}]
           /\ \A i \in 1..used : slots[i] \in Peer /\ slots[i] # None /\ slots[i].peer \in Nat
           /\ conn \in [Neighbors -> 0..Capacity] /\ events \in Nat
<1>1. /\ used \in 0..Capacity /\ Capacity \in Nat /\ conn \in [Neighbors -> 0..Capacity]
      /\ slots \in [1..Capacity -> Peer \cup {None}] /\ events \in Nat
  BY CapacityIsNat DEF PeersInv, TypeOK
<1>2. \A i \in 1..used : slots[i] \in Peer /\ slots[i] # None
  BY <1>1 DEF PeersInv, TypeOK
<1>3. \A i \in 1..used : slots[i].peer \in Neighbors
  BY <1>2 DEF Peer
<1>4. \A a \in Neighbors : a \in Nat
  BY NeighborsAreNumbers
<1> QED
  BY <1>1, <1>2, <1>3, <1>4

LEMMA NeighborRemoveTyped ==
    ASSUME PeersInv, NEW n \in Neighbors, NeighborRemove(n)
    PROVE  PeersInv'
<1> DEFINE f == Find(n)
<1>1. f \in 1..used
  BY FindIsThere DEF PeersInv, NeighborRemove
<1>2. /\ used' = used - 1 /\ events' = events + 1 /\ UNCHANGED <<conn, pipeline>>
      /\ slots' = [i \in 1..Capacity |-> IF i \in f..(used - 1) THEN slots[i + 1] ELSE slots[i]]
  BY DEF NeighborRemove, Event, pipeline
<1> HIDE DEF f
<1>3. \A i \in 1..Capacity : slots'[i] = IF f <= i /\ i < used THEN slots[i + 1] ELSE slots[i]
  BY <1>1, <1>2, ArrayTyped
<1>4. \A i \in 1..Capacity : slots'[i] \in Peer \cup {None} /\ (slots[i] # None => slots'[i] # None)
  BY <1>3, ArrayTyped
<1>5. slots' \in [1..Capacity -> Peer \cup {None}] /\ used' \in 0..Capacity /\ events' \in Nat
  BY <1>1, <1>2, <1>4, ArrayTyped
<1>6. \A i \in 1..used' : slots'[i] # None
  BY <1>2, <1>4, ArrayTyped
<1>7. Ordered'
  <2> SUFFICES ASSUME NEW i \in 1..(used - 1), NEW j \in 1..(used - 1), i < j
               PROVE  slots'[i].peer < slots'[j].peer
    BY <1>2 DEF Ordered
  <2> DEFINE g(k) == IF f <= k THEN k + 1 ELSE k
  <2>1. g(i) \in 1..used /\ g(j) \in 1..used /\ g(i) < g(j)
    BY <1>1, ArrayTyped
  <2>2. slots'[i] = slots[g(i)] /\ slots'[j] = slots[g(j)]
    BY <1>3, ArrayTyped
  <2> HIDE DEF g
  <2> QED
    BY <2>1, <2>2 DEF PeersInv, Ordered
<1>8. \A m \in Neighbors : conn'[m] # 0 => slots'[conn'[m]] # None
  BY <1>2, <1>4, ArrayTyped DEF PeersInv
<1>9. conn' \in [Neighbors -> 0..Capacity]
  BY <1>2, ArrayTyped
<1> QED
  BY <1>2, <1>5, <1>6, <1>7, <1>8, <1>9, RewiredTyped

LEMMA NeighborAddTyped ==
    ASSUME PeersInv, NEW n \in Neighbors, NeighborAdd(n)
    PROVE  PeersInv'
<1> DEFINE k == Place(n)
           e == [peer |-> n, up |-> FALSE]
<1>1. /\ k \in 1..(used + 1) /\ used + 1 \in 0..Capacity
      /\ \A i \in 1..used : (slots[i].peer < n <=> i < k) /\ slots[i].peer # n
  BY PlaceIsThere, RoomForOne, FindIsThere DEF PeersInv, NeighborAdd
<1>2. /\ used' = used + 1 /\ events' = events + 1 /\ UNCHANGED <<conn, pipeline>>
      /\ slots' = [i \in 1..Capacity |->
                     IF i = k THEN e ELSE IF i \in k..(used + 1) THEN slots[i - 1] ELSE slots[i]]
  BY DEF NeighborAdd, Event, pipeline
<1>a. e \in Peer /\ e.peer = n
  BY DEF Peer
<1>b. n \in Nat
  BY NeighborsAreNumbers
<1> HIDE DEF e
<1>3. e \in Peer /\ e # None /\ e.peer = n /\ n \in Nat
  BY <1>a, <1>b, NoneFacts
<1> HIDE DEF k, e
<1>4. \A i \in 1..Capacity :
        slots'[i] = IF i = k THEN e ELSE IF k < i /\ i <= used + 1 THEN slots[i - 1] ELSE slots[i]
  BY <1>1, <1>2, ArrayTyped
<1>5. \A i \in 1..Capacity : slots'[i] \in Peer \cup {None} /\ (slots[i] # None => slots'[i] # None)
  BY <1>1, <1>3, <1>4, ArrayTyped
<1>6. slots' \in [1..Capacity -> Peer \cup {None}] /\ used' \in 0..Capacity /\ events' \in Nat
  BY <1>1, <1>2, <1>5, ArrayTyped
<1>7. \A i \in 1..used' : slots'[i] # None
  BY <1>1, <1>2, <1>3, <1>4, ArrayTyped
<1>8. Ordered'
  <2> SUFFICES ASSUME NEW i \in 1..(used + 1), NEW j \in 1..(used + 1), i < j
               PROVE  slots'[i].peer < slots'[j].peer
    BY <1>2 DEF Ordered
  <2>1. slots'[i] = IF i = k THEN e ELSE IF k < i THEN slots[i - 1] ELSE slots[i]
    BY <1>1, <1>4, ArrayTyped
  <2>2. slots'[j] = IF j = k THEN e ELSE IF k < j THEN slots[j - 1] ELSE slots[j]
    BY <1>1, <1>4, ArrayTyped
  <2>3. CASE i = k
    <3>1. j - 1 \in 1..used /\ ~(j - 1 < k)
      BY <1>1, <2>3, ArrayTyped
    <3>2. n < slots[j - 1].peer
      BY <1>1, <1>3, <3>1, ArrayTyped
    <3> QED
      BY <1>3, <2>1, <2>2, <2>3, <3>2
  <2>4. CASE j = k
    <3>1. i \in 1..used /\ i < k
      BY <1>1, <2>4, ArrayTyped
    <3> QED
      BY <1>1, <1>3, <2>1, <2>2, <2>4, <3>1
  <2>5. CASE i # k /\ j # k
    <3> DEFINE g(x) == IF k < x THEN x - 1 ELSE x
    <3>1. g(i) \in 1..used /\ g(j) \in 1..used /\ g(i) < g(j)
      BY <1>1, <2>5, ArrayTyped
    <3>2. slots'[i] = slots[g(i)] /\ slots'[j] = slots[g(j)]
      BY <2>1, <2>2, <2>5
    <3> HIDE DEF g
    <3> QED
      BY <3>1, <3>2 DEF PeersInv, Ordered
  <2> QED
    BY <2>3, <2>4, <2>5
<1>9. \A m \in Neighbors : conn'[m] # 0 => slots'[conn'[m]] # None
  BY <1>2, <1>5, ArrayTyped DEF PeersInv
<1>10. conn' \in [Neighbors -> 0..Capacity]
  BY <1>2, ArrayTyped
<1> QED
  BY <1>2, <1>6, <1>7, <1>8, <1>9, <1>10, RewiredTyped
-----------------------------------------------------------------------------
(* The cache.                                                              *)

LEMMA DigestsDiffer ==
    ASSUME NEW t \in Tx, NEW u \in Tx, Digest[t] = Digest[u]
    PROVE  t = u
BY GossipAssumption DEF IsInjective

LEMMA CacheKept ==
    ASSUME CacheInv, UNCHANGED <<cache, reply>>, stored \subseteq stored'
    PROVE  CacheInv'
BY DEF CacheInv, CacheIsBounded

\* Each entry of a cache is a transaction's.
EntriesOf(c) ==
    \A i \in 1..Len(c) : \E t \in Tx : c[i].digest = Digest[t] /\ c[i].hash \in {t, Null}

\* recent_seen_bytes_cache_put keeps the cache within its size and without
\* duplicates, and adds no digest but the one it is given.
LEMMA PutKeeps ==
    ASSUME CacheInv, NEW t \in Tx, NEW h \in {t, Null}, cache' = CachePut(Digest[t], h)
    PROVE  /\ cache' \in Seq(Entry) /\ CacheIsBounded' /\ EntriesOf(cache')
           /\ \A d : CacheHas(d)' => CacheHas(d) \/ d = Digest[t]
<1> DEFINE e == [digest |-> Digest[t], hash |-> h]
           c == IF Len(cache) >= CacheSize THEN Tail(cache) ELSE cache
<1>1. CASE CacheHas(Digest[t])
  BY <1>1 DEF CachePut, CacheInv, CacheIsBounded, EntriesOf, CacheHas
<1>2. CASE ~CacheHas(Digest[t])
  <2>1. cache \in Seq(Entry) /\ CacheSize \in Nat \ {0} /\ Len(cache) <= CacheSize
    BY GossipAssumption DEF CacheInv, CacheIsBounded
  <2>2. e \in Entry
    BY DEF Entry
  <2>3. cache' = Append(c, e)
    BY <1>2 DEF CachePut
  <2>4. PICK o \in {0, 1} :
          /\ c \in Seq(Entry) /\ Len(c) = Len(cache) - o /\ Len(c) < CacheSize
          /\ \A i \in 1..Len(c) : i + o \in 1..Len(cache) /\ c[i] = cache[i + o]
    <3>1. CASE Len(cache) >= CacheSize
      <4>1. cache # <<>> /\ c = Tail(cache)
        BY <2>1, <3>1
      <4>2. /\ c \in Seq(Entry) /\ Len(c) = Len(cache) - 1
            /\ \A i \in 1..Len(c) : i + 1 \in 1..Len(cache) /\ c[i] = cache[i + 1]
        BY <2>1, <4>1
      <4> HIDE DEF c
      <4> QED
        BY <2>1, <3>1, <4>2
    <3>2. CASE ~(Len(cache) >= CacheSize)
      <4>1. c = cache /\ Len(cache) \in Nat
        BY <2>1, <3>2
      <4> HIDE DEF c
      <4>2. Len(c) = Len(cache) - 0 /\ \A i \in 1..Len(c) : i + 0 \in 1..Len(cache) /\ c[i] = cache[i + 0]
        BY <4>1
      <4>3. c \in Seq(Entry) /\ Len(c) < CacheSize
        BY <2>1, <3>2, <4>1
      <4> WITNESS 0 \in {0, 1}
      <4> QED
        BY <4>2, <4>3
    <3> QED
      BY <3>1, <3>2
  <2> HIDE DEF e, c
  <2>5. /\ cache' \in Seq(Entry) /\ Len(cache') = Len(c) + 1 /\ Len(c) \in Nat
        /\ cache'[Len(c) + 1] = e /\ \A i \in 1..Len(c) : cache'[i] = c[i]
    BY <2>2, <2>3, <2>4
  <2>6. e.digest = Digest[t] /\ e.hash = h
    BY DEF e
  <2>7. \A i \in 1..Len(cache') : i = Len(c) + 1 \/ i \in 1..Len(c)
    BY <2>5
  <2>8. \A i \in 1..Len(cache) : cache[i].digest # Digest[t]
    BY <1>2, <2>1 DEF CacheHas
  <2>9. CacheIsBounded'
    <3>1. Len(cache') <= CacheSize
      BY <2>1, <2>4, <2>5
    <3>2. \A i, j \in 1..Len(c) : cache'[i].digest = cache'[j].digest => i = j
      <4> SUFFICES ASSUME NEW i \in 1..Len(c), NEW j \in 1..Len(c), c[i].digest = c[j].digest
                   PROVE  i = j
        BY <2>5
      <4>1. cache[i + o].digest = cache[j + o].digest /\ i + o \in DOMAIN cache /\ j + o \in DOMAIN cache
        BY <2>1, <2>4
      <4>2. i + o = j + o
        BY <4>1 DEF CacheInv, CacheIsBounded
      <4> QED
        BY <2>5, <4>2
    <3>3. \A i \in 1..Len(c) : cache'[i].digest # cache'[Len(c) + 1].digest
      BY <2>4, <2>5, <2>6, <2>8
    <3>4. DOMAIN cache' = 1..Len(cache')
      BY <2>5
    <3> QED
      BY <2>7, <3>1, <3>2, <3>3, <3>4 DEF CacheIsBounded
  <2>10. EntriesOf(cache')
    <3>1. ASSUME NEW i \in 1..Len(c)
          PROVE  \E u \in Tx : cache'[i].digest = Digest[u] /\ cache'[i].hash \in {u, Null}
      <4>1. cache'[i] = cache[i + o] /\ i + o \in 1..Len(cache)
        BY <2>4, <2>5
      <4>2. \E u \in Tx : cache[i + o].digest = Digest[u] /\ cache[i + o].hash \in {u, Null}
        BY <4>1 DEF CacheInv
      <4> QED
        BY <4>1, <4>2
    <3> QED
      BY <2>5, <2>6, <2>7, <3>1 DEF EntriesOf
  <2>11. \A d : CacheHas(d)' => CacheHas(d) \/ d = Digest[t]
    <3> SUFFICES ASSUME NEW d, NEW i \in DOMAIN cache', cache'[i].digest = d, d # Digest[t]
                 PROVE  CacheHas(d)
      BY DEF CacheHas
    <3>1. i \in 1..Len(c)
      BY <2>5, <2>6, <2>7
    <3>2. cache[i + o].digest = d /\ i + o \in DOMAIN cache
      BY <2>1, <2>4, <2>5, <3>1
    <3> QED
      BY <3>2 DEF CacheHas
  <2> QED
    BY <2>5, <2>9, <2>10, <2>11
<1> QED
  BY <1>1, <1>2

LEMMA MarkSeenCache ==
    ASSUME PeersInv, StoreInv, CacheInv, MarkSeen
    PROVE  CacheInv'
<1> DEFINE t == job[Validator].p.tx
<1>1. t \in Tx /\ cache' = CachePut(Digest[t], t)
  BY JobTyped DEF MarkSeen, Writers
<1>2. UNCHANGED <<reply, stored>>
  BY DEF MarkSeen
<1> HIDE DEF t
<1>3. cache' \in Seq(Entry) /\ CacheIsBounded' /\ EntriesOf(cache')
  BY <1>1, PutKeeps
<1> QED
  BY <1>2, <1>3 DEF CacheInv, EntriesOf

LEMMA RespondCache ==
    ASSUME PeersInv, CacheInv, Respond
    PROVE  CacheInv'
<1>1. reply' = None
  BY DEF Respond
<1>2. CASE reply.tx = None
  BY <1>1, <1>2 DEF Respond, CacheInv, CacheIsBounded
<1>3. CASE reply.tx # None
  <2>1. reply.tx \in Tx /\ reply.hash \in {reply.tx, Null} /\ cache' = CachePut(Digest[reply.tx], reply.hash)
    BY <1>3, HashFacts DEF Respond, CacheInv, PeersInv, TypeOK
  <2>2. cache' \in Seq(Entry) /\ CacheIsBounded' /\ EntriesOf(cache')
    BY <2>1, PutKeeps
  <2> QED
    BY <1>1, <2>2 DEF CacheInv, EntriesOf
<1> QED
  BY <1>2, <1>3

LEMMA LoadReplyCache ==
    ASSUME PeersInv, CacheInv, LoadReply
    PROVE  CacheInv'
<1> DEFINE q == Head(respQ)
           A(t) == [id |-> q.id, nb |-> q.nb, hash |-> q.hash, tx |-> t]
<1>1. UNCHANGED <<cache, stored>> /\ reply = None
  BY DEF LoadReply
<1>2. \/ reply' = reply
      \/ reply' = A(None)
      \/ \E t \in stored : reply' = A(t) /\ q.hash \in {t, Null}
  BY DEF LoadReply
<1>3. reply' # None => reply'.tx = None \/ (reply'.tx \in stored /\ reply'.hash \in {reply'.tx, Null})
  <2>1. \A t : A(t).tx = t /\ A(t).hash = q.hash
    OBVIOUS
  <2> HIDE DEF A, q
  <2> QED
    BY <1>1, <1>2, <2>1
<1> HIDE DEF A, q
<1> QED
  BY <1>1, <1>3 DEF CacheInv, CacheIsBounded
-----------------------------------------------------------------------------
(* The threads that store transactions.                                    *)

LEMMA StoreKept ==
    ASSUME StoreInv, UNCHANGED <<threads, stored, casts, candidates, cache>>, failed \subseteq failed'
    PROVE  StoreInv'
<1>1. BroadcastOnce' /\ CachedIsStored' /\ MilestonesAreOffered'
  BY DEF StoreInv, BroadcastOnce, CachedIsStored, MilestonesAreOffered, CacheHas, threads
<1> QED
  BY <1>1 DEF StoreInv, threads

LEMMA ValidateStores ==
    ASSUME PeersInv, StoreInv, Validate
    PROVE  StoreInv'
<1> DEFINE j == Head(valQ)
<1>1. j \in Located /\ Validator \in Writers /\ Api \in Writers /\ Writers = {Validator, Api}
  BY HeadTyped DEF PeersInv, TypeOK, Validate, Writers
<1>2. j # None /\ Validator # Api
  BY <1>1, NoneFacts
<1>3. PICK l \in {"store", "put"} :
        /\ pc' = [pc EXCEPT ![Validator] = l]
        /\ l = "store" => j.p.tx \in Valid
        /\ l = "put" /\ j.p.tx \in Valid => j.p.tx \in stored \cup failed'
  BY DEF Validate, Goto
<1>4. /\ job' = [job EXCEPT ![Validator] = j] /\ UNCHANGED <<stored, casts, candidates, cache>>
      /\ failed \subseteq failed' /\ pc[Validator] = "idle"
  BY DEF Validate
<1> HIDE DEF j
<1>5. /\ pc'[Validator] = l /\ job'[Validator] = j /\ pc'[Api] = pc[Api] /\ job'[Api] = job[Api]
  BY <1>1, <1>2, <1>3, <1>4 DEF PeersInv, TypeOK
<1>6. BroadcastOnce' /\ CachedIsStored'
  BY <1>4 DEF StoreInv, BroadcastOnce, CachedIsStored, CacheHas
<1>7. MilestonesAreOffered'
  BY <1>1, <1>4, <1>5 DEF StoreInv, MilestonesAreOffered
<1> QED
  BY <1>1, <1>2, <1>3, <1>4, <1>5, <1>6, <1>7 DEF StoreInv

LEMMA StoreTransactionsStores ==
    ASSUME PeersInv, StoreInv, NEW t \in Tx, StoreTransactions(t)
    PROVE  StoreInv'
<1> DEFINE j == [p |-> [id |-> 0, src |-> Api, tx |-> t, req |-> Null], nb |-> 0]
<1>1. Validator \in Writers /\ Api \in Writers /\ Writers = {Validator, Api} /\ Validator # Api
  BY NoneFacts DEF Writers
<1>2. j.p.tx = t /\ j \in Located
  <2>1. j.p \in Packet
    BY DEF Packet
  <2> QED
    BY <2>1, CapacityIsNat DEF Located
<1>3. /\ pc' = [pc EXCEPT ![Api] = "store"] /\ job' = [job EXCEPT ![Api] = j]
      /\ t \in Valid \ stored /\ pc[Api] = "idle"
      /\ UNCHANGED <<stored, casts, candidates, cache, failed>>
  BY DEF StoreTransactions, Goto, history
<1> HIDE DEF j
<1>4. j # None
  BY <1>2, NoneFacts
<1>5. /\ pc'[Api] = "store" /\ job'[Api] = j
      /\ pc'[Validator] = pc[Validator] /\ job'[Validator] = job[Validator]
  BY <1>1, <1>3 DEF PeersInv, TypeOK
<1>6. BroadcastOnce' /\ CachedIsStored'
  BY <1>3 DEF StoreInv, BroadcastOnce, CachedIsStored, CacheHas
<1>7. MilestonesAreOffered'
  BY <1>1, <1>3, <1>5 DEF StoreInv, MilestonesAreOffered
<1> QED
  BY <1>1, <1>2, <1>3, <1>4, <1>5, <1>6, <1>7 DEF StoreInv

\* The threads but one stay where they are.
LEMMA OthersStay ==
    ASSUME PeersInv, NEW w \in Writers, NEW l, Goto(w, l), UNCHANGED job
    PROVE  pc'[w] = l /\ \A v \in Writers : v # w => pc'[v] = pc[v]
BY DEF PeersInv, TypeOK, Goto

\* A thread that gives up on a transaction, or is done with it.
LEMMA LeavesStores ==
    ASSUME PeersInv, StoreInv, NEW w \in Writers, Goto(w, After(w)), UNCHANGED <<job, stored, cache>>,
           pc[w] # "idle", failed \subseteq failed', candidates \subseteq candidates',
           job[w].p.tx \in Valid => job[w].p.tx \in stored \cup failed',
           pc[w] \in {"status", "offer"} /\ job[w].p.tx \in Tails => job[w].p.tx \in candidates' \cup failed',
           \A v \in Writers : v # w /\ pc[v] \in {"status", "offer"} => casts'[job[v].p.tx] = 0,
           BroadcastOnce'
    PROVE  StoreInv'
<1>1. pc'[w] = After(w) /\ After(w) \in {"put", "idle"} /\ \A v \in Writers : v # w => pc'[v] = pc[v]
  BY OthersStay DEF After
<1>2. CachedIsStored'
  BY DEF StoreInv, CachedIsStored, CacheHas
<1>3. MilestonesAreOffered'
  <2> SUFFICES ASSUME NEW t \in stored \cap Tails, t \notin candidates' \cup failed'
               PROVE  \E v \in Writers : pc'[v] \in {"status", "offer"} /\ job'[v].p.tx = t
    BY DEF MilestonesAreOffered
  <2>1. PICK v \in Writers : pc[v] \in {"status", "offer"} /\ job[v].p.tx = t
    BY DEF StoreInv, MilestonesAreOffered
  <2>2. v # w
    BY <2>1
  <2> QED
    BY <1>1, <2>1, <2>2
<1>4. pc'[Validator] = "idle" => job'[Validator] = None
  BY <1>1 DEF StoreInv, After, Writers
<1>5. pc'[Validator] = "put" /\ job'[Validator].p.tx \in Valid => job'[Validator].p.tx \in stored' \cup failed'
  <2>1. CASE w = Validator
    BY <2>1
  <2>2. CASE w # Validator
    BY <1>1, <2>2 DEF StoreInv, Writers
  <2> QED
    BY <2>1, <2>2
<1>6. \A v \in Writers :
         /\ pc'[v] # "idle" => job'[v] # None
         /\ pc'[v] \in {"store", "status", "offer"} => job'[v].p.tx \in Valid
         /\ pc'[v] \in {"status", "offer"} => job'[v].p.tx \in stored' /\ casts'[job'[v].p.tx] = 0
  BY <1>1 DEF StoreInv
<1>7. \A u, v \in Writers :
         u # v /\ pc'[u] \in {"status", "offer"} /\ pc'[v] \in {"status", "offer"}
           => job'[u].p.tx # job'[v].p.tx
  BY <1>1 DEF StoreInv
<1> QED
  BY <1>2, <1>3, <1>4, <1>5, <1>6, <1>7 DEF StoreInv
\* casts of a transaction that a thread other than w is dealing with.
LEMMA NotCast ==
    ASSUME StoreInv, UNCHANGED <<casts, stored>>
    PROVE  /\ \A v \in Writers : pc[v] \in {"status", "offer"} => casts'[job[v].p.tx] = 0
           /\ BroadcastOnce'
BY DEF StoreInv, BroadcastOnce

LEMMA StoreStores ==
    ASSUME PeersInv, StoreInv, NEW w \in Writers, Store(w)
    PROVE  StoreInv'
<1> DEFINE t == job[w].p.tx
<1>1. t \in Tx /\ t \in Valid /\ pc[w] = "store" /\ UNCHANGED <<job, cache, casts, candidates>>
  BY JobTyped DEF Store, StoreInv
<1>2. CASE t \in stored /\ Goto(w, After(w)) /\ UNCHANGED <<stored, failed, events>>
  BY <1>1, <1>2, LeavesStores, NotCast
<1>3. CASE Interferes(w) /\ UNCHANGED stored
  <2>1. Goto(w, After(w)) /\ failed' = failed \cup {t}
    BY <1>3 DEF Interferes
  <2> QED
    BY <1>1, <1>3, <2>1, LeavesStores, NotCast
<1>4. CASE t \notin stored /\ stored' = stored \cup {t} /\ Goto(w, "status") /\ UNCHANGED <<failed, events>>
  <2>1. pc'[w] = "status" /\ \A v \in Writers : v # w => pc'[v] = pc[v]
    BY <1>1, <1>4, OthersStay
  <2>2. casts[t] = 0
    <3>1. casts[t] \in Nat /\ casts[t] <= 1 /\ casts[t] # 1
      BY <1>1, <1>4 DEF PeersInv, TypeOK, StoreInv, BroadcastOnce
    <3> QED
      BY <3>1
  <2>3. BroadcastOnce' /\ CachedIsStored'
    BY <1>1, <1>4 DEF StoreInv, BroadcastOnce, CachedIsStored, CacheHas
  <2>4. MilestonesAreOffered'
    <3> SUFFICES ASSUME NEW m \in stored' \cap Tails, m \notin candidates \cup failed
                 PROVE  \E v \in Writers : pc'[v] \in {"status", "offer"} /\ job[v].p.tx = m
      BY <1>1, <1>4 DEF MilestonesAreOffered
    <3>1. CASE m = t
      BY <2>1, <3>1
    <3>2. CASE m # t
      <4>1. PICK v \in Writers : pc[v] \in {"status", "offer"} /\ job[v].p.tx = m
        BY <1>4, <3>2 DEF StoreInv, MilestonesAreOffered
      <4> QED
        BY <1>1, <2>1, <4>1
    <3> QED
      BY <3>1, <3>2
  <2>5. \A v \in Writers :
         /\ pc'[v] # "idle" => job'[v] # None
         /\ pc'[v] \in {"store", "status", "offer"} => job'[v].p.tx \in Valid
         /\ pc'[v] \in {"status", "offer"} => job'[v].p.tx \in stored' /\ casts'[job'[v].p.tx] = 0
    BY <1>1, <1>4, <2>1, <2>2 DEF StoreInv
  <2>6. \A u, v \in Writers :
         u # v /\ pc'[u] \in {"status", "offer"} /\ pc'[v] \in {"status", "offer"}
           => job'[u].p.tx # job'[v].p.tx
    <3>1. \A v \in Writers : v # w /\ pc'[v] \in {"status", "offer"} => job[v].p.tx # t
      BY <1>4, <2>1 DEF StoreInv
    <3> QED
      BY <1>1, <2>1, <3>1 DEF StoreInv
  <2>7. pc'[Validator] = "idle" => job'[Validator] = None
    BY <1>1, <2>1 DEF StoreInv, Writers
  <2>8. pc'[Validator] = "put" /\ job'[Validator].p.tx \in Valid => job'[Validator].p.tx \in stored' \cup failed'
    BY <1>1, <1>4, <2>1 DEF StoreInv, Writers
  <2> QED
    BY <2>3, <2>4, <2>5, <2>6, <2>7, <2>8 DEF StoreInv
<1> QED
  BY <1>2, <1>3, <1>4 DEF Store

\* A thread moves on with what it has stored, or beyond it.
LEMMA MovesStores ==
    ASSUME PeersInv, StoreInv, NEW w \in Writers, NEW l \in {"offer", "request"}, Goto(w, l),
           UNCHANGED <<job, stored, casts, candidates, failed>>,
           pc[w] = (IF l = "offer" THEN "status" ELSE "put"),
           CachedIsStored'
    PROVE  StoreInv'
<1>1. pc'[w] = l /\ \A v \in Writers : v # w => pc'[v] = pc[v]
  BY OthersStay
<1>2. BroadcastOnce'
  BY DEF StoreInv, BroadcastOnce
<1>3. \A v \in Writers : pc'[v] \in {"status", "offer"} <=> pc[v] \in {"status", "offer"}
  BY <1>1
<1>4. MilestonesAreOffered'
  BY <1>3 DEF StoreInv, MilestonesAreOffered
<1>5. \A v \in Writers :
         /\ pc'[v] # "idle" => pc[v] # "idle"
         /\ pc'[v] \in {"store", "status", "offer"} => pc[v] \in {"store", "status", "offer"}
         /\ pc'[v] = "idle" => pc[v] = "idle"
         /\ pc'[v] = "put" => pc[v] = "put"
  BY <1>1
<1> QED
  BY <1>2, <1>3, <1>4, <1>5 DEF StoreInv, Writers

LEMMA UpdateStatusStores ==
    ASSUME PeersInv, StoreInv, NEW w \in Writers, UpdateStatus(w)
    PROVE  StoreInv'
<1>1. pc[w] = "status" /\ UNCHANGED <<job, stored, cache, casts, candidates>> /\ job[w].p.tx \in stored
  BY DEF UpdateStatus, StoreInv
<1>2. CASE Goto(w, "offer") /\ UNCHANGED <<failed, events>>
  <2>1. CachedIsStored'
    BY <1>1, <1>2 DEF StoreInv, CachedIsStored, CacheHas
  <2> QED
    BY <1>1, <1>2, <2>1, MovesStores
<1>3. CASE Interferes(w)
  <2>1. Goto(w, After(w)) /\ failed' = failed \cup {job[w].p.tx}
    BY <1>3 DEF Interferes
  <2> QED
    BY <1>1, <2>1, LeavesStores, NotCast
<1> QED
  BY <1>2, <1>3 DEF UpdateStatus

LEMMA OfferStores ==
    ASSUME PeersInv, StoreInv, NEW w \in Writers, Offer(w)
    PROVE  StoreInv'
<1> DEFINE t == job[w].p.tx
<1>1. t \in Tx /\ t \in stored /\ casts[t] = 0 /\ pc[w] = "offer" /\ casts \in [Tx -> Nat]
  BY JobTyped DEF Offer, StoreInv, PeersInv, TypeOK
<1>2. /\ UNCHANGED <<job, stored, cache, failed>> /\ Goto(w, After(w))
      /\ candidates' = candidates \cup ({t} \cap Tails)
      /\ casts' = casts \/ casts' = [casts EXCEPT ![t] = casts[t] + 1]
  BY DEF Offer
<1>3. \A v \in Writers : v # w /\ pc[v] \in {"status", "offer"} => job[v].p.tx # t /\ casts[job[v].p.tx] = 0
  BY <1>1 DEF StoreInv
<1>a. \A v \in Writers : pc[v] \in {"status", "offer"} => job[v].p.tx \in Tx
  BY JobTyped
<1> HIDE DEF t
<1>4. \A u \in Tx : casts'[u] = casts[u] \/ (u = t /\ casts'[u] = 1)
  BY <1>1, <1>2
<1>b. \A u \in Tx : u # t => casts'[u] = casts[u]
  BY <1>1, <1>2
<1>5. BroadcastOnce'
  BY <1>1, <1>2, <1>4 DEF StoreInv, BroadcastOnce
<1>6. \A v \in Writers : v # w /\ pc[v] \in {"status", "offer"} => casts'[job[v].p.tx] = 0
  BY <1>3, <1>a, <1>b
<1> QED
  BY <1>1, <1>2, <1>5, <1>6, LeavesStores DEF t

LEMMA MarkSeenStores ==
    ASSUME PeersInv, CacheInv, StoreInv, MarkSeen
    PROVE  StoreInv'
<1> DEFINE t == job[Validator].p.tx
<1>1. t \in Tx /\ cache' = CachePut(Digest[t], t) /\ Validator \in Writers
  BY JobTyped DEF MarkSeen, Writers
<1>2. /\ Goto(Validator, "request") /\ pc[Validator] = "put"
      /\ UNCHANGED <<job, stored, casts, candidates, failed>>
  BY DEF MarkSeen, history
<1>3. t \in Valid => t \in stored \cup failed
  BY <1>2 DEF StoreInv
<1> HIDE DEF t
<1>4. \A d : CacheHas(d)' => CacheHas(d) \/ d = Digest[t]
  BY <1>1, PutKeeps
<1>5. CachedIsStored'
  <2> SUFFICES ASSUME NEW u \in Valid, CacheHas(Digest[u])' PROVE u \in stored \cup failed
    BY <1>2 DEF CachedIsStored, CacheHas
  <2>1. u \in Tx
    BY HashFacts
  <2> QED
    BY <1>1, <1>3, <1>4, <2>1, DigestsDiffer DEF StoreInv, CachedIsStored
<1> QED
  BY <1>1, <1>2, <1>5, MovesStores

LEMMA RespondStores ==
    ASSUME PeersInv, CacheInv, StoreInv, Respond
    PROVE  StoreInv'
<1>1. UNCHANGED <<threads, stored, casts, candidates, failed>>
  BY DEF Respond
<1>2. CASE cache' = cache
  BY <1>1, <1>2, StoreKept
<1>3. CASE reply.tx # None
  <2>1. /\ reply.tx \in Tx /\ reply.tx \in stored /\ reply.hash \in {reply.tx, Null}
        /\ cache' = CachePut(Digest[reply.tx], reply.hash)
    BY <1>3, HashFacts DEF Respond, CacheInv, PeersInv, TypeOK
  <2>2. \A d : CacheHas(d)' => CacheHas(d) \/ d = Digest[reply.tx]
    BY <2>1, PutKeeps
  <2>3. CachedIsStored'
    <3> SUFFICES ASSUME NEW u \in Valid, CacheHas(Digest[u])' PROVE u \in stored \cup failed
      BY <1>1 DEF CachedIsStored, CacheHas
    <3>1. u \in Tx
      BY HashFacts
    <3> QED
      BY <2>1, <2>2, <3>1, DigestsDiffer DEF StoreInv, CachedIsStored
  <2>4. BroadcastOnce' /\ MilestonesAreOffered'
    BY <1>1 DEF StoreInv, BroadcastOnce, MilestonesAreOffered, threads
  <2> QED
    BY <1>1, <2>3, <2>4 DEF StoreInv, threads
<1> QED
  BY <1>2, <1>3 DEF Respond

LEMMA PassRequestStores ==
    ASSUME PeersInv, StoreInv, PassRequest
    PROVE  StoreInv'
<1>1. /\ pc' = [pc EXCEPT ![Validator] = "idle"] /\ job' = [job EXCEPT ![Validator] = None]
      /\ UNCHANGED <<stored, casts, candidates, failed, cache>> /\ pc[Validator] = "request"
  BY DEF PassRequest, Goto
<1>2. Validator \in Writers /\ Api \in Writers /\ Writers = {Validator, Api} /\ Validator # Api
  BY NoneFacts DEF Writers
<1>3. /\ pc'[Validator] = "idle" /\ job'[Validator] = None
      /\ pc'[Api] = pc[Api] /\ job'[Api] = job[Api]
  BY <1>1, <1>2 DEF PeersInv, TypeOK
<1>4. BroadcastOnce' /\ CachedIsStored'
  BY <1>1 DEF StoreInv, BroadcastOnce, CachedIsStored, CacheHas
<1>5. MilestonesAreOffered'
  BY <1>1, <1>2, <1>3 DEF StoreInv, MilestonesAreOffered
<1> QED
  BY <1>1, <1>2, <1>3, <1>4, <1>5 DEF StoreInv
=============================================================================
