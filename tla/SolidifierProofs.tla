-------------------------- MODULE SolidifierProofs --------------------------
(***************************************************************************)
(* Proofs about TransactionSolidifier, for every tangle, every number of   *)
(* storing threads, of crashes and of storage errors, and every size of    *)
(* the queues.                                                             *)
(***************************************************************************)
EXTENDS TransactionSolidifier, FiniteSetTheorems, TLAPS
USE ZenonT(10), SMTT(60)
\* A set that is used as a queue.
NoRepetition(s) == \A i, j \in 1..Len(s) : s[i] = s[j] => i = j

-----------------------------------------------------------------------------
(* The tables that are used as queues.                                     *)

LEMMA ElementsOfSeq ==
    ASSUME NEW T, NEW s \in Seq(T)
    PROVE  /\ Range(s) = {s[i] : i \in 1..Len(s)} /\ Range(s) \subseteq T
           /\ Len(s) \in Nat /\ DOMAIN s = 1..Len(s)
<1>1. Len(s) \in Nat /\ DOMAIN s = 1..Len(s) /\ \A i \in 1..Len(s) : s[i] \in T
  OBVIOUS
<1> QED
  BY <1>1 DEF Range

LEMMA EmptyHasNone ==
    ASSUME NEW T, NEW s \in Seq(T), Len(s) = 0
    PROVE  Range(s) = {} /\ NoRepetition(s)
<1>1. Range(s) = {s[i] : i \in 1..Len(s)}
  BY ZenonT(100), ElementsOfSeq
<1> QED
  BY <1>1 DEF NoRepetition

LEMMA ContainsIsIn ==
    ASSUME NEW T, NEW s \in Seq(T), NEW h
    PROVE  /\ SetContains(s, h) <=> h \in Range(s)
           /\ SetContains(s, h) <=> \E i \in 1..Len(s) : s[i] = h
  BY ElementsOfSeq DEF SetContains

\* hash243_set_remove takes out h and nothing else.
LEMMA RemoveIsMinus ==
    ASSUME NEW T, NEW s \in Seq(T), NEW h
    PROVE  /\ SetRemove(s, h) \in Seq(T)
           /\ Len(SetRemove(s, h)) <= Len(s)
           /\ Range(SetRemove(s, h)) \subseteq Range(s)
           /\ NoRepetition(s) => /\ NoRepetition(SetRemove(s, h))
                                 /\ Range(SetRemove(s, h)) = Range(s) \ {h}
<1>1. CASE ~SetContains(s, h)
  BY <1>1, ContainsIsIn DEF SetRemove
<1>2. CASE SetContains(s, h)
  <2> DEFINE k == CHOOSE i \in 1..Len(s) : s[i] = h
             r == [i \in 1..(Len(s) - 1) |-> IF i < k THEN s[i] ELSE s[i + 1]]
  <2>1. k \in 1..Len(s) /\ s[k] = h
    BY <1>2, ContainsIsIn
  <2>2. SetRemove(s, h) = r
    BY <1>2 DEF SetRemove
  <2> HIDE DEF k
  <2>3. Len(s) \in Nat /\ Len(s) - 1 \in Nat
    BY <2>1
  <2>4. \A i \in 1..(Len(s) - 1) : r[i] \in T
    BY <2>1, <2>3
  <2>5. r \in Seq(T) /\ Len(r) = Len(s) - 1
    BY <2>3, <2>4
  <2>6. Range(r) \subseteq Range(s)
    BY <2>1, <2>3 DEF Range
  <2>7. ASSUME NoRepetition(s) PROVE NoRepetition(r)
    BY <2>1, <2>3, <2>5, <2>7 DEF NoRepetition
  <2>8. ASSUME NoRepetition(s) PROVE h \notin Range(r)
    BY <2>1, <2>3, <2>8 DEF NoRepetition, Range
  <2>9. ASSUME NEW x \in Range(s), x # h PROVE x \in Range(r)
    <3>1. PICK i \in 1..Len(s) : s[i] = x
      BY <2>9, ElementsOfSeq
    <3>2. CASE i < k
      <4>1. i \in 1..(Len(s) - 1) /\ r[i] = x
        BY <2>1, <2>3, <3>1, <3>2
      <4> QED
        BY <4>1 DEF Range
    <3>3. CASE i > k
      <4>1. i - 1 \in 1..(Len(s) - 1) /\ r[i - 1] = x
        BY <2>1, <2>3, <3>1, <3>3
      <4> QED
        BY <4>1 DEF Range
    <3> QED
      BY <2>1, <2>3, <2>9, <3>1, <3>2, <3>3
  <2> HIDE DEF r
  <2> QED
    BY <2>2, <2>3, <2>5, <2>6, <2>7, <2>8, <2>9
<1> QED
  BY <1>1, <1>2

LEMMA RemoveHeadIsTail ==
    ASSUME NEW T, NEW s \in Seq(T)
    PROVE  /\ SetRemoveHead(s) \in Seq(T)
           /\ Range(SetRemoveHead(s)) \subseteq Range(s)
           /\ NoRepetition(s) => NoRepetition(SetRemoveHead(s))
           /\ s # <<>> => Len(SetRemoveHead(s)) = Len(s) - 1
<1>1. CASE s = <<>>
  BY <1>1 DEF SetRemoveHead
<1>2. CASE s # <<>>
  <2>1. /\ Tail(s) \in Seq(T) /\ Len(Tail(s)) = Len(s) - 1 /\ Len(s) \in Nat \ {0}
        /\ \A i \in 1..(Len(s) - 1) : Tail(s)[i] = s[i + 1]
    BY <1>2
  <2>2. Range(Tail(s)) \subseteq Range(s)
    <3>1. Range(Tail(s)) = {Tail(s)[i] : i \in 1..(Len(s) - 1)}
      BY <2>1, ElementsOfSeq
    <3>2. \A i \in 1..(Len(s) - 1) : i + 1 \in 1..Len(s)
      BY <2>1
    <3> QED
      BY <2>1, <3>1, <3>2, ElementsOfSeq
  <2>3. NoRepetition(s) => NoRepetition(Tail(s))
    BY <2>1 DEF NoRepetition
  <2> QED
    BY <1>2, <2>1, <2>2, <2>3 DEF SetRemoveHead
<1> QED
  BY <1>1, <1>2

\* tips_cache_fifo_add stays within its capacity, adds h and nothing else.
LEMMA FifoAddIsBounded ==
    ASSUME NEW T, NEW s \in Seq(T), NEW h \in T, NEW c \in Nat \ {0}
    PROVE  /\ FifoAdd(s, c, h) \in Seq(T)
           /\ Range(FifoAdd(s, c, h)) \subseteq Range(s) \cup {h}
           /\ NoRepetition(s) => NoRepetition(FifoAdd(s, c, h))
           /\ Len(s) <= c => Len(FifoAdd(s, c, h)) <= c
<1> DEFINE r == IF Len(s) >= c THEN SetRemoveHead(s) ELSE s
<1>1. /\ r \in Seq(T) /\ Range(r) \subseteq Range(s)
      /\ NoRepetition(s) => NoRepetition(r)
      /\ Len(s) <= c => Len(r) < c
  <2>1. CASE Len(s) >= c
    <3>1. s # <<>> /\ Len(s) \in Nat
      BY <2>1
    <3> QED
      BY <2>1, <3>1, RemoveHeadIsTail
  <2>2. CASE ~(Len(s) >= c)
    BY <2>2, ElementsOfSeq
  <2> QED
    BY <2>1, <2>2
<1>2. FifoAdd(s, c, h) = SetAdd(r, h)
  BY DEF FifoAdd
<1> HIDE DEF r
<1>3. CASE SetContains(r, h)
  BY <1>1, <1>2, <1>3, ElementsOfSeq DEF SetAdd
<1>4. CASE ~SetContains(r, h)
  <2>1. /\ Append(r, h) \in Seq(T) /\ Len(Append(r, h)) = Len(r) + 1 /\ Len(r) \in Nat
        /\ \A i \in 1..Len(r) : Append(r, h)[i] = r[i]
        /\ Append(r, h)[Len(r) + 1] = h
    BY <1>1
  <2>2. Range(Append(r, h)) \subseteq Range(r) \cup {h}
    <3>1. Range(Append(r, h)) = {Append(r, h)[i] : i \in 1..(Len(r) + 1)}
      BY <2>1, ElementsOfSeq
    <3>2. \A i \in 1..(Len(r) + 1) : i \in 1..Len(r) \/ i = Len(r) + 1
      BY <2>1
    <3> QED
      BY <1>1, <2>1, <3>1, <3>2, ElementsOfSeq
  <2>3. NoRepetition(r) => NoRepetition(Append(r, h))
    BY <1>1, <1>4, <2>1, ContainsIsIn DEF NoRepetition
  <2> QED
    BY <1>1, <1>2, <1>4, <2>1, <2>2, <2>3 DEF SetAdd
<1> QED
  BY <1>3, <1>4
-----------------------------------------------------------------------------
USE SolidifierAssumption

Labels == {"idle", "store", "clear", "cleared", "count", "add", "trunk", "trunkSolid",
           "branch", "branchSolid", "check", "checkBranch", "update", "new", "setSolid",
           "addSolid", "next"}

\* The thread has stored its transaction and has not come to the tips cache.
Entering == {"clear", "cleared", "count", "add"}

(***************************************************************************)
(* What a thread knows of the transaction it works on, from what it read   *)
(* before: the flag is never taken back.                                   *)
(***************************************************************************)
ThreadInv ==
    /\ pc \in [Threads -> Labels] /\ tx \in [Threads -> Tx \cup {NoTx}]
    /\ \A th \in Threads :
         /\ pc[th] = "store" => tx[th] \in Tx
         /\ pc[th] \in {"checkBranch", "update"} => ApproveeSolid(Trunk[tx[th]])
         /\ pc[th] = "update" => ApproveeSolid(Branch[tx[th]])
         /\ pc[th] \in {"new", "setSolid", "addSolid"} => tx[th] \in solid

(***************************************************************************)
(* A transaction is stored once, so one thread adds it to the cache, once, *)
(* and before that nobody can move it to the solid tips.                   *)
(***************************************************************************)
CacheInv ==
    /\ NoRepetition(tips) /\ NoRepetition(solidTips)
    /\ Range(tips) \subseteq stored
    /\ \A th \in Threads :
         /\ pc[th] \in Entering => tx[th] \notin Range(tips) \cup Range(solidTips)
         /\ pc[th] = "addSolid" => tx[th] \notin Range(tips)
    /\ \A th1, th2 \in Threads :
         th1 # th2 /\ pc[th1] \in Entering /\ pc[th2] \in Entering \cup {"addSolid"}
           => tx[th1] # tx[th2]

(***************************************************************************)
(* As long as check_solidity has missed nothing, what it has analyzed is   *)
(* solid or a candidate, and what a candidate approves is that or still on *)
(* the stack.                                                              *)
(***************************************************************************)
WalkInv ==
    /\ cpc \in {"idle", "walk", "request", "enqueue", "append"}
    /\ cpc # "idle" => EntryPoints \subseteq analyzed
    /\ cpc \in {"request", "enqueue"} => missing \in Tx
    /\ good => /\ analyzed \subseteq found \cup solid \cup EntryPoints
               /\ \A t \in found : {Trunk[t], Branch[t]}
                                     \subseteq Range(stack) \cup found \cup solid \cup EntryPoints

SolidifierInv == SolidifierSafety /\ ThreadInv /\ CacheInv /\ WalkInv
-----------------------------------------------------------------------------
LEMMA InitInv == Init => SolidifierInv
<1> SUFFICES ASSUME Init PROVE SolidifierInv
  OBVIOUS
<1> DEFINE empty == <<>>
<1>1. /\ empty \in Seq(Tx) /\ empty \in Seq(Hash) /\ Len(empty) = 0
      /\ Range(empty) = {} /\ NoRepetition(empty)
  <2>1. empty \in Seq(Tx) /\ empty \in Seq(Hash) /\ Len(empty) = 0
    OBVIOUS
  <2> QED
    BY <2>1, EmptyHasNone
<1> HIDE DEF empty
<1>2. tips = empty /\ solidTips = empty /\ hashes = empty /\ stack = empty
  BY DEF Init, empty
<1>3. TypeOK
  BY <1>1, <1>2 DEF Init, TypeOK, Threads
<1>4. ThreadInv
  BY DEF Init, ThreadInv, Threads, Labels
<1>5. SolidIsComplete /\ TipsAreSorted /\ CacheInv
  BY <1>1, <1>2 DEF Init, SolidIsComplete, TipsAreSorted, CacheInv, Threads, Entering
<1>6. WalkInv
  BY <1>1, <1>2 DEF Init, WalkInv
<1> QED
  BY <1>3, <1>4, <1>5, <1>6 DEF SolidifierInv, SolidifierSafety

\* check_solidity's walk is not disturbed by other threads that set the flag.
LEMMA WalkUndisturbed ==
    ASSUME WalkInv, UNCHANGED walk, solid \subseteq solid'
    PROVE  WalkInv'
BY DEF WalkInv, walk

\* A thread that is done with its transaction, or gives up on it.
LEMMA ThreadStops ==
    ASSUME TypeOK, ThreadInv, CacheInv, NEW th \in Threads, Return(th) \/ Fail(th),
           UNCHANGED <<database, cache>>
    PROVE  ThreadInv' /\ CacheInv'
<1>1. /\ pc' \in [Threads -> Labels] /\ pc'[th] \in {"idle", "next"}
      /\ tx' \in [Threads -> Tx \cup {NoTx}]
      /\ \A o \in Threads : o # th => pc'[o] = pc[o] /\ tx'[o] = tx[o]
  BY DEF ThreadInv, Return, Fail, Goto, Labels
<1>2. ThreadInv'
  BY <1>1 DEF ThreadInv, ApproveeSolid, database
<1>3. CacheInv'
  BY <1>1 DEF CacheInv, Entering, database, cache
<1> QED
  BY <1>2, <1>3

LEMMA ReceiveStep ==
    ASSUME SolidifierInv, NEW w \in Writers, NEW t \in Tx, Receive(w, t)
    PROVE  SolidifierInv'
<1> USE DEF SolidifierInv, SolidifierSafety, Receive, database, cache, requester, propagate
<1>1. TypeOK'
  BY DEF TypeOK, ThreadInv, Goto, Return, Fail, Threads, ApproversOf, walk
<1>2. SolidIsComplete' /\ TipsAreSorted'
  BY DEF SolidIsComplete, TipsAreSorted
<1>3. ThreadInv'
  BY DEF ThreadInv, TypeOK, Goto, Return, Fail, Threads, Labels, ApproveeSolid
<1>4. CacheInv'
  BY DEF CacheInv, ThreadInv, TypeOK, Goto, Return, Fail, Threads, Entering
<1>5. WalkInv'
  BY WalkUndisturbed
<1> QED
  BY <1>1, <1>2, <1>3, <1>4, <1>5

LEMMA ClearRequestedStep ==
    ASSUME SolidifierInv, NEW w \in Writers, ClearRequested(w)
    PROVE  SolidifierInv'
<1> USE DEF SolidifierInv, SolidifierSafety, ClearRequested, database, cache, requester, propagate
<1>1. TypeOK'
  BY DEF TypeOK, ThreadInv, Goto, Return, Fail, Threads, ApproversOf, walk
<1>2. SolidIsComplete' /\ TipsAreSorted'
  BY DEF SolidIsComplete, TipsAreSorted
<1>3. ThreadInv'
  BY DEF ThreadInv, TypeOK, Goto, Return, Fail, Threads, Labels, ApproveeSolid
<1>4. CacheInv'
  BY DEF CacheInv, ThreadInv, TypeOK, Goto, Return, Fail, Threads, Entering
<1>5. WalkInv'
  BY WalkUndisturbed
<1> QED
  BY <1>1, <1>2, <1>3, <1>4, <1>5

LEMMA CountApproversStep ==
    ASSUME SolidifierInv, NEW w \in Writers, CountApprovers(w)
    PROVE  SolidifierInv'
<1> USE DEF SolidifierInv, SolidifierSafety, CountApprovers, database, cache, requester, propagate
<1>1. TypeOK'
  BY DEF TypeOK, ThreadInv, Goto, Return, Fail, Threads, ApproversOf, walk
<1>2. SolidIsComplete' /\ TipsAreSorted'
  BY DEF SolidIsComplete, TipsAreSorted
<1>3. ThreadInv' /\ CacheInv'
  <2>1. CASE UNCHANGED tx /\ Goto(w, IF ApproversOf(tx[w]) = {} THEN "add" ELSE "trunk")
    <3>1. ThreadInv'
      BY <2>1 DEF ThreadInv, TypeOK, Goto, Threads, Labels, ApproveeSolid
    <3>2. CacheInv'
      BY <2>1 DEF CacheInv, ThreadInv, TypeOK, Goto, Threads, Entering
    <3> QED
      BY <3>1, <3>2
  <2>2. CASE Return(w) \/ Fail(w)
    BY <2>2, ThreadStops DEF Threads
  <2> QED
    BY <2>1, <2>2
<1>4. WalkInv'
  BY WalkUndisturbed
<1> QED
  BY <1>1, <1>2, <1>3, <1>4

LEMMA CheckTrunkStep ==
    ASSUME SolidifierInv, NEW th \in Threads, CheckTrunk(th)
    PROVE  SolidifierInv'
<1> USE DEF SolidifierInv, SolidifierSafety, CheckTrunk, database, cache, requester, propagate
<1>1. TypeOK'
  BY DEF TypeOK, ThreadInv, Goto, Return, Fail, Threads, ApproversOf, walk
<1>2. SolidIsComplete' /\ TipsAreSorted'
  BY DEF SolidIsComplete, TipsAreSorted
<1>3. ThreadInv' /\ CacheInv'
  <2>1. CASE tx[th] \in stored \ solid /\ ApproveeSolid(Trunk[tx[th]])
              /\ UNCHANGED tx /\ Goto(th, "checkBranch")
    <3>1. ThreadInv'
      BY <2>1 DEF ThreadInv, TypeOK, Goto, Threads, Labels, ApproveeSolid
    <3>2. CacheInv'
      BY <2>1 DEF CacheInv, ThreadInv, TypeOK, Goto, Threads, Entering
    <3> QED
      BY <3>1, <3>2
  <2>2. CASE Return(th) \/ Fail(th)
    BY <2>2, ThreadStops DEF Threads
  <2> QED
    BY <2>1, <2>2
<1>4. WalkInv'
  BY WalkUndisturbed
<1> QED
  BY <1>1, <1>2, <1>3, <1>4

LEMMA CheckBranchStep ==
    ASSUME SolidifierInv, NEW th \in Threads, CheckBranch(th)
    PROVE  SolidifierInv'
<1> USE DEF SolidifierInv, SolidifierSafety, CheckBranch, database, cache, requester, propagate
<1>1. TypeOK'
  BY DEF TypeOK, ThreadInv, Goto, Return, Fail, Threads, ApproversOf, walk
<1>2. SolidIsComplete' /\ TipsAreSorted'
  BY DEF SolidIsComplete, TipsAreSorted
<1>3. ThreadInv' /\ CacheInv'
  <2>1. CASE ApproveeSolid(Branch[tx[th]]) /\ UNCHANGED tx /\ Goto(th, "update")
    <3>1. ThreadInv'
      BY <2>1 DEF ThreadInv, TypeOK, Goto, Threads, Labels, ApproveeSolid
    <3>2. CacheInv'
      BY <2>1 DEF CacheInv, ThreadInv, TypeOK, Goto, Threads, Entering
    <3> QED
      BY <3>1, <3>2
  <2>2. CASE Return(th) \/ Fail(th)
    BY <2>2, ThreadStops DEF Threads
  <2> QED
    BY <2>1, <2>2
<1>4. WalkInv'
  BY WalkUndisturbed
<1> QED
  BY <1>1, <1>2, <1>3, <1>4

LEMMA AddNewSolidStep ==
    ASSUME SolidifierInv, NEW th \in Threads, AddNewSolid(th)
    PROVE  SolidifierInv'
<1> USE DEF SolidifierInv, SolidifierSafety, AddNewSolid, database, cache, requester, propagate
<1>1. TypeOK'
  BY DEF TypeOK, ThreadInv, Goto, Return, Fail, Threads, ApproversOf, walk
<1>2. SolidIsComplete' /\ TipsAreSorted'
  BY DEF SolidIsComplete, TipsAreSorted
<1>3. ThreadInv'
  BY DEF ThreadInv, TypeOK, Goto, Return, Fail, Threads, Labels, ApproveeSolid
<1>4. CacheInv'
  BY DEF CacheInv, ThreadInv, TypeOK, Goto, Return, Fail, Threads, Entering
<1>5. WalkInv'
  BY WalkUndisturbed
<1> QED
  BY <1>1, <1>2, <1>3, <1>4, <1>5

LEMMA TakeBatchStep ==
    ASSUME SolidifierInv, TakeBatch
    PROVE  SolidifierInv'
<1> USE DEF SolidifierInv, SolidifierSafety, TakeBatch, database, cache, requester, propagate
<1>1. TypeOK'
  BY DEF TypeOK, ThreadInv, Goto, Return, Fail, Threads, ApproversOf, walk
<1>2. SolidIsComplete' /\ TipsAreSorted'
  BY DEF SolidIsComplete, TipsAreSorted
<1>3. ThreadInv'
  BY DEF ThreadInv, TypeOK, Goto, Return, Fail, Threads, Labels, ApproveeSolid
<1>4. CacheInv'
  BY DEF CacheInv, ThreadInv, TypeOK, Goto, Return, Fail, Threads, Entering
<1>5. WalkInv'
  BY WalkUndisturbed
<1> QED
  BY <1>1, <1>2, <1>3, <1>4, <1>5

LEMMA LoadApproversStep ==
    ASSUME SolidifierInv, NEW h \in todo, LoadApprovers(h)
    PROVE  SolidifierInv'
<1> USE DEF SolidifierInv, SolidifierSafety, LoadApprovers, database, cache, requester, propagate
<1>1. TypeOK'
  BY DEF TypeOK, ThreadInv, Goto, Return, Fail, Threads, ApproversOf, walk
<1>2. SolidIsComplete' /\ TipsAreSorted'
  BY DEF SolidIsComplete, TipsAreSorted
<1>3. ThreadInv'
  BY DEF ThreadInv, TypeOK, Goto, Return, Fail, Threads, Labels, ApproveeSolid
<1>4. CacheInv'
  BY DEF CacheInv, ThreadInv, TypeOK, Goto, Return, Fail, Threads, Entering
<1>5. WalkInv'
  BY WalkUndisturbed
<1> QED
  BY <1>1, <1>2, <1>3, <1>4, <1>5

LEMMA NextApproverStep ==
    ASSUME SolidifierInv, NEW t \in approvers, NextApprover(t)
    PROVE  SolidifierInv'
<1> USE DEF SolidifierInv, SolidifierSafety, NextApprover, database, cache, requester, propagate
<1>1. TypeOK'
  BY DEF TypeOK, ThreadInv, Goto, Return, Fail, Threads, ApproversOf, walk
<1>2. SolidIsComplete' /\ TipsAreSorted'
  BY DEF SolidIsComplete, TipsAreSorted
<1>3. ThreadInv'
  BY DEF ThreadInv, TypeOK, Goto, Return, Fail, Threads, Labels, ApproveeSolid
<1>4. CacheInv'
  BY DEF CacheInv, ThreadInv, TypeOK, Goto, Return, Fail, Threads, Entering
<1>5. WalkInv'
  BY WalkUndisturbed
<1> QED
  BY <1>1, <1>2, <1>3, <1>4, <1>5

LEMMA BatchDoneStep ==
    ASSUME SolidifierInv, BatchDone
    PROVE  SolidifierInv'
<1> USE DEF SolidifierInv, SolidifierSafety, BatchDone, database, cache, requester, propagate
<1>1. TypeOK'
  BY DEF TypeOK, ThreadInv, Goto, Return, Fail, Threads, ApproversOf, walk
<1>2. SolidIsComplete' /\ TipsAreSorted'
  BY DEF SolidIsComplete, TipsAreSorted
<1>3. ThreadInv'
  BY DEF ThreadInv, TypeOK, Goto, Return, Fail, Threads, Labels, ApproveeSolid
<1>4. CacheInv'
  BY DEF CacheInv, ThreadInv, TypeOK, Goto, Return, Fail, Threads, Entering
<1>5. WalkInv'
  BY WalkUndisturbed
<1> QED
  BY <1>1, <1>2, <1>3, <1>4, <1>5

LEMMA StoreStep ==
    ASSUME SolidifierInv, NEW w \in Writers, Store(w)
    PROVE  SolidifierInv'
<1> USE DEF SolidifierInv, SolidifierSafety, Store, database, cache, requester, propagate
<1>1. TypeOK'
  BY ZenonT(100) DEF TypeOK, ThreadInv, Goto, Return, Fail, Threads, walk
<1>2. SolidIsComplete' /\ TipsAreSorted'
  BY DEF SolidIsComplete, TipsAreSorted
<1>3. ThreadInv' /\ CacheInv'
  <2>1. CASE tx[w] \notin stored /\ stored' = stored \cup {tx[w]} /\ UNCHANGED tx /\ Goto(w, "clear")
    <3>1. ThreadInv'
      BY <2>1 DEF ThreadInv, TypeOK, Goto, Threads, Labels, ApproveeSolid
    <3>2. Range(tips) \cup Range(solidTips) \subseteq stored
      BY DEF CacheInv, TypeOK, TipsAreSorted
    <3>3. CacheInv'
      BY <2>1, <3>2 DEF CacheInv, ThreadInv, TypeOK, Goto, Threads, Entering
    <3> QED
      BY <3>1, <3>3
  <2>2. CASE (Return(w) \/ Fail(w)) /\ UNCHANGED stored
    BY <2>2, ThreadStops DEF Threads
  <2> QED
    BY <2>1, <2>2
<1>4. WalkInv'
  BY WalkUndisturbed
<1> QED
  BY <1>1, <1>2, <1>3, <1>4

LEMMA ClearHashesStep ==
    ASSUME SolidifierInv, NEW w \in Writers, ClearHashes(w)
    PROVE  SolidifierInv'
<1> USE DEF SolidifierInv, SolidifierSafety, ClearHashes, database, cache, requester, propagate
<1>1. hashes' \in Seq(Tx)
  BY RemoveIsMinus DEF TypeOK
<1>2. TypeOK'
  BY <1>1 DEF TypeOK, ThreadInv, Goto, Threads, walk
<1>3. SolidIsComplete' /\ TipsAreSorted'
  BY DEF SolidIsComplete, TipsAreSorted
<1>4. ThreadInv'
  BY DEF ThreadInv, TypeOK, Goto, Threads, Labels, ApproveeSolid
<1>5. CacheInv'
  BY DEF CacheInv, ThreadInv, TypeOK, Goto, Threads, Entering
<1>6. WalkInv'
  BY WalkUndisturbed
<1> QED
  BY <1>2, <1>3, <1>4, <1>5, <1>6

LEMMA AddTipStep ==
    ASSUME SolidifierInv, NEW w \in Writers, AddTip(w)
    PROVE  SolidifierInv'
<1> USE DEF SolidifierInv, SolidifierSafety, AddTip, database, cache, requester, propagate
<1>1. tx[w] \in stored /\ tx[w] \in Tx
  BY DEF TypeOK, Threads
<1>2. /\ tips' \in Seq(Tx) /\ Len(tips') <= TipsCapacity /\ NoRepetition(tips')
      /\ Range(tips') \subseteq Range(tips) \cup {tx[w]}
  BY <1>1, FifoAddIsBounded DEF TypeOK, CacheInv, TipsAreSorted
<1>3. TypeOK'
  BY <1>2 DEF TypeOK, ThreadInv, Goto, Threads, walk
<1>4. tx[w] \notin Range(solidTips)
  BY DEF CacheInv, Entering, Threads
<1>5. SolidIsComplete' /\ TipsAreSorted'
  BY <1>2, <1>4 DEF SolidIsComplete, TipsAreSorted
<1>6. ThreadInv'
  BY DEF ThreadInv, TypeOK, Goto, Threads, Labels, ApproveeSolid
<1>7. CacheInv'
  BY <1>1, <1>2 DEF CacheInv, ThreadInv, Goto, Threads, Entering
<1>8. WalkInv'
  BY WalkUndisturbed
<1> QED
  BY <1>3, <1>5, <1>6, <1>7, <1>8

LEMMA RemoveTipStep ==
    ASSUME SolidifierInv, NEW w \in Writers, RemoveTip(w)
    PROVE  SolidifierInv'
<1> USE DEF SolidifierInv, SolidifierSafety, RemoveTip, database, cache, requester, propagate
<1>1. /\ tips' \in Seq(Tx) /\ Len(tips') <= Len(tips) /\ NoRepetition(tips')
      /\ Range(tips') \subseteq Range(tips)
  BY RemoveIsMinus DEF TypeOK, CacheInv
<1>2. TypeOK'
  BY <1>1 DEF TypeOK, ThreadInv, Goto, Threads, walk
<1>3. Len(tips') \in Nat /\ Len(tips) \in Nat
  BY <1>1 DEF TypeOK
<1>4. SolidIsComplete' /\ TipsAreSorted'
  BY <1>1, <1>3 DEF SolidIsComplete, TipsAreSorted
<1>5. ThreadInv'
  BY DEF ThreadInv, TypeOK, Goto, Threads, Labels, ApproveeSolid
<1>6. CacheInv'
  BY <1>1 DEF CacheInv, ThreadInv, Goto, Threads, Entering
<1>7. WalkInv'
  BY WalkUndisturbed
<1> QED
  BY <1>2, <1>4, <1>5, <1>6, <1>7

LEMMA RemoveSolidTipStep ==
    ASSUME SolidifierInv, NEW w \in Writers, RemoveSolidTip(w)
    PROVE  SolidifierInv'
<1> USE DEF SolidifierInv, SolidifierSafety, RemoveSolidTip, database, cache, requester, propagate
<1>1. /\ solidTips' \in Seq(Tx) /\ Len(solidTips') <= Len(solidTips)
      /\ NoRepetition(solidTips') /\ Range(solidTips') \subseteq Range(solidTips)
  BY RemoveIsMinus DEF TypeOK, CacheInv
<1>2. TypeOK'
  BY <1>1 DEF TypeOK, ThreadInv, Goto, Threads, walk
<1>3. Len(solidTips') \in Nat /\ Len(solidTips) \in Nat
  BY <1>1 DEF TypeOK
<1>4. SolidIsComplete' /\ TipsAreSorted'
  BY <1>1, <1>3 DEF SolidIsComplete, TipsAreSorted
<1>5. ThreadInv'
  BY DEF ThreadInv, TypeOK, Goto, Threads, Labels, ApproveeSolid
<1>6. CacheInv'
  BY <1>1 DEF CacheInv, ThreadInv, Goto, Threads, Entering
<1>7. WalkInv'
  BY WalkUndisturbed
<1> QED
  BY <1>2, <1>4, <1>5, <1>6, <1>7

LEMMA UpdateSolidityStep ==
    ASSUME SolidifierInv, NEW th \in Threads, UpdateSolidity(th)
    PROVE  SolidifierInv'
<1> USE DEF SolidifierInv, SolidifierSafety, UpdateSolidity, database, cache, requester, propagate
<1>1. tx[th] \in stored /\ stored \subseteq Tx
  BY DEF TypeOK
<1>2. TypeOK'
  BY <1>1 DEF TypeOK, ThreadInv, Goto, Fail, Threads, walk
<1>3. solid \subseteq solid'
  OBVIOUS
<1>4. {Trunk[tx[th]], Branch[tx[th]]} \subseteq solid \cup EntryPoints
  BY DEF ThreadInv, ApproveeSolid
<1>5. SolidIsComplete' /\ TipsAreSorted'
  BY <1>3, <1>4 DEF SolidIsComplete, TipsAreSorted
<1>6. ThreadInv' /\ CacheInv'
  <2>1. CASE solid' = solid \cup {tx[th]} /\ UNCHANGED tx /\ Goto(th, "new")
    <3>1. ThreadInv'
      BY <2>1 DEF ThreadInv, TypeOK, Goto, Labels, ApproveeSolid
    <3>2. CacheInv'
      BY <2>1 DEF CacheInv, ThreadInv, Goto, Entering
    <3> QED
      BY <3>1, <3>2
  <2>2. CASE Fail(th) /\ UNCHANGED solid
    BY <2>2, ThreadStops
  <2> QED
    BY <2>1, <2>2
<1>7. WalkInv'
  BY <1>3, WalkUndisturbed
<1> QED
  BY <1>2, <1>5, <1>6, <1>7

LEMMA SetSolidStep ==
    ASSUME SolidifierInv, NEW th \in Threads, SetSolid(th)
    PROVE  SolidifierInv'
<1> USE DEF SolidifierInv, SolidifierSafety, SetSolid, database, cache, requester, propagate
<1>1. /\ tips \in Seq(Tx) /\ tips' \in Seq(Tx) /\ Len(tips') <= Len(tips)
      /\ NoRepetition(tips') /\ Range(tips') \subseteq Range(tips)
  BY RemoveIsMinus DEF TypeOK, CacheInv
<1>2. TypeOK'
  BY <1>1 DEF TypeOK, ThreadInv, Goto, Return, Threads, walk
<1>3. Len(tips') \in Nat /\ Len(tips) \in Nat
  BY <1>1
<1>4. SolidIsComplete' /\ TipsAreSorted'
  BY <1>1, <1>3 DEF SolidIsComplete, TipsAreSorted
<1>5. ThreadInv' /\ CacheInv'
  <2>1. CASE SetContains(tips, tx[th])
    <3>1. tx[th] \in Range(tips) /\ tx[th] \notin Range(tips')
      BY <2>1, <1>1, ContainsIsIn, RemoveIsMinus DEF CacheInv
    <3>2. ThreadInv'
      BY <2>1 DEF ThreadInv, TypeOK, Goto, Labels, ApproveeSolid
    <3>3. CacheInv'
      BY <2>1, <1>1, <3>1 DEF CacheInv, ThreadInv, Goto, Entering
    <3> QED
      BY <3>2, <3>3
  <2>2. CASE ~SetContains(tips, tx[th])
    BY <2>2, ThreadStops
  <2> QED
    BY <2>1, <2>2
<1>6. WalkInv'
  BY WalkUndisturbed
<1> QED
  BY <1>2, <1>4, <1>5, <1>6

LEMMA AddSolidTipStep ==
    ASSUME SolidifierInv, NEW th \in Threads, AddSolidTip(th)
    PROVE  SolidifierInv'
<1> USE DEF SolidifierInv, SolidifierSafety, AddSolidTip, database, cache, requester, propagate
<1>1. tx[th] \in solid /\ tx[th] \in Tx /\ tx[th] \notin Range(tips)
  BY DEF TypeOK, ThreadInv, CacheInv
<1>2. /\ solidTips' \in Seq(Tx) /\ Len(solidTips') <= TipsCapacity /\ NoRepetition(solidTips')
      /\ Range(solidTips') \subseteq Range(solidTips) \cup {tx[th]}
  BY <1>1, FifoAddIsBounded DEF TypeOK, CacheInv, TipsAreSorted
<1>3. TypeOK'
  BY <1>2 DEF TypeOK, ThreadInv, Goto, Return, Threads, walk
<1>4. SolidIsComplete' /\ TipsAreSorted'
  BY <1>1, <1>2 DEF SolidIsComplete, TipsAreSorted
<1>5. /\ pc' \in [Threads -> Labels] /\ pc'[th] \in {"idle", "next"}
      /\ tx' \in [Threads -> Tx \cup {NoTx}]
      /\ \A o \in Threads : o # th => pc'[o] = pc[o] /\ tx'[o] = tx[o]
  BY DEF ThreadInv, Return, Goto, Labels
<1>6. ThreadInv'
  BY <1>5 DEF ThreadInv, ApproveeSolid
<1>7. CacheInv'
  BY <1>2, <1>5 DEF CacheInv, Entering
<1>8. WalkInv'
  BY WalkUndisturbed
<1> QED
  BY <1>3, <1>4, <1>6, <1>7, <1>8
-----------------------------------------------------------------------------
(* check_solidity.                                                         *)

\* What a visit does to the stack.
LEMMA StackSets ==
    ASSUME NEW T, NEW s \in Seq(T), s # <<>>, NEW a \in T, NEW b \in T
    PROVE  /\ Head(s) \in T /\ Tail(s) \in Seq(T)
           /\ Range(s) \subseteq {Head(s)} \cup Range(Tail(s))
           /\ <<a, b>> \o Tail(s) \in Seq(T)
           /\ Range(<<a, b>> \o Tail(s)) = {a, b} \cup Range(Tail(s))
<1> DEFINE r == Tail(s)
           c == <<a, b>> \o r
<1>1. /\ Head(s) = s[1] /\ Head(s) \in T /\ r \in Seq(T) /\ Len(s) \in Nat \ {0}
      /\ Len(r) = Len(s) - 1 /\ \A i \in 1..Len(r) : r[i] = s[i + 1]
  OBVIOUS
<1>2. /\ c \in Seq(T) /\ Len(c) = Len(r) + 2 /\ c[1] = a /\ c[2] = b
      /\ \A i \in 1..Len(r) : c[i + 2] = r[i]
  BY <1>1
<1> HIDE DEF r, c
<1>3. /\ Range(s) = {s[i] : i \in 1..Len(s)} /\ Range(r) = {r[i] : i \in 1..Len(r)}
      /\ Range(c) = {c[i] : i \in 1..Len(c)}
  BY <1>1, <1>2, ElementsOfSeq
<1>4. Range(s) \subseteq {Head(s)} \cup Range(r)
  <2>1. \A i \in 1..Len(s) : i = 1 \/ i - 1 \in 1..Len(r)
    BY <1>1
  <2>2. \A i \in 1..Len(s) : i # 1 => s[i] = r[i - 1]
    BY <1>1
  <2> QED
    BY <1>1, <1>3, <2>1, <2>2
<1>5. Range(c) = {a, b} \cup Range(r)
  <2>1. \A i \in 1..Len(c) : i = 1 \/ i = 2 \/ (i - 2 \in 1..Len(r) /\ c[i] = r[i - 2])
    <3> SUFFICES ASSUME NEW i \in 1..Len(c), i # 1, i # 2
                 PROVE  i - 2 \in 1..Len(r) /\ c[i] = r[i - 2]
      OBVIOUS
    <3>1. i - 2 \in 1..Len(r) /\ (i - 2) + 2 = i
      BY <1>1, <1>2
    <3> DEFINE j == i - 2
    <3>2. c[j + 2] = r[j]
      <4> HIDE DEF j
      <4> QED
        BY <1>2, <3>1 DEF j
    <3> QED
      BY <3>1, <3>2
  <2>2. /\ 1 \in 1..Len(c) /\ 2 \in 1..Len(c)
        /\ \A i \in 1..Len(r) : i + 2 \in 1..Len(c) /\ c[i + 2] = r[i]
    BY <1>1, <1>2
  <2>3. Range(c) \subseteq {a, b} \cup Range(r)
    BY <1>2, <1>3, <2>1
  <2>4. {a, b} \cup Range(r) \subseteq Range(c)
    BY <1>2, <1>3, <2>2
  <2> QED
    BY <2>3, <2>4
<1> QED
  BY <1>1, <1>2, <1>4, <1>5 DEF r, c

\* The other threads are not disturbed by check_solidity setting flags.
LEMMA ThreadsUndisturbed ==
    ASSUME TypeOK, ThreadInv, CacheInv, UNCHANGED <<stored, cache, pc, tx>>,
           solid \subseteq solid'
    PROVE  ThreadInv' /\ CacheInv'
<1>1. ThreadInv'
  BY DEF ThreadInv, ApproveeSolid
<1>2. CacheInv'
  BY DEF CacheInv, cache
<1> QED
  BY <1>1, <1>2

\* A check that is over leaves nothing behind.
LEMMA CheckIsOver ==
    ASSUME GiveUp
    PROVE  /\ WalkInv'
           /\ stack' \in Seq(Hash) /\ analyzed' \subseteq Hash /\ found' = {}
           /\ good' \in BOOLEAN /\ budget' \in Nat /\ missing' \in Tx \cup {NoTx}
<1>1. WalkInv'
  BY DEF GiveUp, WalkInv
<1>2. stack' \in Seq(Hash)
  BY DEF GiveUp
<1> QED
  BY <1>1, <1>2 DEF GiveUp

LEMMA BeginCheckStep ==
    ASSUME SolidifierInv, NEW m \in Milestones, BeginCheck(m)
    PROVE  SolidifierInv'
<1> USE DEF SolidifierInv, SolidifierSafety, BeginCheck, database, cache, requester, propagate
<1>1. m \in Hash /\ Cardinality(EntryPoints) \in Nat
  BY FS_CardinalityType DEF Hash
<1>2. stack' \in Seq(Hash) /\ budget' \in Nat
  BY <1>1
<1>3. TypeOK'
  BY <1>2 DEF TypeOK, Hash
<1>4. SolidIsComplete' /\ TipsAreSorted'
  BY DEF SolidIsComplete, TipsAreSorted
<1>5. ThreadInv' /\ CacheInv'
  BY ThreadsUndisturbed
<1>6. WalkInv'
  BY DEF WalkInv
<1> QED
  BY <1>3, <1>4, <1>5, <1>6

LEMMA VisitStep ==
    ASSUME SolidifierInv, Visit
    PROVE  SolidifierInv'
<1> USE DEF SolidifierInv, SolidifierSafety, Visit, database, cache, requester, propagate
<1>1. SolidIsComplete' /\ TipsAreSorted' /\ ThreadInv' /\ CacheInv'
  BY ThreadsUndisturbed DEF SolidIsComplete, TipsAreSorted
<1> DEFINE h == Head(stack)
<1>2. stack \in Seq(Hash) /\ stack # <<>>
  BY DEF TypeOK
<1>3. h \in Hash /\ Tail(stack) \in Seq(Hash) /\ Range(stack) \subseteq {h} \cup Range(Tail(stack))
  <2>1. h \in Hash
    BY <1>2
  <2> QED
    BY <1>2, <2>1, StackSets
<1>4. h \notin analyzed => h \in Tx
  BY <1>3 DEF WalkInv, Hash
<1> HIDE DEF h
<1>5. ASSUME h \in Tx
      PROVE  /\ <<Trunk[h], Branch[h]>> \o Tail(stack) \in Seq(Hash)
             /\ Range(<<Trunk[h], Branch[h]>> \o Tail(stack))
                  = {Trunk[h], Branch[h]} \cup Range(Tail(stack))
  <2>1. Trunk[h] \in Hash /\ Branch[h] \in Hash
    BY <1>5
  <2> QED
    BY <1>2, <2>1, StackSets
<1>6. CASE h \in analyzed /\ stack' = Tail(stack)
           /\ UNCHANGED <<cpc, analyzed, found, good, budget, missing, faults>>
  <2>1. TypeOK'
    BY <1>3, <1>6 DEF TypeOK
  <2>2. WalkInv'
    BY <1>3, <1>6 DEF WalkInv
  <2> QED
    BY <1>1, <2>1, <2>2
<1>7. CASE GiveUp
  BY <1>1, <1>7, CheckIsOver DEF TypeOK
<1>8. CASE /\ h \notin analyzed /\ budget # 0 /\ budget' = budget - 1
           /\ analyzed' = analyzed \cup {h}
           /\ h \in stored \ solid
           /\ found' = found \cup {h} /\ stack' = <<Trunk[h], Branch[h]>> \o Tail(stack)
           /\ UNCHANGED <<cpc, good, missing>>
  <2>1. TypeOK'
    <3>1. stack' \in Seq(Hash) /\ budget' \in Nat
      BY <1>4, <1>5, <1>8 DEF TypeOK
    <3> QED
      BY <1>3, <1>8, <3>1 DEF TypeOK
  <2>2. Range(stack') = {Trunk[h], Branch[h]} \cup Range(Tail(stack))
    BY <1>4, <1>5, <1>8
  <2>3. WalkInv'
    <3>1. solid' = solid /\ cpc = "walk"
      OBVIOUS
    <3> HIDE DEF Visit
    <3>2. ASSUME good, NEW t \in found
          PROVE  {Trunk[t], Branch[t]} \subseteq Range(stack') \cup found' \cup solid \cup EntryPoints
      <4>1. {Trunk[t], Branch[t]} \subseteq Range(stack) \cup found \cup solid \cup EntryPoints
        BY <3>2 DEF WalkInv
      <4>2. Range(stack) \subseteq {h} \cup Range(stack')
        BY <1>3, <2>2
      <4>3. found' = found \cup {h}
        BY <1>8
      <4> QED
        BY <4>1, <4>2, <4>3
    <3>3. {Trunk[h], Branch[h]} \subseteq Range(stack')
      BY <2>2
    <3>4. good' => /\ analyzed' \subseteq found' \cup solid' \cup EntryPoints
                   /\ \A t \in found' : {Trunk[t], Branch[t]}
                        \subseteq Range(stack') \cup found' \cup solid' \cup EntryPoints
      BY <1>8, <3>1, <3>2, <3>3 DEF WalkInv
    <3> QED
      BY <1>8, <3>1, <3>4 DEF WalkInv
  <2> QED
    BY <1>1, <2>1, <2>3
<1>9. CASE /\ h \notin analyzed /\ budget # 0 /\ budget' = budget - 1
           /\ analyzed' = analyzed \cup {h}
           /\ h \notin stored \ solid /\ stack' = Tail(stack) /\ UNCHANGED found
           /\ IF h \notin stored
              THEN good' = FALSE /\ missing' = h /\ cpc' = "request"
              ELSE UNCHANGED <<good, missing, cpc>>
  <2>1. TypeOK'
    <3>1. stack' \in Seq(Hash) /\ budget' \in Nat
      BY <1>3, <1>9 DEF TypeOK
    <3> QED
      BY <1>3, <1>4, <1>9, <3>1 DEF TypeOK
  <2>2. WalkInv'
    BY <1>3, <1>4, <1>9 DEF WalkInv
  <2> QED
    BY <1>1, <2>1, <2>2
<1> QED
  BY <1>6, <1>7, <1>8, <1>9 DEF h

LEMMA RequestExistsStep ==
    ASSUME SolidifierInv, RequestExists
    PROVE  SolidifierInv'
<1> USE DEF SolidifierInv, SolidifierSafety, RequestExists, database, cache, requester, propagate
<1>1. SolidIsComplete' /\ TipsAreSorted' /\ ThreadInv' /\ CacheInv'
  BY ThreadsUndisturbed DEF SolidIsComplete, TipsAreSorted
<1>2. CASE GiveUp
  BY <1>1, <1>2, CheckIsOver DEF TypeOK
<1>3. CASE UNCHANGED <<stack, analyzed, found, good, budget, faults>>
           /\ IF missing \in stored
              THEN missing' = NoTx /\ cpc' = "walk"
              ELSE cpc' = "enqueue" /\ UNCHANGED missing
  BY <1>1, <1>3 DEF TypeOK, WalkInv
<1> QED
  BY <1>2, <1>3

LEMMA EnqueueStep ==
    ASSUME SolidifierInv, Enqueue
    PROVE  SolidifierInv'
<1> USE DEF SolidifierInv, SolidifierSafety, Enqueue, database, cache, requester, propagate
<1>1. SolidIsComplete' /\ TipsAreSorted' /\ ThreadInv' /\ CacheInv'
  BY ThreadsUndisturbed DEF SolidIsComplete, TipsAreSorted
<1>2. hashes' \in Seq(Tx)
  BY FifoAddIsBounded DEF TypeOK, WalkInv
<1>3. TypeOK'
  BY <1>2 DEF TypeOK
<1>4. WalkInv'
  BY DEF WalkInv
<1> QED
  BY <1>1, <1>3, <1>4

LEMMA EndCheckStep ==
    ASSUME SolidifierInv, EndCheck
    PROVE  SolidifierInv'
<1> USE DEF SolidifierInv, SolidifierSafety, EndCheck, database, cache, requester, propagate
<1>1. Range(stack) = {}
  <2>1. stack \in Seq(Hash) /\ Len(stack) = 0
    BY DEF TypeOK
  <2> QED
    BY <2>1, EmptyHasNone
<1>2. solid \subseteq solid' /\ (solid' = solid \/ (good /\ solid' = solid \cup found))
  OBVIOUS
<1>3. SolidIsComplete'
  BY <1>1, <1>2 DEF SolidIsComplete, WalkInv
<1>4. TipsAreSorted' /\ ThreadInv' /\ CacheInv'
  BY <1>2, ThreadsUndisturbed DEF TipsAreSorted
<1>5. TypeOK' /\ WalkInv'
  <2>1. CASE good
    BY <2>1, <1>2 DEF TypeOK, WalkInv
  <2>2. CASE ~good
    BY <2>2, CheckIsOver DEF TypeOK
  <2> QED
    BY <2>1, <2>2
<1> QED
  BY <1>3, <1>4, <1>5

LEMMA AppendNewlyStep ==
    ASSUME SolidifierInv, AppendNewly
    PROVE  SolidifierInv'
<1> USE DEF SolidifierInv, SolidifierSafety, AppendNewly, database, cache, requester, propagate
<1>1. SolidIsComplete' /\ TipsAreSorted' /\ ThreadInv' /\ CacheInv'
  BY ThreadsUndisturbed DEF SolidIsComplete, TipsAreSorted
<1>2. TypeOK' /\ WalkInv'
  BY CheckIsOver DEF TypeOK
<1> QED
  BY <1>1, <1>2
-----------------------------------------------------------------------------
LEMMA AskStep ==
    ASSUME SolidifierInv, Ask
    PROVE  SolidifierInv'
<1> USE DEF SolidifierInv, SolidifierSafety, Ask, database, cache
<1>1. SolidIsComplete' /\ TipsAreSorted' /\ ThreadInv' /\ CacheInv'
  BY ThreadsUndisturbed DEF SolidIsComplete, TipsAreSorted
<1>2. Head(hashes) \in Tx /\ hashes' \in Seq(Tx)
  BY RemoveHeadIsTail DEF TypeOK
<1>3. TypeOK'
  BY <1>2 DEF TypeOK, walk, propagate
<1>4. WalkInv'
  BY WalkUndisturbed
<1> QED
  BY <1>1, <1>3, <1>4

LEMMA CrashStep ==
    ASSUME SolidifierInv, Crash
    PROVE  SolidifierInv'
<1> USE DEF SolidifierInv, SolidifierSafety, Crash, database
<1>1. /\ tips' \in Seq(Tx) /\ solidTips' \in Seq(Tx) /\ hashes' \in Seq(Tx)
      /\ Len(tips') = 0 /\ Len(solidTips') = 0
  OBVIOUS
<1>2. Range(tips') = {} /\ Range(solidTips') = {} /\ NoRepetition(tips') /\ NoRepetition(solidTips')
  BY <1>1, EmptyHasNone
<1>3. TypeOK' /\ WalkInv'
  BY <1>1, CheckIsOver DEF TypeOK, Threads
<1>4. SolidIsComplete' /\ TipsAreSorted'
  BY <1>1, <1>2 DEF SolidIsComplete, TipsAreSorted
<1>5. ThreadInv' /\ CacheInv'
  BY <1>2 DEF ThreadInv, CacheInv, Threads, Labels, Entering
<1> QED
  BY <1>3, <1>4, <1>5

LEMMA StutterStep ==
    ASSUME SolidifierInv, UNCHANGED vars
    PROVE  SolidifierInv'
<1> USE DEF SolidifierInv, SolidifierSafety, vars, database, cache, requester, propagate
<1>1. SolidIsComplete' /\ TipsAreSorted' /\ ThreadInv' /\ CacheInv'
  BY ThreadsUndisturbed DEF SolidIsComplete, TipsAreSorted
<1>2. TypeOK'
  BY DEF TypeOK, walk
<1>3. WalkInv'
  BY WalkUndisturbed
<1> QED
  BY <1>1, <1>2, <1>3

\* One storing thread, the propagation thread and check_solidity step by step.
LEMMA StepInv == SolidifierInv /\ [Next]_vars => SolidifierInv'
<1> SUFFICES ASSUME SolidifierInv, [Next]_vars PROVE SolidifierInv'
  OBVIOUS
<1>1. ASSUME NEW w \in Writers, NEW t \in Tx, Receive(w, t) PROVE SolidifierInv'
  BY <1>1, ReceiveStep
<1>2. ASSUME NEW w \in Writers, WriterStep(w) PROVE SolidifierInv'
  BY <1>2, StoreStep, ClearHashesStep, ClearRequestedStep, CountApproversStep, AddTipStep,
     RemoveTipStep, RemoveSolidTipStep DEF WriterStep
<1>3. ASSUME NEW th \in Threads, CheckStep(th) PROVE SolidifierInv'
  BY <1>3, CheckTrunkStep, CheckBranchStep, UpdateSolidityStep, AddNewSolidStep, SetSolidStep,
     AddSolidTipStep DEF CheckStep
<1>4. ASSUME PropagationStep PROVE SolidifierInv'
  BY <1>4, TakeBatchStep, BatchDoneStep, LoadApproversStep, NextApproverStep DEF PropagationStep
<1>5. ASSUME NEW m \in Milestones, BeginCheck(m) PROVE SolidifierInv'
  BY <1>5, BeginCheckStep
<1>6. ASSUME WalkStep PROVE SolidifierInv'
  BY <1>6, VisitStep, RequestExistsStep, EnqueueStep, EndCheckStep, AppendNewlyStep DEF WalkStep
<1> QED
  BY <1>1, <1>2, <1>3, <1>4, <1>5, <1>6, AskStep, CrashStep, StutterStep DEF Next

(***************************************************************************)
(* Whatever the order in which the storing threads, the propagation thread *)
(* and check_solidity take their steps, and wherever a crash or a storage  *)
(* error stops them, a transaction is flagged solid only with all it       *)
(* approves, and the two lists of the tips cache stay apart, within their  *)
(* size and, for the solid tips, solid (transaction_solidifier.c,          *)
(* tips_cache.c).                                                          *)
(***************************************************************************)
THEOREM SolidifierIsSafe == Spec => []SolidifierSafety
<1>1. SolidifierInv => SolidifierSafety
  BY DEF SolidifierInv
<1> QED
  BY InitInv, StepInv, <1>1, PTL DEF Spec
-----------------------------------------------------------------------------
(* One storing thread, and no storage errors.                              *)

\* The thread has stored its transaction and is on its way to the branch.
Coming == Entering \cup {"trunk", "trunkSolid", "branch"}

(***************************************************************************)
(* A tip with an approver is one the storing thread is about to take out:  *)
(* its transaction approves it, and it has not come to it.  What is to be  *)
(* added has no approver.                                                  *)
(***************************************************************************)
TipInv(w) ==
    /\ faults = 0
    /\ \A t \in Range(tips) : \A a \in ApproversOf(t) :
         /\ tx[w] = a /\ pc[w] \in Coming
         /\ pc[w] \in {"trunkSolid", "branch"} => t # Trunk[a]
    /\ pc[w] = "add" => ApproversOf(tx[w]) = {}

LEMMA NoFault == ASSUME MaxFaults = 0, faults = 0 PROVE ~Fault
BY DEF Fault

\* Steps of the other threads, and those after the tips were taken out.
LEMMA TipUndisturbed ==
    ASSUME NEW w, TipInv(w), UNCHANGED <<stored, faults>>, Range(tips') \subseteq Range(tips),
           \/ pc'[w] = pc[w] /\ tx'[w] = tx[w]
           \/ pc[w] \notin Coming /\ pc'[w] # "add"
    PROVE  TipInv(w)'
BY DEF TipInv, ApproversOf, Coming, Entering

LEMMA TipWriterStep ==
    ASSUME NEW w, Writers = {w}, MaxFaults = 0, SolidifierInv, TipInv(w),
           WriterStep(w) \/ \E t \in Tx : Receive(w, t)
    PROVE  TipInv(w)'
<1> USE DEF database, cache
<1>1. w \in Threads /\ pc \in [Threads -> Labels] /\ tx \in [Threads -> Tx \cup {NoTx}]
  BY DEF SolidifierInv, ThreadInv, Threads
<1>2. tips \in Seq(Tx) /\ NoRepetition(tips) /\ stored \subseteq Tx
  BY DEF SolidifierInv, SolidifierSafety, TypeOK, CacheInv
<1>3. faults = 0 /\ ~Fault
  BY NoFault DEF TipInv
<1>4. ASSUME NEW t \in Tx, Receive(w, t) PROVE TipInv(w)'
  BY <1>1, <1>4, TipUndisturbed DEF Receive, Goto, Coming, Entering
<1>5. CASE Store(w)
  <2>1. CASE Return(w) /\ UNCHANGED <<stored, faults>>
    BY <1>1, <1>5, <2>1, TipUndisturbed DEF Store, Return, Goto, Coming, Entering
  <2>2. CASE tx[w] \notin stored /\ stored' = stored \cup {tx[w]} /\ Goto(w, "clear") /\ UNCHANGED <<tx, faults>>
    <3>1. pc[w] = "store" /\ pc'[w] = "clear" /\ tx'[w] = tx[w] /\ UNCHANGED tips
      BY <1>1, <1>5, <2>2 DEF Store, Goto
    <3>2. \A t \in Range(tips) : ApproversOf(t) = {}
      BY <3>1 DEF TipInv, Coming, Entering
    <3>3. \A t \in Range(tips) : ApproversOf(t)' \subseteq {tx[w]}
      BY <2>2, <3>2 DEF ApproversOf
    <3> QED
      BY <2>2, <3>1, <3>3 DEF TipInv, Coming, Entering
  <2> QED
    BY <1>3, <1>5, <2>1, <2>2 DEF Store, Fail
<1>6. CASE ClearHashes(w) \/ ClearRequested(w) \/ CountApprovers(w)
  <2>1. /\ pc[w] \in {"clear", "cleared", "count"} /\ pc'[w] \in {"cleared", "count", "add", "trunk"}
        /\ tx'[w] = tx[w] /\ UNCHANGED <<stored, tips, faults>>
        /\ pc'[w] = "add" => ApproversOf(tx[w]) = {}
    BY <1>1, <1>3, <1>6 DEF ClearHashes, ClearRequested, CountApprovers, Goto, Fail
  <2> QED
    BY <2>1 DEF TipInv, ApproversOf, Coming, Entering
<1>7. CASE AddTip(w)
  <2>1. /\ pc[w] = "add" /\ pc'[w] = "trunk" /\ tx'[w] = tx[w] /\ UNCHANGED <<stored, faults>>
    BY <1>1, <1>7 DEF AddTip, Goto
  <2>2. tx[w] \in Tx
    BY <1>1, <2>1 DEF SolidifierInv, SolidifierSafety, TypeOK
  <2>3. Range(tips') \subseteq Range(tips) \cup {tx[w]}
    BY <1>2, <1>7, <2>2, FifoAddIsBounded DEF AddTip
  <2>4. ApproversOf(tx[w]) = {}
    BY <2>1 DEF TipInv
  <2> QED
    BY <2>1, <2>3, <2>4 DEF TipInv, ApproversOf, Coming, Entering
<1>8. CASE RemoveTip(w)
  <2>1. CASE pc[w] = "trunk"
    <3>1. Range(tips') = Range(tips) \ {Trunk[tx[w]]}
      BY <1>2, <1>8, <2>1, RemoveIsMinus DEF RemoveTip
    <3>2. pc'[w] = "trunkSolid" /\ tx'[w] = tx[w] /\ UNCHANGED <<stored, faults>>
      BY <1>1, <1>8, <2>1 DEF RemoveTip, Goto
    <3> QED
      BY <2>1, <3>1, <3>2 DEF TipInv, ApproversOf, Coming, Entering
  <2>2. CASE pc[w] = "branch"
    <3>1. Range(tips') = Range(tips) \ {Branch[tx[w]]}
      BY <1>2, <1>8, <2>2, RemoveIsMinus DEF RemoveTip
    <3>2. pc'[w] = "branchSolid" /\ tx'[w] = tx[w] /\ UNCHANGED <<stored, faults>>
      BY <1>1, <1>8, <2>2 DEF RemoveTip, Goto
    <3>3. \A t \in Range(tips') : ApproversOf(t) = {}
      BY <2>2, <3>1 DEF TipInv, ApproversOf
    <3> QED
      BY <3>1, <3>2, <3>3 DEF TipInv, ApproversOf
  <2> QED
    BY <1>8, <2>1, <2>2 DEF RemoveTip
<1>9. CASE RemoveSolidTip(w)
  <2>1. /\ \/ pc[w] = "trunkSolid" /\ pc'[w] = "branch"
           \/ pc[w] = "branchSolid" /\ pc'[w] = "check"
        /\ tx'[w] = tx[w] /\ UNCHANGED <<stored, tips, faults>>
    BY <1>1, <1>9 DEF RemoveSolidTip, Goto
  <2> QED
    BY <2>1 DEF TipInv, ApproversOf, Coming, Entering
<1> QED
  BY <1>4, <1>5, <1>6, <1>7, <1>8, <1>9 DEF WriterStep

LEMMA TipOtherStep ==
    ASSUME NEW w, Writers = {w}, MaxFaults = 0, SolidifierInv, TipInv(w),
           \/ \E th \in Threads : CheckStep(th)
           \/ PropagationStep \/ WalkStep \/ Ask \/ Crash \/ UNCHANGED vars
           \/ \E m \in Milestones : BeginCheck(m)
    PROVE  TipInv(w)'
<1> USE DEF database, cache
<1>1. w \in Threads /\ pc \in [Threads -> Labels] /\ tx \in [Threads -> Tx \cup {NoTx}]
  BY DEF SolidifierInv, ThreadInv, Threads
<1>2. tips \in Seq(Tx) /\ w # Propagation
  BY DEF SolidifierInv, SolidifierSafety, TypeOK
<1>3. faults = 0 /\ ~Fault
  BY NoFault DEF TipInv
<1>4. ASSUME NEW th \in Threads, CheckStep(th) PROVE TipInv(w)'
  <2>1. /\ pc[th] \notin Coming /\ UNCHANGED <<stored, faults>>
        /\ pc'[th] # "add"
        /\ th # w => pc'[w] = pc[w] /\ tx'[w] = tx[w]
    BY <1>1, <1>3, <1>4 DEF CheckStep, CheckTrunk, CheckBranch, UpdateSolidity, AddNewSolid,
       SetSolid, AddSolidTip, Goto, Return, Fail, Coming, Entering
  <2>2. Range(tips') \subseteq Range(tips)
    BY <1>2, <1>4, RemoveIsMinus DEF CheckStep, CheckTrunk, CheckBranch, UpdateSolidity,
       AddNewSolid, SetSolid, AddSolidTip
  <2> QED
    BY <2>1, <2>2, TipUndisturbed
<1>5. ASSUME PropagationStep PROVE TipInv(w)'
  <2>1. pc'[w] = pc[w] /\ tx'[w] = tx[w] /\ UNCHANGED <<stored, faults, tips>>
    BY <1>1, <1>2, <1>3, <1>5 DEF PropagationStep, TakeBatch, BatchDone, LoadApprovers,
       NextApprover, Goto, Fail
  <2> QED
    BY <2>1, TipUndisturbed
<1>6. ASSUME WalkStep \/ Ask \/ UNCHANGED vars \/ \E m \in Milestones : BeginCheck(m)
      PROVE  TipInv(w)'
  <2>1. UNCHANGED <<pc, tx, stored, faults, tips>>
    BY <1>3, <1>6 DEF WalkStep, Visit, RequestExists, Enqueue, EndCheck, AppendNewly, Ask,
       BeginCheck, vars
  <2> QED
    BY <2>1, TipUndisturbed
<1>7. ASSUME Crash PROVE TipInv(w)'
  <2>1. tips' \in Seq(Tx) /\ Len(tips') = 0 /\ pc'[w] = "idle" /\ UNCHANGED faults
    BY <1>1, <1>7 DEF Crash
  <2>2. Range(tips') = {}
    BY <2>1, EmptyHasNone
  <2> QED
    BY <1>3, <2>1, <2>2 DEF TipInv
<1> QED
  BY <1>4, <1>5, <1>6, <1>7

(***************************************************************************)
(* With one storing thread and without storage errors, crashes or not, a   *)
(* transaction in the list of tips has no approver but the one the thread  *)
(* is dealing with (validator.c and api.c call update_status; tips_cache.c *)
(* is what neighbors are sent random tips from).                           *)
(***************************************************************************)
THEOREM TipsStayUnapproved ==
    ASSUME NEW w, Writers = {w}, MaxFaults = 0
    PROVE  Spec => []TipsAreUnapproved
<1>1. Init => TipInv(w)
  <2> SUFFICES ASSUME Init PROVE TipInv(w)
    OBVIOUS
  <2>1. tips \in Seq(Tx) /\ Len(tips) = 0 /\ pc[w] = "idle" /\ faults = 0
    BY DEF Init, Threads
  <2> QED
    BY <2>1, EmptyHasNone DEF TipInv
<1>2. SolidifierInv /\ TipInv(w) /\ [Next]_vars => TipInv(w)'
  BY TipWriterStep, TipOtherStep DEF Next
<1>3. TipInv(w) => TipsAreUnapproved
  BY DEF TipInv, TipsAreUnapproved, Coming, Entering
<1> QED
  BY InitInv, StepInv, <1>1, <1>2, <1>3, PTL DEF Spec
=============================================================================
