---------------------------- MODULE ProofOfWork ----------------------------
(***************************************************************************)
(* The proof of work: do_pow absorbs a transaction into Curl-P and then    *)
(* has several threads search for a nonce.  Each thread works on slices,   *)
(* PtritSize Curl states at once, one bit of two words for each trit.      *)
(*                                                                         *)
(* A state is a function from 0..STATE_LENGTH - 1, as in the code.  A      *)
(* sliced trit is a function from the slices to pairs <<low, high>>; the   *)
(* word operations of the code act on every slice alike.  The build        *)
(* chooses how pairs stand for trits (cvt) and whether a sliced state has  *)
(* room for two copies ("double") or for one and a half ("short").         *)
(***************************************************************************)
EXTENDS Integers, Sequences, TLC

CONSTANTS
    HashLength,  \* HASH_LENGTH_TRIT; the state is three times as long
    Rounds,      \* rounds of the transformation (81), a multiple of 3
    PtritSize,   \* PTRIT_SIZE
    NonceTrits,  \* NONCE_LENGTH
    Cpus,        \* the answers of system_cpu_available
    Targets,     \* the tests: <<"hashcash", mwm>> or <<"hamming", security>>
    Blocks       \* what may precede the last block of a transaction

STATE_LENGTH == 3 * HashLength
Half == (STATE_LENGTH + 1) \div 2
Slices == 0..(PtritSize - 1)
Places == 0..(STATE_LENGTH - 1)
Trit == {-1, 0, 1}

\* 728 = 8 * 91: the unwound loops leave no rest.
ASSUME ProofOfWorkAssumption ==
    /\ HashLength \in Nat /\ STATE_LENGTH % 8 = 1 /\ Rounds % 3 = 0
    /\ PtritSize \in 1..8 /\ NonceTrits \in 1..HashLength
    /\ Cpus \subseteq Nat \ {0}

VARIABLES
    job,      \* the build, the arguments and the position of pd_search_n
    insts,    \* the SearchInstances
    overall   \* overall_status

powVars == <<job, insts, overall>>

\* The function f, in the form of a table.
Table(f) == f @@ <<>>
-----------------------------------------------------------------------------
(* Curl-P, one state at a time.                                            *)

\* CURL_INDEX: 0, 364, 728, 363, 727, ..., 1, 365, 0.
CURL_INDEX(i) == (i * (Half - 1)) % STATE_LENGTH

\* TRUTH_TABLE[a + 4 * b + 5].
TRUTH_TABLE == <<1, 0, -1, 2, 1, -1, 0, 2, -1, 1, 0>>

sbox(s) ==
    Table([i \in Places |-> TRUTH_TABLE[s[CURL_INDEX(i)] + 4 * s[CURL_INDEX(i + 1)] + 6]])

RECURSIVE CurlRounds(_, _)
CurlRounds(s, n) == IF n = 0 THEN s ELSE CurlRounds(sbox(s), n - 1)

transform(s) == CurlRounds(s, Rounds)

curl_init == [i \in Places |-> 0]

\* memcpy of t, a sequence, over the start of a state.
Overwritten(s, t) == Table([i \in Places |-> IF i < Len(t) THEN t[i + 1] ELSE s[i]])

RECURSIVE curl_absorb(_, _)
curl_absorb(s, t) ==
    IF t = <<>> THEN s
    ELSE IF Len(t) <= HashLength THEN transform(Overwritten(s, t))
    ELSE curl_absorb(transform(Overwritten(s, SubSeq(t, 1, HashLength))), SubSeq(t, HashLength + 1, Len(t)))

\* What curl_squeeze gives for a length of one block.
curl_squeeze(s) == [i \in 1..HashLength |-> s[i - 1]]

curl_digest(t) == curl_squeeze(curl_absorb(curl_init, t))
-----------------------------------------------------------------------------
(* Sliced trits.                                                           *)

Xor(x, y) == (x + y) % 2
And(x, y) == x * y
Not(x) == 1 - x
Or(x, y) == Not(And(Not(x), Not(y)))

cvt_te1_to_tep(cvt, t) ==
    IF cvt = "ANDN" THEN CASE t = -1 -> <<1, 0>> [] t = 0 -> <<1, 1>> [] t = 1 -> <<0, 1>>
    ELSE CASE t = -1 -> <<0, 0>> [] t = 0 -> <<0, 1>> [] t = 1 -> <<1, 1>>

cvt_tep_to_te1(cvt, p) ==
    CASE p = cvt_te1_to_tep(cvt, -1) -> -1
      [] p = cvt_te1_to_tep(cvt, 0) -> 0
      [] p = cvt_te1_to_tep(cvt, 1) -> 1
      [] OTHER -> 2

ptrit_fill(cvt, t) == Table([i \in Slices |-> cvt_te1_to_tep(cvt, t)])
ptrit_set(cvt, p, idx, t) == [p EXCEPT ![idx] = cvt_te1_to_tep(cvt, t)]
ptrit_get(cvt, p, idx) == cvt_tep_to_te1(cvt, p[idx])

ptrits_fill(cvt, s) == Table([i \in DOMAIN s |-> ptrit_fill(cvt, s[i])])
ptrits_get_slice(cvt, s, idx) == Table([i \in DOMAIN s |-> ptrit_get(cvt, s[i], idx)])

\* The pair is that of a zero trit: (1,1), or (0,1).
ZeroPair(cvt, p) ==
    IF cvt = "ANDN" THEN And(p[1], p[2]) = 1 ELSE Or(Not(p[2]), p[1]) = 0

\* The first slice of the places that is all zero, or PtritSize.
ptrits_find_zero_slice(cvt, s, places) ==
    LET zero == {i \in Slices : \A j \in places : ZeroPair(cvt, s[j][i])}
    IN  CHOOSE i \in zero \cup {PtritSize} : \A k \in zero : i <= k

RECURSIVE ptrits_sum_slice(_, _, _, _)
ptrits_sum_slice(cvt, s, places, idx) ==
    IF places = {} THEN 0
    ELSE LET j == CHOOSE k \in places : TRUE
         IN  ptrit_get(cvt, s[j], idx) + ptrits_sum_slice(cvt, s, places \ {j}, idx)
-----------------------------------------------------------------------------
(* Curl-P on sliced trits.                                                 *)

pcurl_s2(cvt, a, b) ==
    Table([i \in Slices |->
       LET al == a[i][1]  ah == a[i][2]
           bl == b[i][1]  bh == b[i][2]
           low == IF cvt = "ANDN" THEN Xor(ah, And(Not(bl), al)) ELSE Xor(ah, Or(Not(bl), al))
       IN  <<low, IF cvt = "ANDN" THEN Xor(al, And(bh, low)) ELSE Xor(al, Or(Not(bh), low))>>])

\* The room for two copies: the sbox reads one and writes the other.
pcurl_sbox(cvt, s) ==
    Table([i \in Places |-> pcurl_s2(cvt, s[CURL_INDEX(i)], s[CURL_INDEX(i + 1)])])

RECURSIVE PcurlRounds(_, _, _)
PcurlRounds(cvt, s, n) == IF n = 0 THEN s ELSE PcurlRounds(cvt, pcurl_sbox(cvt, s), n - 1)

\* The room for one and a half: three halves a, b and c at 0, Half, 2 * Half
\* of a memory that is overwritten while it is read.  n times, the cell at
\* out gets the sbox of the cells at p and q, p moves by dp and out by do, and
\* p and q change places.  The last p and q go with the memory.
RECURSIVE Walk(_, _, _, _, _, _, _, _, _)
Walk(cvt, mem, p, dp, q, dq, out, do, n) ==
    IF n = 0 THEN <<mem, p, q>>
    ELSE Walk(cvt, [mem EXCEPT ![out] = pcurl_s2(cvt, mem[p], mem[q])],
              q, dq, p + dp, dp, out + do, do, n - 1)

\* Each sbox goes first into the free half, then over what it has read, and
\* repeats the first cell as the last.  The number of steps of the first walk
\* is odd, so p and q have changed places.
SboxShort(cvt, mem, p, dp, q, dq, out, do, over, dover) ==
    LET first == Walk(cvt, mem, p, dp, q, dq, out, do, 1 + 2 * (STATE_LENGTH \div 4))
        rest == Walk(cvt, first[1], first[2], dq, first[3], dp, over, dover,
                     2 * (STATE_LENGTH \div 4))
    IN  [rest[1] EXCEPT ![over + dover * 2 * (STATE_LENGTH \div 4)] = rest[1][out]]

a0 == 0
b0 == Half
c0 == 2 * Half

pcurl_sbox_0(cvt, m) == SboxShort(cvt, m, b0 + Half - 1, -1, a0 + Half - 1, -1, c0, 1, a0 + Half - 1, -1)
pcurl_sbox_1(cvt, m) == SboxShort(cvt, m, a0, 1, c0 + Half - 1, -1, b0 + Half - 1, -1, c0 + Half - 1, -1)
pcurl_sbox_2(cvt, m) == SboxShort(cvt, m, c0, 1, b0, 1, a0, 1, b0, 1)

RECURSIVE ShortRounds(_, _, _)
ShortRounds(cvt, mem, n) ==
    IF n = 0 THEN mem
    ELSE ShortRounds(cvt, pcurl_sbox_2(cvt, pcurl_sbox_1(cvt, pcurl_sbox_0(cvt, mem))), n - 1)

pcurl_transform(cvt, layout, s) ==
    IF layout = "double" THEN PcurlRounds(cvt, s, Rounds)
    ELSE LET mem == Table([i \in 0..(3 * Half - 1) |->
                 IF i \in Places THEN s[i] ELSE IF i = b0 + Half - 1 THEN s[0] ELSE ptrit_fill(cvt, 0)])
             done == ShortRounds(cvt, mem, Rounds \div 3)
         IN  Table([i \in Places |-> done[i]])
-----------------------------------------------------------------------------
(* Slices that differ, and the increment of all of them.                   *)

trits_inc(t) ==
    LET rest == {j \in DOMAIN t : t[j] # 1}
        k == IF rest = {} THEN Len(t) + 1 ELSE CHOOSE j \in rest : \A i \in rest : j <= i
    IN  Table([j \in DOMAIN t |-> IF j < k THEN -1 ELSE IF j = k THEN t[j] + 1 ELSE t[j]])

RECURSIVE Incremented(_, _)
Incremented(t, n) == IF n = 0 THEN t ELSE Incremented(trits_inc(t), n - 1)

RECURSIVE Log3(_, _, _)
Log3(n, k, g) == IF g < n THEN Log3(n, k + 1, g * 3) ELSE k

ptrit_log3(n) == Log3(n, 0, 1)

\* The slices from begin on hold value, value + 1, ...
ptrit_set_iota(cvt, s, begin, value) ==
    [j \in DOMAIN s |->
       IF j \in begin..(begin + Len(value) - 1)
       THEN [i \in Slices |-> cvt_te1_to_tep(cvt, Incremented(value, i)[j - begin + 1])]
       ELSE s[j]]

\* The increment of the trits from place j to end, and whether it overflows.
\* The carry is looked at in its first byte.
RECURSIVE ptrit_hincr(_, _, _, _)
ptrit_hincr(cvt, s, j, end) ==
    IF j = end THEN <<s, TRUE>>
    ELSE LET low == [i \in Slices |-> Xor(s[j][i][1], s[j][i][2])]
             next == [i \in Slices |-> <<low[i], IF cvt = "ANDN" THEN s[j][i][1] ELSE Not(s[j][i][1])>>]
             carry == [i \in Slices |-> IF cvt = "ANDN" THEN And(Not(s[j][i][1]), low[i])
                                        ELSE And(s[j][i][1], s[j][i][2])]
             moved == [s EXCEPT ![j] = next]
         IN  IF \A i \in Slices : carry[i] = 0 THEN <<moved, FALSE>>
             ELSE ptrit_hincr(cvt, moved, j + 1, end)
-----------------------------------------------------------------------------
(* The tests of a transformed state: a slice, or -1.                       *)

hashcash(cvt, s, mwm) ==
    LET i == ptrits_find_zero_slice(cvt, s, (HashLength - mwm)..(HashLength - 1))
    IN  IF i = PtritSize THEN -1 ELSE i

\* The sums of the thirds are added up; it must be the last one, and only it,
\* that brings them to zero.
HammingSlice(cvt, s, security, i) ==
    LET sum(j) == ptrits_sum_slice(cvt, s, 0..(j * (HashLength \div 3) - 1), i)
    IN  sum(security) = 0 /\ \A j \in 1..(security - 1) : sum(j) # 0

hamming(cvt, s, security) ==
    LET good == {i \in Slices : HammingSlice(cvt, s, security, i)}
    IN  IF good = {} THEN -1 ELSE CHOOSE i \in good : \A k \in good : i <= k

Test(s) ==
    IF job.target[1] = "hashcash" THEN hashcash(job.cvt, s, job.target[2])
    ELSE hamming(job.cvt, s, job.target[2])
-----------------------------------------------------------------------------
(* The caller: do_pow and pd_search_n.                                     *)

NonceBegin == HashLength - NonceTrits
NonceEnd == HashLength
FixedTrits(n) == IF ptrit_log3(PtritSize * n) < NonceTrits THEN ptrit_log3(PtritSize * n) ELSE NonceTrits

\* A thread's instance: the given state, all -1 past the fixed trits, and
\* the next PtritSize values in these.
init_inst(cvt, ctx, n, k) ==
    LET fixed == FixedTrits(n)
        cleared == [i \in Places |-> IF i \in (NonceBegin + fixed)..(NonceEnd - 1) THEN -1 ELSE ctx[i]]
        value == Incremented([j \in 1..fixed |-> -1], (k - 1) * PtritSize)
    IN  [pc |-> "idle", result |-> -1, begin |-> NonceBegin + fixed,
         state |-> ptrit_set_iota(cvt, ptrits_fill(cvt, cleared), NonceBegin, value)]

PowInit ==
    /\ \E cvt \in {"ANDN", "ORN"}, layout \in {"double", "short"}, target \in Targets,
          first \in Blocks, last \in Blocks, n \in Cpus :
          LET ctx == Overwritten(curl_absorb(curl_init, first), last)
          IN  /\ job = [cvt |-> cvt, layout |-> layout, target |-> target, first |-> first,
                        n |-> n, given |-> ctx, ctx |-> ctx, status |-> "ERROR",
                        at |-> "start", i |-> 1]
              /\ insts = [k \in 1..n |-> init_inst(cvt, ctx, n, k)]
    /\ overall = "RUNNING"

\* pt_start: a thread may not come up.
StartThread ==
    /\ job.at = "start"
    /\ \E pc \in {"status", "none"} : insts' = [insts EXCEPT ![job.i].pc = pc]
    /\ job' = IF job.i = job.n THEN [job EXCEPT !.at = "join"] ELSE [job EXCEPT !.i = @ + 1]
    /\ UNCHANGED overall

\* No lock or no memory: nothing is searched.
SearchFails ==
    /\ job.at = "start" /\ job.i = 1
    /\ job' = [job EXCEPT !.at = "failed"]
    /\ UNCHANGED <<insts, overall>>

\* The threads are joined from the last to the first, and the first slice
\* that was found is copied into the state.
JoinThread ==
    LET inst == insts[job.i]
        takes == inst.pc = "done" /\ job.status = "ERROR" /\ inst.result >= 0
        slice == ptrits_get_slice(job.cvt, inst.state, inst.result)
    IN  /\ job.at = "join" /\ inst.pc \in {"none", "done"}
        /\ job' = [job EXCEPT
              !.status = IF takes THEN "SUCCESS" ELSE @,
              !.ctx = IF takes THEN [j \in Places |-> IF j \in NonceBegin..(NonceEnd - 1) THEN slice[j] ELSE @[j]] ELSE @,
              !.at = IF job.i = 1 THEN "end" ELSE @,
              !.i = IF job.i = 1 THEN @ ELSE @ - 1]
        /\ UNCHANGED <<insts, overall>>
-----------------------------------------------------------------------------
(* A thread: run_search_thread.                                            *)

ReadStatus(k) ==
    /\ insts[k].pc = "status"
    /\ insts' = [insts EXCEPT ![k].pc = IF overall = "RUNNING" THEN "search" ELSE "done"]
    /\ UNCHANGED <<job, overall>>

\* A faulty variant of Search: the range moves on before the test is looked at.
SearchOn(k) ==
    LET inst == insts[k]
        result == Test(pcurl_transform(job.cvt, job.layout, inst.state))
        moved == ptrit_hincr(job.cvt, inst.state, inst.begin, NonceEnd)
    IN  /\ inst.pc = "search"
        /\ insts' = [insts EXCEPT ![k] =
              [inst EXCEPT !.result = result, !.state = moved[1],
                           !.pc = IF result >= 0 THEN "finish" ELSE IF moved[2] THEN "done" ELSE "status"]]
        /\ UNCHANGED <<job, overall>>

Search(k) ==
    LET inst == insts[k]
        result == Test(pcurl_transform(job.cvt, job.layout, inst.state))
        moved == ptrit_hincr(job.cvt, inst.state, inst.begin, NonceEnd)
    IN  /\ inst.pc = "search"
        /\ insts' = [insts EXCEPT ![k] =
              IF result >= 0 THEN [inst EXCEPT !.result = result, !.pc = "finish"]
              ELSE [inst EXCEPT !.result = result, !.state = moved[1],
                                !.pc = IF moved[2] THEN "done" ELSE "status"]]
        /\ UNCHANGED <<job, overall>>

FinishSearch(k) ==
    /\ insts[k].pc = "finish"
    /\ overall' = "FINISHED"
    /\ insts' = [insts EXCEPT ![k].pc = "done"]
    /\ UNCHANGED job

SearchThread(k) == ReadStatus(k) \/ Search(k) \/ FinishSearch(k)

PowNext ==
    \/ StartThread \/ SearchFails \/ JoinThread
    \/ \E k \in DOMAIN insts : SearchThread(k)
-----------------------------------------------------------------------------
(* Properties.                                                             *)

RECURSIVE Total(_)
Total(t) == IF t = <<>> THEN 0 ELSE Head(t) + Total(Tail(t))

\* What the two tests ask of the hash of a transaction.
Meets(digest, target) ==
    IF target[1] = "hashcash" THEN \A i \in (HashLength - target[2] + 1)..HashLength : digest[i] = 0
    ELSE LET sum(j) == Total(SubSeq(digest, 1, j * (HashLength \div 3)))
         IN  sum(target[2]) = 0 /\ \A j \in 1..(target[2] - 1) : sum(j) # 0

\* The transaction whose last block is in the state s, hashed the plain way.
DigestOf(s) == curl_digest(job.first \o [i \in 1..HashLength |-> s[i - 1]])

\* The states that the threads together should go through.
Candidates ==
    {[i \in Places |-> IF i \in NonceBegin..(NonceEnd - 1) THEN v[i] ELSE job.given[i]] :
       v \in {w \in [NonceBegin..(NonceEnd - 1) -> Trit] :
                Total([j \in 1..FixedTrits(job.n) |-> (w[NonceBegin + j - 1] + 1) * 3^(j - 1)]) < PtritSize * job.n}}

\* A nonce that the search reports makes the digest of the transaction pass
\* the test, whichever thread and slice it comes from, while others search
\* on; and the search gives up only when no nonce in the range of the threads
\* that ran does (pd_search_n, run_search_thread, and pcurl_transform against
\* the plain transform of curl_p.c).
NonceIsRight ==
    job.at = "end" =>
       IF job.status = "SUCCESS"
       THEN /\ Meets(DigestOf(job.ctx), job.target)
            /\ \A i \in Places \ (NonceBegin..(NonceEnd - 1)) : job.ctx[i] = job.given[i]
       ELSE (\A k \in DOMAIN insts : insts[k].pc # "none") =>
               \A s \in Candidates : ~Meets(DigestOf(s), job.target)
=============================================================================
