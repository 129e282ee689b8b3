------------------------------- MODULE Miner -------------------------------
(***************************************************************************)
(* bundle_miner: several threads try tags for a bundle, each its own range *)
(* of them, and the one with the least probability of losing is returned.  *)
(* bundle_miner_get_progress_ratio may be asked in every state.            *)
(*                                                                         *)
(* The hash of a bundle is an unknown function of its tag.  score gives    *)
(* each tag its probability of losing: Worst stands for 1.0 and for a hash *)
(* that is not secure, a score up to Threshold reaches mining_threshold.   *)
(***************************************************************************)
EXTENDS Trinary

CONSTANTS
    NumCtxs,       \* threads
    Counts,        \* numbers of tags asked for
    StartIndices,  \* the numbers in the tag of the given essence
    Worst,         \* scores are 0..Worst
    TagTrits       \* trits of a tag (81)

ASSUME MinerAssumption ==
    /\ NumCtxs \in Nat \ {0}
    /\ Counts \subseteq Nat \ {0} /\ StartIndices \subseteq Nat
    /\ Worst \in Nat \ {0} /\ TagTrits \in Nat

VARIABLES
    mining,      \* the arguments and the caller's position
    ctxs,      \* the contexts of the threads
    found,     \* *optimal_index_found
    result,    \* index, its probability, and the return code
    score      \* probability of losing for each tag

minerVars == <<mining, ctxs, found, result, score>>

Threads == 1..NumCtxs

rounded_count(count) == count + (NumCtxs - (count % NumCtxs))

Share(count) == rounded_count(count) \div NumCtxs

\* The tags that the threads try.
Tags(start, count) == start..(start + rounded_count(count) - 1)

NewCtx == [created |-> FALSE, running |-> FALSE, essence |-> Zeros(TagTrits), index |-> 0,
           start_index |-> 0, count |-> 0, left |-> 0, optimal_index |-> 0,
           probability |-> Worst, tried |-> {}]

\* bundle_miner_allocate_ctxs, and the call of bundle_miner_mine.
MinerInit ==
    /\ \E count \in Counts, start \in StartIndices, shared \in BOOLEAN, limit \in {-1, 0} :
          /\ mining = [count |-> count, start |-> start, shared |-> shared, limit |-> limit,
                     at |-> "create", i |-> 1]
          /\ score \in [Tags(start, count) -> 0..Worst]
    /\ ctxs = [t \in Threads |-> NewCtx]
    /\ found = FALSE
    /\ result = [index |-> 0, probability |-> Worst, ret |-> "none"]
-----------------------------------------------------------------------------
(* The caller.                                                             *)

Created(t) ==
    LET start == mining.start + ((t - 1) * Share(mining.count))
    IN  [created |-> TRUE, running |-> TRUE, essence |-> long_to_trits(mining.start, Zeros(TagTrits)),
         index |-> start, start_index |-> start, count |-> Share(mining.count),
         left |-> Share(mining.count), optimal_index |-> 0, probability |-> Worst, tried |-> {}]

Create ==
    /\ mining.at = "create"
    /\ ctxs' = [ctxs EXCEPT ![mining.i] = Created(mining.i)]
    /\ mining' = IF mining.i = NumCtxs THEN [mining EXCEPT !.at = "join", !.i = 1]
               ELSE [mining EXCEPT !.i = @ + 1]
    /\ UNCHANGED <<found, result, score>>

\* There is no memory for an essence: the call ends, the threads go on.
OutOfMemory ==
    /\ mining.at = "create"
    /\ mining' = [mining EXCEPT !.at = "end"]
    /\ result' = [result EXCEPT !.ret = "RC_OOM"]
    /\ UNCHANGED <<ctxs, found, score>>

Better(t) == ctxs[t].probability < result.probability

Join ==
    /\ mining.at = "join"
    /\ ~ctxs[mining.i].running
    /\ LET t == mining.i
           best == IF Better(t)
                   THEN [index |-> ctxs[t].optimal_index, probability |-> ctxs[t].probability, ret |-> "none"]
                   ELSE result
       IN  IF t = NumCtxs
           THEN mining' = [mining EXCEPT !.at = "end"] /\ result' = [best EXCEPT !.ret = "RC_OK"]
           ELSE mining' = [mining EXCEPT !.i = @ + 1] /\ result' = best
    /\ UNCHANGED <<ctxs, found, score>>
-----------------------------------------------------------------------------
(* A thread: bundle_miner_mine_routine.                                    *)

\* The probability of losing of the bundle that is in the essence.
ScoreOf(essence) == score[trits_to_long(essence)]

Stops(t) == ctxs[t].left = 0 \/ (mining.shared /\ found)

Stop(t) ==
    /\ ctxs[t].running
    /\ Stops(t)
    /\ ctxs' = [ctxs EXCEPT ![t].running = FALSE]
    /\ UNCHANGED <<mining, found, result, score>>

Try(t) ==
    LET c == ctxs[t]
        essence == long_to_trits(c.index, c.essence)
        probability == ScoreOf(essence)
        better == probability < c.probability
        reached == better /\ probability <= mining.limit
    IN  /\ c.running
        /\ ~Stops(t)
        /\ ctxs' = [ctxs EXCEPT ![t] =
              [c EXCEPT !.essence = essence,
                        !.tried = @ \cup {c.index},
                        !.probability = IF better THEN probability ELSE @,
                        !.optimal_index = IF better THEN c.index ELSE @,
                        !.index = IF reached THEN @ ELSE @ + 1,
                        !.left = @ - 1,
                        !.running = ~reached]]
        /\ found' = (found \/ (reached /\ mining.shared))
        /\ UNCHANGED <<mining, result, score>>
Caller == Create \/ OutOfMemory \/ Join
Thread(t) == Stop(t) \/ Try(t)
MinerNext == Caller \/ (\E t \in Threads : Thread(t))
-----------------------------------------------------------------------------
(* Properties.                                                             *)

\* What is returned is the best of all tags that any thread has tried, and
\* its probability is that of the bundle with this number in its tag; without
\* a threshold every one of the tags that were asked for has been tried.
MinedIsBest ==
    result.ret = "RC_OK" =>
       LET tried == UNION {ctxs[t].tried : t \in Threads}
       IN  /\ \A n \in tried : result.probability <= score[n]
           /\ result.probability < Worst => result.index \in tried /\ score[result.index] = result.probability
           /\ mining.start..(mining.start + mining.count - 1) \subseteq tried
              \/ \E n \in tried : score[n] <= mining.limit
=============================================================================
