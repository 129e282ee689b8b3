-------------------------- MODULE MCLocalSnapshots --------------------------
EXTENDS LocalSnapshots, Sequences

CONSTANTS m1, m2, m3, m4, m5, m6, m7, a, u

(***************************************************************************)
(* A chain of milestones; the second confirms a, which spends, and is not  *)
(* approved by the third.  u, newer than all milestones, approves a: a is  *)
(* an entry point of the snapshots taken until the fifth confirms u.       *)
(***************************************************************************)
ChainCoo == SubSeq(<<m1, m2, m3, m4, m5, m6, m7>>, 1, N)

ChainTx  == {ChainCoo[i] : i \in 1 .. N} \cup {a, u}

ChainParents ==
    [t \in ChainTx |-> CASE t = a  -> {m1}
                         [] t = u  -> {a}
                         [] t = m1 -> {}
                         [] t = m2 -> {m1, a}
                         [] t = m3 -> {a}
                         [] t = m5 -> {m4, u}
                         [] OTHER  -> {ChainCoo[i - 1] : i \in {j \in 2 .. N : ChainCoo[j] = t}}]

ChainTime ==
    [t \in ChainTx |-> CASE t = a  -> 1
                         [] t = u  -> 9
                         [] OTHER  -> CHOOSE i \in 1 .. N : ChainCoo[i] = t]
=============================================================================
