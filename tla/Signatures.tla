----------------------------- MODULE Signatures -----------------------------
(***************************************************************************)
(* One-time signatures: those of addresses and of the coordinator (iss,    *)
(* over a normalised hash), those of MAM (wots, over a hash and its        *)
(* checksum), and the Merkle tree that binds the coordinator's addresses   *)
(* to one root.                                                            *)
(*                                                                         *)
(* Hashing is free of collisions: a key part that was hashed n times is    *)
(* [part, times |-> n], the hash of several things is their tuple.  A hash *)
(* to be signed is the sequence of the values of its trytes, -13..13.      *)
(***************************************************************************)
EXTENDS Trinary

CONSTANTS
    TryteValues,       \* the values that the trytes of a hash take
    FRAGMENT_LENGTH,   \* trytes of a fragment (27)
    SECURITY_LEVEL,    \* fragments of a key (1..3)
    HASH_TRYTES,       \* trytes of a hash signed by wots (78)
    BaseSizes          \* leaves of a tree

ASSUME SignaturesAssumption ==
    /\ TryteValues \subseteq -13..13
    /\ {FRAGMENT_LENGTH, SECURITY_LEVEL, HASH_TRYTES} \subseteq Nat \ {0}
    /\ BaseSizes \subseteq Nat

VARIABLES
    hash,      \* the hash that was signed, or <<>>
    leaves     \* the size of the base of the tree

TRYTE_VALUE_MAX == 13
TRYTE_VALUE_MIN == -13
-----------------------------------------------------------------------------
(* Normalisation: every fragment is brought to the sum zero.               *)

RECURSIVE SumOf(_)
SumOf(t) == IF t = <<>> THEN 0 ELSE Head(t) + SumOf(Tail(t))

\* The first tryte that is not at the limit yet.
FirstMovable(fragment, limit) ==
    CHOOSE j \in DOMAIN fragment :
        fragment[j] # limit /\ \A i \in 1..(j - 1) : fragment[i] = limit

RECURSIVE Settle(_, _)
Settle(fragment, sum) ==
    IF sum = 0 THEN fragment
    ELSE IF sum > 0
         THEN Settle([fragment EXCEPT ![FirstMovable(fragment, TRYTE_VALUE_MIN)] = @ - 1], sum - 1)
         ELSE Settle([fragment EXCEPT ![FirstMovable(fragment, TRYTE_VALUE_MAX)] = @ + 1], sum + 1)

normalize_hash(h) ==
    LET fragments == Pieces(h, FRAGMENT_LENGTH)
    IN  Joined([i \in DOMAIN fragments |-> Settle(fragments[i], SumOf(fragments[i]))])

normalized_hash_is_secure(normalized_hash, length) ==
    \A i \in 1..length : normalized_hash[i] # TRYTE_VALUE_MAX

normalize_hash_to_trits(h) ==
    LET normalized == normalize_hash(h)
    IN  Joined([i \in DOMAIN normalized |-> long_to_trits(normalized[i], Zeros(3))])
-----------------------------------------------------------------------------
(* iss: the signature of a normalised hash, one key part for each tryte.   *)

Hashed(part, n) == [part EXCEPT !.times = @ + n]

iss_subseed(seed, index) == seed + index

iss_key(subseed, fragments) ==
    [i \in 1..(fragments * FRAGMENT_LENGTH) |-> [part |-> <<subseed, i>>, times |-> 0]]

\* The digest of every fragment of the key.
iss_key_digest(key) == Pieces([i \in DOMAIN key |-> Hashed(key[i], 26)], FRAGMENT_LENGTH)

iss_address(digest) == <<digest>>

\* The tryte that the code reads back from the trits of the hash.
HASH_TRYTE_VAL(trits, i) == trits_get3(SubSeq(trits, 3 * i - 2, 3 * i))

iss_signature(trits, key) ==
    [i \in DOMAIN key |-> Hashed(key[i], TRYTE_VALUE_MAX - HASH_TRYTE_VAL(trits, i))]

iss_sig_digest(trits, sig) ==
    [i \in DOMAIN sig |-> Hashed(sig[i], HASH_TRYTE_VAL(trits, i) - TRYTE_VALUE_MIN)]

\* The digests of all fragments, each from its own fragment of the hash.
FragmentDigests(trits, sig) ==
    LET t == Pieces(trits, 3 * FRAGMENT_LENGTH)
        s == Pieces(sig, FRAGMENT_LENGTH)
    IN  [i \in DOMAIN s |-> iss_sig_digest(t[i], s[i])]
-----------------------------------------------------------------------------
(* wots: the hash, then three trytes of its negated sum.                   *)

wots_private_key == [i \in 1..(HASH_TRYTES + 3) |-> [part |-> <<0, i>>, times |-> 0]]

\* A faulty variant of Checksum: the sum is not negated.
ChecksumPlain(h) ==
    LET t == SumOf(h)
        u == DIVS(t, 19683, 27)
    IN  <<MODS(t, 19683, 27), MODS(u, 19683, 27), MODS(DIVS(u, 19683, 27), 19683, 27)>>

Checksum(h) ==
    LET t == -SumOf(h)
        u == DIVS(t, 19683, 27)
    IN  <<MODS(t, 19683, 27), MODS(u, 19683, 27), MODS(DIVS(u, 19683, 27), 19683, 27)>>

wots_hash_sign_or_recover(h, signature, operation) ==
    LET all == h \o Checksum(h)
    IN  [i \in DOMAIN signature |->
            Hashed(signature[i], (IF operation = "sign" THEN all[i] ELSE -all[i]) + 13)]

mam_wots_gen_pk == [i \in DOMAIN wots_private_key |-> Hashed(wots_private_key[i], 26)]
mam_wots_sign(h) == wots_hash_sign_or_recover(h, wots_private_key, "sign")
mam_wots_recover(h, signature) == wots_hash_sign_or_recover(h, signature, "recover")
-----------------------------------------------------------------------------
(* The Merkle tree, stored depth first.  Its leaf at width w is the        *)
(* address with index base_size - w - 1.                                   *)

merkle_null_hash == <<>>

RECURSIVE MerkleSize(_, _)
MerkleSize(count, acc) == IF count >= 2 THEN MerkleSize((count + 1) \div 2, acc + count) ELSE acc

merkle_size(leaf_count) == IF leaf_count = 0 THEN 0 ELSE MerkleSize(leaf_count, 1)

binary_tree_size(acc, depth) == 2^(depth + 1) - 1 + acc

merkle_depth(node_count) ==
    1 + CHOOSE d \in 0..node_count :
          /\ binary_tree_size(0, d) >= node_count
          /\ \A c \in 0..(d - 1) : binary_tree_size(0, c) < node_count

SubtreeSize(tree_depth, depth_cursor) == 2^(tree_depth - depth_cursor + 1) - 1

merkle_node_index(depth, width, tree_depth) ==
    LET RECURSIVE Descend(_, _, _)
        Descend(cursor, w, index) ==
          IF cursor > depth THEN index
          ELSE IF w >= 2^(depth - cursor)
               THEN Descend(cursor + 1, w - 2^(depth - cursor), index + SubtreeSize(tree_depth, cursor))
               ELSE Descend(cursor + 1, w, index)
    IN  IF tree_depth = 0 THEN 0 ELSE Descend(1, width, depth)

merkle_leaf_index(leaf_index, leaf_count) == leaf_count - leaf_index - 1

\* Whether merkle_create takes the size: a power of two, or zero.
TakesBase(base_size) == base_size = 0 \/ \E k \in 0..base_size : base_size = 2^k

\* One level of the tree above the nodes at the given depth; the right one
\* is absorbed first, a single one is followed by the null hash.
RECURSIVE HashTree(_, _, _, _)
HashTree(tree, cur_size, depth, td) ==
    IF depth = 0 THEN tree
    ELSE LET Node(w) == tree[merkle_node_index(depth, w, td)]
             Parent(w) == IF 2 * w < cur_size - 1 THEN <<Node(2 * w + 1), Node(2 * w)>>
                          ELSE <<Node(2 * w), merkle_null_hash>>
             above == {w \in 0..(cur_size - 1) : 2 * w < cur_size}
             site == [w \in above |-> merkle_node_index(depth - 1, w, td)]
         IN  HashTree([n \in DOMAIN tree |->
                          IF \E w \in above : site[w] = n
                          THEN Parent(CHOOSE w \in above : site[w] = n) ELSE tree[n]],
                      (cur_size + 1) \div 2, depth - 1, td)

merkle_create(base_size) ==
    LET td == merkle_depth(merkle_size(base_size)) - 1
        site == [l \in 0..(base_size - 1) |-> merkle_node_index(td, l, td)]
        base == [n \in 0..(merkle_size(base_size) - 1) |->
                    IF \E l \in DOMAIN site : site[l] = n
                    THEN <<merkle_leaf_index(CHOOSE l \in DOMAIN site : site[l] = n, base_size)>>
                    ELSE <<>>]
    IN  HashTree(base, base_size, td, td)

\* The siblings on the way from the leaf with this address index to the root.
merkle_branch(tree, tree_depth, leaf_index, leaf_count) ==
    LET RECURSIVE Climb(_, _)
        Climb(index, depth) ==
          IF depth = 0 THEN <<>>
          ELSE LET sibling == IF index % 2 = 1 THEN index - 1 ELSE index + 1
                   site == merkle_node_index(depth, sibling, tree_depth - 1)
               IN  <<IF site \in DOMAIN tree THEN tree[site] ELSE merkle_null_hash>>
                   \o Climb(sibling \div 2, depth - 1)
    IN  Climb(merkle_leaf_index(leaf_index, leaf_count), tree_depth - 1)

\* The root that a leaf and its siblings lead to (merkle_root, iss_merkle_root).
merkle_root(leaf, siblings, leaf_index) ==
    LET RECURSIVE Absorb(_, _)
        Absorb(node, i) ==
          IF i > Len(siblings) THEN node
          ELSE IF (leaf_index \div 2^(i - 1)) % 2 = 1 THEN Absorb(<<siblings[i], node>>, i + 1)
               ELSE Absorb(<<node, siblings[i]>>, i + 1)
    IN  Absorb(leaf, 1)
-----------------------------------------------------------------------------
(* Properties: every hash of the given tryte values, every tree.           *)

Hashes(n) == [1..n -> TryteValues]

\* A hash to sign, or a tree to build.
SignaturesInit ==
    \/ hash \in Hashes(SECURITY_LEVEL * FRAGMENT_LENGTH) /\ leaves = 0
    \/ hash = <<>> /\ leaves \in {n \in BaseSizes : TakesBase(n)}

\* Whoever verifies a signature computes the public key it was made with, and
\* never from the signature of one hash that of another: some part of the
\* other one was hashed fewer times, which the normalisation of iss and the
\* checksum of wots are for.
SignaturesAreOfOneHash ==
    LET key == iss_key(iss_subseed(7, 1), SECURITY_LEVEL)
        trits == normalize_hash_to_trits(hash)
        short == SubSeq(hash, 1, HASH_TRYTES)
        Ahead(a, b) == a # b /\ \A i \in DOMAIN a : a[i].times <= b[i].times
        First(h) == iss_signature(normalize_hash_to_trits(h), SubSeq(key, 1, FRAGMENT_LENGTH))
        Single == Hashes(FRAGMENT_LENGTH)
    IN  hash # <<>> =>
        /\ FragmentDigests(trits, iss_signature(trits, key)) = iss_key_digest(key)
        /\ \A h \in Single : ~Ahead(First(SubSeq(hash, 1, FRAGMENT_LENGTH)), First(h))
        /\ mam_wots_recover(short, mam_wots_sign(short)) = mam_wots_gen_pk
        /\ \A h \in Hashes(HASH_TRYTES) : ~Ahead(mam_wots_sign(short), mam_wots_sign(h))

\* Every address of a tree and its branch lead to the root of the tree, so a
\* milestone signed with any of the coordinator's keys is accepted.
BranchesLeadToTheRoot ==
    LET tree == merkle_create(leaves)
        depth == merkle_depth(merkle_size(leaves))
    IN  \A i \in 0..(leaves - 1) :
           merkle_root(<<i>>, merkle_branch(tree, depth, i, leaves), i) = tree[0]
=============================================================================
