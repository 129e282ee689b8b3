-------------------------------- MODULE Mss --------------------------------
(* The Merkle signature scheme of MAM.  A key pair is a binary tree of       *)
(* one-time (WOTS) keys; the public key is the root.  Signature number skn   *)
(* uses leaf skn and carries the authentication path of that leaf.           *)
(*                                                                           *)
(* Two builds exist: the classic one keeps the whole tree, the traversal one *)
(* keeps the current path and one stack of nodes per level, refreshed after  *)
(* every signature.  Hashes are symbolic: a leaf is <<key, i, 0>>, an inner  *)
(* node the pair of its children, and an uninitialised cell <<>>.            *)
EXTENDS Integers, Sequences, SequencesExt

(* F of v, with v computed once. *)
With(v, F(_)) == F(v)

Leaf(key, i) == <<key, i, 0>>
Hash2(l, r) == <<l, r>>
NoHash == <<>>
MaxSkn(h) == 2^h - 1
MtNodes(d) == (d * (d + 1)) \div 2
Levels(m) == [i \in 1..m.height |-> i - 1]

(* mam_mss_create and mam_mss_init: the memory of a tree of height h. *)
MssCreate(key, h) ==
  [key |-> key, height |-> h, skn |-> 0, root |-> NoHash,
   auth |-> [d \in 0..h - 1 |-> NoHash],
   hashes |-> [i \in 0..MtNodes(h) |-> NoHash],
   nodes |-> [i \in 0..MtNodes(h) |-> [height |-> 0, idx |-> 0]],
   stacks |-> [d \in 0..h - 1 |-> [height |-> d, idx |-> 0, size |-> 0]]]

(* Where stack d stands: finished, about to merge its top two, or to grow. *)
StackBase(d) == MtNodes(d)
StackTop(m, d) == StackBase(d) + m.stacks[d].size - 1
Finished(m, d) ==
  m.stacks[d].size # 0 /\ m.nodes[StackTop(m, d)].height >= m.stacks[d].height
CanMerge(m, d) ==
  m.stacks[d].size > 1
  /\ m.nodes[StackTop(m, d) - 1].height = m.nodes[StackTop(m, d)].height
CanGrow(m, d) == m.stacks[d].idx <= MaxSkn(m.height)

(* One step of stack d, without the hashes: mss_mt_load_update. *)
MtLoadUpdate(m, d) ==
  LET top == StackTop(m, d) IN
  IF Finished(m, d) THEN m
  ELSE IF CanMerge(m, d)
    THEN [m EXCEPT !.nodes[top - 1] = [height |-> @.height + 1, idx |-> @.idx \div 2],
                   !.stacks[d].size = @ - 1]
  ELSE IF CanGrow(m, d)
    THEN [m EXCEPT !.nodes[top + 1] = [height |-> 0, idx |-> m.stacks[d].idx],
                   !.stacks[d].size = @ + 1, !.stacks[d].idx = @ + 1]
  ELSE m

(* One step of stack d: mss_mt_update.  A merge that yields the root is       *)
(* written over the right child, because the left one is still needed.        *)
MtUpdate(m, d) ==
  LET top == StackTop(m, d)
      n == MtLoadUpdate(m, d)
      into == IF m.nodes[top - 1].height + 1 # m.height THEN top - 1 ELSE top
  IN IF Finished(m, d) THEN m
     ELSE IF CanMerge(m, d)
       THEN [n EXCEPT !.hashes[into] = Hash2(m.hashes[top - 1], m.hashes[top])]
     ELSE IF CanGrow(m, d)
       THEN [n EXCEPT !.hashes[top + 1] = Leaf(m.key, m.stacks[d].idx)]
     ELSE m

MtBuildStacks(m) == FoldLeft(LAMBDA s, d : MtUpdate(MtUpdate(s, d), d), m, Levels(m))
MtLoadBuildStacks(m) ==
  FoldLeft(LAMBDA s, d : MtLoadUpdate(MtLoadUpdate(s, d), d), m, Levels(m))

(* The levels whose path node changes after the current signature. *)
Turning(m) == {d \in 0..m.height - 1 : (m.skn + 1) % 2^d = 0}
Flip(n, bit) == IF (n \div bit) % 2 = 1 THEN n - bit ELSE n + bit

(* mss_mt_load_refresh: the stacks of those levels start on their next node. *)
MtLoadRefresh(m) ==
  [m EXCEPT !.stacks = [d \in DOMAIN @ |->
     IF d \in Turning(m)
       THEN [height |-> d, idx |-> Flip(m.skn + 1 + 2^d, 2^d), size |-> 0]
       ELSE @[d]]]

(* mss_mt_refresh: their finished nodes become the path. *)
MtRefresh(m) ==
  [MtLoadRefresh(m) EXCEPT !.auth = [d \in DOMAIN @ |->
     IF d \in Turning(m) THEN m.hashes[StackTop(m, d)] ELSE @[d]]]

(* mss_mt_rewind: the stacks as they were after skn signatures. *)
RECURSIVE RewindTo(_, _)
RewindTo(m, skn) ==
  IF m.skn = skn THEN m
  ELSE RewindTo([MtLoadBuildStacks(MtLoadRefresh(m)) EXCEPT !.skn = @ + 1], skn)
MtRewind(m, skn) ==
  LET fresh(d) == [height |-> IF d = m.height - 1 THEN d + 1 ELSE d, idx |-> 0] IN
  RewindTo([m EXCEPT
    !.skn = 0,
    !.stacks = [d \in DOMAIN @ |-> [height |-> d, idx |-> 0, size |-> 1]],
    !.nodes = [i \in DOMAIN @ |->
       IF \E d \in 0..m.height - 1 : i = StackBase(d)
         THEN fresh(CHOOSE d \in 0..m.height - 1 : i = StackBase(d)) ELSE @[i]]], skn)

(* mam_mss_gen: the top stack, with one cell more, computes the root; the    *)
(* nodes of index 1 make the first path, those of index 0 the first stacks.  *)
RECURSIVE GenLoop(_)
GenLoop(m) ==
  LET d == m.height - 1 IN
  With(MtUpdate(m, d), LAMBDA n :
     LET top == StackTop(n, d)
         node == n.nodes[top]
     IN IF node.height = m.height
       THEN [n EXCEPT !.root = n.hashes[top + 1],
                      !.stacks[d] = [height |-> d, idx |-> 0, size |-> 1]]
     ELSE IF node.idx = 1
       THEN GenLoop([n EXCEPT !.auth[node.height] = n.hashes[top]])
     ELSE IF node.idx = 0 /\ node.height + 1 # m.height
       THEN GenLoop([n EXCEPT !.hashes[StackBase(node.height)] = n.hashes[top],
                              !.nodes[StackBase(node.height)] = node,
                              !.stacks[node.height].size = @ + 1])
     ELSE GenLoop(n))
MssGen(m) ==
  IF m.height = 0 THEN [m EXCEPT !.root = Leaf(m.key, 0)]
  ELSE GenLoop([m EXCEPT !.stacks[m.height - 1] =
                  [height |-> m.height, idx |-> 0, size |-> 0]])

MssRemainingSks(m) == IF m.skn > MaxSkn(m.height) THEN 0 ELSE MaxSkn(m.height) - m.skn + 1

(* A faulty variant of mam_mss_next: the key that was used stays the next one. *)
MssNextKept(m) == m

(* mam_mss_next.  The last key has no successor to prepare. *)
MssNext(m) ==
  IF MssRemainingSks(m) = 0 THEN m
  ELSE IF MssRemainingSks(m) # 1
    THEN [MtBuildStacks(MtRefresh(m)) EXCEPT !.skn = @ + 1]
  ELSE [m EXCEPT !.skn = @ + 1]

MssAuthPath(m) == [i \in 1..m.height |-> m.auth[i - 1]]

(* A signature is the key number, the one-time signature (symbolic: the leaf *)
(* and the hash it signs) and the path.                                      *)
MssSign(m, hash) ==
  [height |-> m.height, skn |-> m.skn, leaf |-> Leaf(m.key, m.skn), hash |-> hash,
   path |-> MssAuthPath(m)]

(* mam_wots_recover yields the leaf only for the hash that was signed. *)
WotsRecover(sig, hash) == IF sig.hash = hash THEN sig.leaf ELSE NoHash

(* mss_fold_auth_path: from the recovered leaf to a root. *)
FoldAuthPath(skn, path, pk) ==
  FoldLeft(LAMBDA acc, node :
             [skn |-> acc.skn \div 2,
              pk |-> IF acc.skn % 2 = 0 THEN Hash2(acc.pk, node) ELSE Hash2(node, acc.pk)],
           [skn |-> skn, pk |-> pk], path).pk

MssParseSkn(height, skn) == skn <= MaxSkn(height)

MssVerify(sig, hash, pk) ==
  /\ MssParseSkn(sig.height, sig.skn)
  /\ Len(sig.path) = sig.height
  /\ FoldAuthPath(sig.skn, sig.path, WotsRecover(sig, hash)) = pk

(* mam_mss_serialize writes the key number, the path, the cells in use and   *)
(* the root; the shape of the stacks is recomputed when it is read back.     *)
StackCells(m, d) == [i \in 1..m.stacks[d].size |-> m.hashes[StackBase(d) + i - 1]]
MssSerialize(m) ==
  [key |-> m.key, height |-> m.height, skn |-> m.skn, path |-> MssAuthPath(m),
   cells |-> FlattenSeq([i \in 1..m.height |-> StackCells(m, i - 1)]), root |-> m.root]

MtSerializedCells(m) == FoldLeft(LAMBDA n, d : n + m.stacks[d].size, 0, Levels(m))

(* mss_mt_deserialize: the cells go back to the rewound stacks in order. *)
MtDeserialize(m, s) ==
  [FoldLeft(LAMBDA acc, d :
     [at |-> acc.at + m.stacks[d].size,
      m |-> [acc.m EXCEPT !.hashes = [i \in DOMAIN @ |->
               IF i \in StackBase(d)..StackTop(m, d)
                 THEN s.cells[acc.at + i - StackBase(d) + 1] ELSE @[i]]]],
     [at |-> 0, m |-> m], Levels(m)).m
   EXCEPT !.auth = [d \in DOMAIN @ |-> s.path[d + 1]], !.root = s.root]

(* mam_mss_deserialize.  A key number past the last one is refused, so an     *)
(* exhausted tree can be written and not read back.                           *)
MssReadable(s) == MssParseSkn(s.height, s.skn)
MssDeserialize(s) == MtDeserialize(MtRewind(MssCreate(s.key, s.height), s.skn), s)

(* What of a tree's memory later steps can see. *)
MssLive(m) ==
  [height |-> m.height, skn |-> m.skn, root |-> m.root, auth |-> m.auth, stacks |-> m.stacks,
   cells |-> [d \in DOMAIN m.stacks |-> StackCells(m, d)],
   nodes |-> [d \in DOMAIN m.stacks |->
               [i \in 1..m.stacks[d].size |-> m.nodes[StackBase(d) + i - 1]]]]

(* The classic build: mam_mss_gen computes every node, mam_mss_auth_path      *)
(* reads the sibling on every level; level 0 is the root there.               *)
ClassicNode(key, h) ==
  LET node[d \in 0..h, i \in 0..2^h - 1] ==
        IF d = h THEN Leaf(key, i)
        ELSE IF i < 2^d THEN Hash2(node[d + 1, 2 * i], node[d + 1, 2 * i + 1])
        ELSE NoHash
  IN node
ClassicAuthPath(key, h, skn) ==
  LET at(i) == skn \div 2^(i - 1) IN
  [i \in 1..h |-> ClassicNode(key, h)[h - i + 1, IF at(i) % 2 = 0 THEN at(i) + 1 ELSE at(i) - 1]]

(* Property.                                                                  *)

\* A tree that computes its path step by step, with a stack per level, has at
\* every key the path that the tree with all its nodes in memory reads, and
\* signs with it so that the signature verifies.  A tree written to memory and
\* read back sees what it saw before.
TraversalIsExact(m) ==
  MssRemainingSks(m) > 0 =>
    /\ m.root = ClassicNode(m.key, m.height)[0, 0]
    /\ MssAuthPath(m) = ClassicAuthPath(m.key, m.height, m.skn)
    /\ MssVerify(MssSign(m, <<"x">>), <<"x">>, m.root)
    /\ MssLive(MssDeserialize(MssSerialize(m))) = MssLive(m)
=============================================================================
