------------------------------- MODULE Sponge -------------------------------
(***************************************************************************)
(* The two sponges of MAM: mam_sponge, whose blocks are framed by control  *)
(* trits, and mam_spongos, which keeps a position in its outer part.  The  *)
(* machine is a writer and a reader of one message: the writer absorbs,    *)
(* encrypts and squeezes, the reader follows with the opposite operation.  *)
(*                                                                         *)
(* A sponge is its sequence of trits: Rate outer ones, six control ones    *)
(* and the inner rest.  A spongos is [s, pos].                             *)
(***************************************************************************)
EXTENDS Trinary

CONSTANTS
    Rate, SpongeCapacity,    \* trits of the outer and of the inner part
    Texts,             \* what is absorbed, encrypted or squeezed (by its length)
    MaxSpongeCalls           \* calls in a behaviour

ASSUME SpongeAssumption == Rate \in Nat \ {0} /\ SpongeCapacity \in Nat /\ MaxSpongeCalls \in Nat

VARIABLES
    writer, reader,    \* two sponges, or two spongos
    agreed,            \* the reader has found what the writer wrote
    spongeCalls              \* the number of calls so far
-----------------------------------------------------------------------------
MAM_TRIT_NORM(t) == CASE t = 2 -> -1 [] t = -2 -> 1 [] OTHER -> t

trit_add(x, s) == MAM_TRIT_NORM(x + s)
trit_sub(y, s) == MAM_TRIT_NORM(y - s)

\* The trits t, which end the array, padded with c0 and zeros.
trits_padc(c0, t) == IF t = <<>> THEN <<>> ELSE <<c0>> \o Zeros(Len(t) - 1)

\* The permutation is some function of the whole state: this one mixes every
\* trit with its neighbours and with a running sum.
mam_sponge_transform(s) ==
    LET n == Len(s)
        RECURSIVE Sum(_)
        Sum(i) == IF i = 0 THEN 1 ELSE 2 * Sum(i - 1) + i * s[i]
        at == [i \in 1..n |-> Sum(i) + Sum(n) * i + s[(i % n) + 1] * s[i]]
    IN  [i \in 1..n |-> (at[i] % 3) - 1]

mam_sponge_init == Zeros(Rate + 6 + SpongeCapacity)
mam_sponge_outer_trits(s) == SubSeq(s, 1, Rate)
-----------------------------------------------------------------------------
(* Adding the outer part to a text, and taking it out again.  Each returns *)
(* the other text and leaves the plain one in the sponge.  The in-place    *)
(* and the copying forms are one loop each in the code.                    *)

trits_copy_add(x, s) == [text |-> [i \in DOMAIN x |-> trit_add(x[i], s[i])], kept |-> x]

\* A faulty variant of trits_copy_sub: the sponge keeps the text it was given.
trits_copy_sub_given(y, s) == [text |-> [i \in DOMAIN y |-> trit_sub(y[i], s[i])], kept |-> y]

trits_copy_sub(y, s) ==
    LET x == [i \in DOMAIN y |-> trit_sub(y[i], s[i])]
    IN  [text |-> x, kept |-> x]

trit_swap_add(x, s) == <<MAM_TRIT_NORM(x + s), x>>
trit_swap_sub(y, s) == LET x == MAM_TRIT_NORM(y - s) IN <<x, x>>

trits_swap_add(x, s) ==
    [text |-> [i \in DOMAIN x |-> trit_swap_add(x[i], s[i])[1]],
     kept |-> [i \in DOMAIN x |-> trit_swap_add(x[i], s[i])[2]]]

trits_swap_sub(y, s) ==
    [text |-> [i \in DOMAIN y |-> trit_swap_sub(y[i], s[i])[1]],
     kept |-> [i \in DOMAIN y |-> trit_swap_sub(y[i], s[i])[2]]]
-----------------------------------------------------------------------------
(* mam_sponge.  trits_drop returns its result and the callers below drop   *)
(* it, so the three trits all go to the first place and the last one stays.*)

sponge_set_control012(s, c0, c1, c2) == [s EXCEPT ![Rate + 1] = c2]
sponge_set_control345(s, c3, c4, c5) == [s EXCEPT ![Rate + 4] = c5]
sponge_get_control1(s) == s[Rate + 2]

\* The outer part takes a block and its padding.
SetBlock(s, block) == Over(s, block \o trits_padc(1, Zeros(Rate - Len(block))))

RECURSIVE mam_sponge_absorb(_, _, _)
mam_sponge_absorb(s, c2, data) ==
    LET ni == Least(Len(data), Rate)
        c0 == IF ni < Rate THEN 0 ELSE 1
        c1 == IF ni = Len(data) THEN -1 ELSE 1
        framed == IF sponge_get_control1(s) # 0
                  THEN mam_sponge_transform(sponge_set_control345(s, c0, c1, c2)) ELSE s
        taken == sponge_set_control012(SetBlock(framed, SubSeq(data, 1, ni)), c0, c1, c2)
    IN  IF ni = Len(data) THEN taken ELSE mam_sponge_absorb(taken, c2, Drop(data, ni))

\* The next n trits of several buffers, and what is left of the buffers.
RECURSIVE buffers_copy_to(_, _)
buffers_copy_to(buffers, n) ==
    IF n = 0 \/ buffers = <<>> THEN [trits |-> <<>>, left |-> buffers]
    ELSE LET k == Least(n, Len(Head(buffers)))
             rest == IF k = Len(Head(buffers)) THEN Tail(buffers)
                     ELSE <<Drop(Head(buffers), k)>> \o Tail(buffers)
             more == buffers_copy_to(rest, n - k)
         IN  [trits |-> SubSeq(Head(buffers), 1, k) \o more.trits, left |-> more.left]

RECURSIVE buffers_size(_)
buffers_size(buffers) == IF buffers = <<>> THEN 0 ELSE Len(Head(buffers)) + buffers_size(Tail(buffers))

RECURSIVE mam_sponge_absorbn(_, _, _)
mam_sponge_absorbn(s, c2, buffers) ==
    LET m == buffers_size(buffers)
        ni == IF m < Rate THEN m ELSE Rate
        c0 == IF ni < Rate THEN 0 ELSE 1
        c1 == IF ni = m THEN -1 ELSE 1
        framed == IF sponge_get_control1(s) # 0
                  THEN mam_sponge_transform(sponge_set_control345(s, c0, c1, c2)) ELSE s
        copy == buffers_copy_to(buffers, ni)
        taken == sponge_set_control012(SetBlock(framed, copy.trits), c0, c1, c2)
    IN  IF ni = m THEN taken ELSE mam_sponge_absorbn(taken, c2, copy.left)

RECURSIVE mam_sponge_squeeze(_, _, _)
mam_sponge_squeeze(s, c2, n) ==
    LET ni == Least(n, Rate)
        c1 == IF ni = n THEN -1 ELSE 1
        moved == mam_sponge_transform(sponge_set_control345(s, -1, c1, c2))
        taken == sponge_set_control012(SetBlock(moved, Zeros(ni)), -1, c1, c2)
        more == IF ni = n THEN [s |-> taken, text |-> <<>>]
                ELSE mam_sponge_squeeze(taken, c2, n - ni)
    IN  [s |-> more.s, text |-> SubSeq(moved, 1, ni) \o more.text]

\* What a block becomes: in place when the two buffers are the same.
Combine(op, x, s) ==
    CASE op = "encr" -> trits_copy_add(x, s)
      [] op = "encr_same" -> trits_swap_add(x, s)
      [] op = "decr" -> trits_copy_sub(x, s)
      [] op = "decr_same" -> trits_swap_sub(x, s)

\* The loop of mam_sponge_encr and mam_sponge_decr.
RECURSIVE SpongeCrypt(_, _, _)
SpongeCrypt(s, text, op) ==
    LET ni == Least(Len(text), Rate)
        c0 == IF ni < Rate THEN 0 ELSE 1
        c1 == IF ni = Len(text) THEN -1 ELSE 1
        moved == mam_sponge_transform(sponge_set_control345(s, c0, c1, -1))
        block == Combine(op, SubSeq(text, 1, ni), SubSeq(moved, 1, ni))
        taken == sponge_set_control012(SetBlock(moved, block.kept), c0, c1, -1)
        more == IF ni = Len(text) THEN [s |-> taken, text |-> <<>>]
                ELSE SpongeCrypt(taken, Drop(text, ni), op)
    IN  [s |-> more.s, text |-> block.text \o more.text]

mam_sponge_encr(s, text, same) == SpongeCrypt(s, text, IF same THEN "encr_same" ELSE "encr")
mam_sponge_decr(s, text, same) == SpongeCrypt(s, text, IF same THEN "decr_same" ELSE "decr")

mam_sponge_hash(text, n) == mam_sponge_squeeze(mam_sponge_absorb(mam_sponge_init, 0, text), 0, n).text
mam_sponge_hashn(blocks, n) == mam_sponge_squeeze(mam_sponge_absorbn(mam_sponge_init, 0, blocks), 0, n).text
-----------------------------------------------------------------------------
(* mam_spongos.                                                            *)

mam_spongos_init == [s |-> mam_sponge_init, pos |-> 0]

mam_spongos_commit(g) ==
    IF g.pos = 0 THEN g ELSE [s |-> mam_sponge_transform(g.s), pos |-> 0]

spongos_update(g, n) ==
    LET moved == [g EXCEPT !.pos = @ + n]
    IN  IF moved.pos = Rate THEN mam_spongos_commit(moved) ELSE moved

\* The outer part from the position on takes new.
SetOuter(g, new) == [g EXCEPT !.s = SubSeq(@, 1, g.pos) \o new \o Drop(@, g.pos + Len(new))]

\* What every call copies at once.
Chunk(g, n) == Least(n, Rate - g.pos)

RECURSIVE mam_spongos_absorb(_, _)
mam_spongos_absorb(g, input) ==
    IF input = <<>> THEN g
    ELSE LET n == Chunk(g, Len(input))
         IN  mam_spongos_absorb(spongos_update(SetOuter(g, SubSeq(input, 1, n)), n), Drop(input, n))

RECURSIVE mam_spongos_absorbn(_, _)
mam_spongos_absorbn(g, inputs) ==
    IF inputs = <<>> THEN g
    ELSE mam_spongos_absorbn(mam_spongos_absorb(g, Head(inputs)), Tail(inputs))

RECURSIVE mam_spongos_squeeze(_, _)
mam_spongos_squeeze(g, size) ==
    IF size = 0 THEN [g |-> g, text |-> <<>>]
    ELSE LET n == Chunk(g, size)
             more == mam_spongos_squeeze(spongos_update(SetOuter(g, Zeros(n)), n), size - n)
         IN  [g |-> more.g, text |-> SubSeq(g.s, g.pos + 1, g.pos + n) \o more.text]

RECURSIVE mam_spongos_squeeze_eq(_, _)
mam_spongos_squeeze_eq(g, expected) ==
    IF expected = <<>> THEN [g |-> g, equal |-> TRUE]
    ELSE LET n == Chunk(g, Len(expected))
             more == mam_spongos_squeeze_eq(spongos_update(SetOuter(g, Zeros(n)), n), Drop(expected, n))
         IN  [g |-> more.g,
              equal |-> more.equal /\ SubSeq(g.s, g.pos + 1, g.pos + n) = SubSeq(expected, 1, n)]

\* The loop of mam_spongos_encr and mam_spongos_decr.
RECURSIVE SpongosCrypt(_, _, _)
SpongosCrypt(g, text, op) ==
    IF text = <<>> THEN [g |-> g, text |-> <<>>]
    ELSE LET n == Chunk(g, Len(text))
             block == Combine(op, SubSeq(text, 1, n), SubSeq(g.s, g.pos + 1, g.pos + n))
             more == SpongosCrypt(spongos_update(SetOuter(g, block.kept), n), Drop(text, n), op)
         IN  [g |-> more.g, text |-> block.text \o more.text]

mam_spongos_encr(g, text, same) == SpongosCrypt(g, text, IF same THEN "encr_same" ELSE "encr")
mam_spongos_decr(g, text, same) == SpongosCrypt(g, text, IF same THEN "decr_same" ELSE "decr")

mam_spongos_hash(input, n) ==
    mam_spongos_squeeze(mam_spongos_commit(mam_spongos_absorb(mam_spongos_init, input)), n).text

mam_spongos_hashn(inputs, n) ==
    mam_spongos_squeeze(mam_spongos_commit(mam_spongos_absorbn(mam_spongos_init, inputs)), n).text

\* The saved form of a spongos, and the spongos read back from it.
mam_spongos_serialize(g) == trits_encode_size_t(g.pos) \o g.s

mam_spongos_deserialize(t) ==
    LET n == trits_decode_size_t(t) IN [s |-> Drop(t, n.size), pos |-> n.value]
-----------------------------------------------------------------------------
(* The machine.  A writer that is handed its text in two pieces, or in     *)
(* place, does what one does that is handed it whole, or copied.           *)

Text(n) == [i \in 1..n |-> ((i * (i + n)) % 3) - 1]
Halves(t) == <<SubSeq(t, 1, Len(t) \div 2), Drop(t, Len(t) \div 2)>>

SpongeInit ==
    /\ agreed = TRUE
    /\ spongeCalls = 0
    /\ reader = writer

StartSponge == writer = mam_sponge_absorb(mam_sponge_init, 1, Text(Rate)) /\ SpongeInit
StartSpongos == writer = mam_spongos_init /\ SpongeInit

Called == spongeCalls < MaxSpongeCalls /\ spongeCalls' = spongeCalls + 1

SpongeAbsorb(n) ==
    /\ writer' = mam_sponge_absorbn(writer, 0, Halves(Text(n)))
    /\ reader' = mam_sponge_absorb(reader, 0, Text(n))
    /\ agreed' = (mam_sponge_hash(Text(n), Rate) = mam_sponge_hashn(Halves(Text(n)), Rate))

SpongeEncrypt(n, same) ==
    LET cipher == mam_sponge_encr(writer, Text(n), same)
        plain == mam_sponge_decr(reader, cipher.text, ~same)
    IN  /\ writer' = cipher.s
        /\ reader' = plain.s
        /\ agreed' = (plain.text = Text(n))

SpongeSqueeze(n) ==
    LET w == mam_sponge_squeeze(writer, 0, n)
        r == mam_sponge_squeeze(reader, 0, n)
    IN  writer' = w.s /\ reader' = r.s /\ agreed' = (w.text = r.text)

SpongeNext ==
    /\ Called
    /\ \E n \in Texts : \/ SpongeAbsorb(n)
                        \/ \E same \in BOOLEAN : SpongeEncrypt(n, same)
                        \/ SpongeSqueeze(n)

SpongosAbsorb(n) ==
    /\ writer' = mam_spongos_absorbn(writer, Halves(Text(n)))
    /\ reader' = mam_spongos_absorb(reader, Text(n))
    /\ agreed' = (mam_spongos_hash(Text(n), Rate) = mam_spongos_hashn(Halves(Text(n)), Rate))

SpongosCommit ==
    /\ writer' = mam_spongos_commit(writer)
    /\ reader' = mam_spongos_commit(reader)
    /\ UNCHANGED agreed

SpongosEncrypt(n, same) ==
    LET cipher == mam_spongos_encr(writer, Text(n), same)
        plain == mam_spongos_decr(reader, cipher.text, ~same)
    IN  /\ writer' = cipher.g
        /\ reader' = plain.g
        /\ agreed' = (plain.text = Text(n))

\* The writer appends a checksum, the reader compares it.
SpongosChecksum(n) ==
    LET mac == mam_spongos_squeeze(writer, n)
        same == mam_spongos_squeeze_eq(reader, mac.text)
    IN  writer' = mac.g /\ reader' = same.g /\ agreed' = same.equal

\* The writer is saved and loaded, as between the packets of a message.
SpongosReload ==
    /\ writer' = mam_spongos_deserialize(mam_spongos_serialize(writer))
    /\ UNCHANGED <<reader, agreed>>

SpongosNext ==
    /\ Called
    /\ \/ \E n \in Texts : \/ SpongosAbsorb(n)
                           \/ \E same \in BOOLEAN : SpongosEncrypt(n, same)
                           \/ SpongosChecksum(n)
       \/ SpongosCommit
       \/ SpongosReload
-----------------------------------------------------------------------------
(* Properties.                                                             *)

\* After any calls, of any lengths, in place or not, the reader's sponge is
\* the writer's, each text came back, and each checksum was found equal:
\* mam_sponge_decr and mam_spongos_decr leave the plain text in the sponge,
\* and cutting a text differently changes nothing.
ReaderFollowsWriter == reader = writer /\ agreed
=============================================================================
