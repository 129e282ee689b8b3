----------------------------- MODULE FlexTrits -----------------------------
(***************************************************************************)
(* Arrays of packed trits.  The build chooses how many trits a byte of a   *)
(* flex_trit array holds, 1, 3, 4 or 5, and with it the code of every      *)
(* operation.  Hashes and transactions are kept, compared (with memcmp)    *)
(* and stored in this form.                                                *)
(*                                                                         *)
(* The machine is one array that the operations change, beside the plain   *)
(* sequence of trits it stands for.                                        *)
(***************************************************************************)
EXTENDS Trinary

CONSTANTS
    Encodings,   \* of 1, 3, 4, 5
    Lengths,     \* the numbers of trits an array may have
    MaxChanges

ASSUME FlexTritsAssumption == Encodings \subseteq {1, 3, 4, 5} /\ MaxChanges \in Nat

VARIABLES
    e,         \* trits per byte: NUM_TRITS_PER_FLEX_TRIT
    cells,     \* the array ...
    trits,     \* ... and what it stands for
    changes
-----------------------------------------------------------------------------
(* One cell: a trit, a tryte, four pairs of bits or a byte.                *)

Code(trit) == IF trit = -1 THEN 3 ELSE trit
Decode(code) == IF code = 3 THEN -1 ELSE code

RECURSIVE PairsOf(_)
PairsOf(t) == IF t = <<>> THEN 0 ELSE Code(Head(t)) + 4 * PairsOf(Tail(t))

Pack(t) ==
    CASE e = 1 -> t[1]
      [] e = 3 -> TryteOf(trits_to_long(t))
      [] e = 4 -> PairsOf(t)
      [] e = 5 -> trits_to_byte(t)

Unpack(cell) ==
    CASE e = 1 -> <<cell>>
      [] e = 3 -> TRYTES_TRITS_LUT[cell]
      [] e = 4 -> [i \in 1..4 |-> Decode((cell \div 4^(i - 1)) % 4)]
      [] e = 5 -> BYTES_TRITS_LUT[cell]

NUM_FLEX_TRITS_FOR_TRITS(num_trits) == (num_trits + e - 1) \div e

Null(num_trits) == Zeros(NUM_FLEX_TRITS_FOR_TRITS(num_trits))

\* index counts from 0.
flex_trits_at(f, index) == Unpack(f[(index \div e) + 1])[(index % e) + 1]

flex_trits_set_at(f, index, trit) ==
    [f EXCEPT ![(index \div e) + 1] = Pack([Unpack(@) EXCEPT ![(index % e) + 1] = trit])]
-----------------------------------------------------------------------------
(* Slices and insertions.  The guards are those of the code.               *)

\* A faulty variant of flex_trits_slice: leaves the noise after the last trit.
flex_trits_slice_noisy(f, to_len, len, start, num_trits) ==
    LET num_bytes == NUM_FLEX_TRITS_FOR_TRITS(num_trits)
        trit(k) == IF k < len THEN flex_trits_at(f, k) ELSE 0
        Cell(j) == Pack([k \in 1..e |-> trit(start + (j - 1) * e + k - 1)])
    IN  Over(Null(to_len), [j \in 1..num_bytes |-> Cell(j)])

\* A cell at a multiple of e is copied, with the last cell cut; elsewhere
\* a cell is made of two.  The buffer for two cells is not cleared between
\* two rounds, so past the end of the array it still holds the cell before.
flex_trits_slice(f, to_len, len, start, num_trits) ==
    LET index == (start \div e) + 1
        offset == start % e
        num_bytes == NUM_FLEX_TRITS_FOR_TRITS(num_trits)
        end_index == NUM_FLEX_TRITS_FOR_TRITS(len)
        Second(i) == CASE i < end_index -> Unpack(f[i + 1])
                       [] i = end_index /\ i > index /\ e # 4 -> Unpack(f[i])
                       [] OTHER -> Zeros(e)
        Cut(j) == IF j = num_bytes /\ num_trits % e # 0 THEN num_trits % e ELSE e
        Cell(j) == LET i == index + j - 1
                       buffer == IF offset = 0 THEN Unpack(f[i]) ELSE Unpack(f[i]) \o Second(i)
                   IN  Pack(SubSeq(buffer, offset + 1, offset + Cut(j)))
    IN  Over(Null(to_len), [j \in 1..num_bytes |-> Cell(j)])

\* The trits from..to - 1 of a copy, one at a time.
RECURSIVE CopyTrits(_, _, _, _, _, _)
CopyTrits(dst, dst_start, src, src_start, from, to) ==
    IF from >= to THEN dst
    ELSE CopyTrits(flex_trits_set_at(dst, dst_start + from, flex_trits_at(src, src_start + from)),
                   dst_start, src, src_start, from + 1, to)

\* memcpy of n cells; the positions are in cells and count from 0.
CopyCells(dst, to, src, from, n) ==
    [i \in DOMAIN dst |-> IF i \in to + 1..to + n THEN src[i - to + from] ELSE dst[i]]

flex_trits_insert(dst, src, start, num_trits) ==
    IF start % e = 0
    THEN LET whole == num_trits \div e
         IN  CopyTrits(CopyCells(dst, start \div e, src, 0, whole), start, src, 0,
                       whole * e, num_trits)
    ELSE CopyTrits(dst, start, src, 0, 0, num_trits)

flex_trits_insert_from_pos(dst, src, src_start, dst_start, num_trits) ==
    IF num_trits >= e /\ src_start % e = dst_start % e
    THEN LET head == (e - (src_start % e)) % e
             body == (num_trits - head) \div e
             headed == CopyTrits(dst, dst_start, src, src_start, 0, head)
             copied == CopyCells(headed, (dst_start + head) \div e,
                                 src, (src_start + head) \div e, body)
         IN  CopyTrits(copied, dst_start, src, src_start, head + body * e, num_trits)
    ELSE CopyTrits(dst, dst_start, src, src_start, 0, num_trits)
-----------------------------------------------------------------------------
(* Conversions.  Where the cell sizes differ the code moves the trits      *)
(* through a buffer of eight; q is the part of it that is in use.          *)

\* The first num_trits trits of the array, cell by cell.
CutCells(f, num_trits) ==
    [j \in 1..NUM_FLEX_TRITS_FOR_TRITS(num_trits) |->
        IF j * e > num_trits THEN Pack(SubSeq(Unpack(f[j]), 1, num_trits % e)) ELSE f[j]]

\* With three trits per byte whole trytes are written: up to two trits more
\* than num_trits.
flex_trits_to_trits(f, num_trits) ==
    [k \in 1..(IF e = 3 THEN 3 * NUM_FLEX_TRITS_FOR_TRITS(num_trits) ELSE num_trits) |->
        flex_trits_at(f, k - 1)]

flex_trits_from_trits(to_len, t) ==
    LET pieces == Pieces(t, e) IN Over(Null(to_len), [j \in DOMAIN pieces |-> Pack(pieces[j])])

RECURSIVE ToTrytes(_, _, _, _)
ToTrytes(f, i, q, counter) ==
    IF counter = 0 /\ q = <<>> THEN <<>>
    ELSE LET more == Len(q) < 3 /\ counter > 0
             max_trits == IF more THEN Least(e, counter) ELSE 0
             filled == IF more THEN q \o SubSeq(Unpack(f[i]), 1, max_trits) ELSE q
             n == Least(3, Len(filled))
         IN  trits_to_trytes(SubSeq(filled, 1, n)) \o
             ToTrytes(f, IF more THEN i + 1 ELSE i, Drop(filled, n), counter - max_trits)

flex_trits_to_trytes(f, num_trits) ==
    CASE e = 1 -> trits_to_trytes(SubSeq(f, 1, num_trits))
      [] e = 3 -> CutCells(f, num_trits)
      [] OTHER -> ToTrytes(f, 1, <<>>, num_trits)

RECURSIVE FromTrytes(_, _)
FromTrytes(trytes, q) ==
    IF trytes = <<>> /\ q = <<>> THEN <<>>
    ELSE LET n == IF Len(trytes) > 1 /\ Len(q) + 3 < e THEN 2 ELSE Least(1, Len(trytes))
             filled == q \o trytes_to_trits(SubSeq(trytes, 1, n))
             num_trits == Least(e, Len(filled))
         IN  <<Pack(SubSeq(filled, 1, num_trits))>> \o
             FromTrytes(Drop(trytes, n), Drop(filled, num_trits))

flex_trits_from_trytes(to_len, trytes) ==
    Over(Null(to_len), CASE e = 1 -> trytes_to_trits(trytes)
                         [] e = 3 -> trytes
                         [] OTHER -> FromTrytes(trytes, <<>>))

\* Ends when the cells are read, whatever is left in the buffer.
RECURSIVE ToBytes(_, _, _, _)
ToBytes(f, i, q, counter) ==
    IF counter = 0 THEN <<>>
    ELSE LET first == Least(e, counter)
             again == Len(q) + first < 5 /\ counter > first
             second == IF again THEN Least(e, counter - first) ELSE 0
             filled == q \o SubSeq(Unpack(f[i]), 1, first) \o
                         (IF again THEN SubSeq(Unpack(f[i + 1]), 1, second) ELSE <<>>)
         IN  <<trits_to_byte(SubSeq(filled, 1, Least(5, Len(filled))))>> \o
             ToBytes(f, IF again THEN i + 2 ELSE i + 1, Drop(filled, 5), counter - first - second)

flex_trits_to_bytes(f, num_trits) ==
    Over(Zeros((num_trits + 4) \div 5),
         CASE e = 1 -> trits_to_bytes(SubSeq(f, 1, num_trits))
           [] e = 5 -> CutCells(f, num_trits)
           [] OTHER -> ToBytes(f, 1, <<>>, num_trits))

RECURSIVE FromBytes(_, _, _)
FromBytes(bytes, q, counter) ==
    IF counter = 0 THEN <<>>
    ELSE LET max_trits == Least(5, counter)
             more == Len(q) < e /\ Len(q) < counter
             filled == IF more THEN q \o byte_to_trits(bytes[1], max_trits) ELSE q
             n == Least(max_trits, e)
         IN  <<Pack(TakeZ(filled, n))>> \o
             FromBytes(IF more THEN Tail(bytes) ELSE bytes, Drop(filled, n), counter - n)

flex_trits_from_bytes(to_len, bytes, num_trits) ==
    Over(Null(to_len), CASE e = 1 -> bytes_to_trits(bytes, num_trits)
                         [] e = 5 -> CutCells(bytes, num_trits)
                         [] OTHER -> FromBytes(bytes, <<>>, num_trits))
-----------------------------------------------------------------------------
(* The machine.                                                            *)

\* Arrays of n trits to start from and to copy from.
Patterns == 0..2
Pattern(p, n) == [i \in 1..n |-> IF p = 0 THEN -1 ELSE ((i * i + p * i) % 3) - 1]

FlexInit ==
    /\ e \in Encodings
    /\ \E p \in Patterns, n \in Lengths : trits = Pattern(p, n)
    /\ cells = flex_trits_from_trits(Len(trits), trits)
    /\ changes = 0

Becomes(newcells, newtrits) ==
    /\ changes < MaxChanges /\ changes' = changes + 1
    /\ cells' = newcells /\ trits' = newtrits
    /\ UNCHANGED e

\* The sequence t with n elements of s, from the one at from, put at to.
Spliced(t, to, s, from, n) ==
    [i \in DOMAIN t |-> IF i \in to + 1..to + n THEN s[i - to + from] ELSE t[i]]

SetAt ==
    \E index \in 0..Len(trits) - 1, trit \in {-1, 0, 1} :
        Becomes(flex_trits_set_at(cells, index, trit), [trits EXCEPT ![index + 1] = trit])

Slice ==
    \E to_len \in Lengths, start \in 0..Len(trits) - 1, num_trits \in 1..Len(trits) :
        /\ num_trits <= to_len /\ start + num_trits <= Len(trits)
        /\ Becomes(flex_trits_slice(cells, to_len, Len(trits), start, num_trits),
                   TakeZ(SubSeq(trits, start + 1, start + num_trits), to_len))

Insert ==
    \E p \in Patterns, len \in Lengths, start \in 0..Len(trits) - 1, num_trits \in 1..Len(trits) :
        /\ num_trits <= len /\ start + num_trits <= Len(trits)
        /\ LET src == Pattern(p, len)
           IN  Becomes(flex_trits_insert(cells, flex_trits_from_trits(len, src), start, num_trits),
                       Spliced(trits, start, src, 0, num_trits))

InsertFromPos ==
    \E p \in Patterns, len \in Lengths, src_start \in 0..Len(trits) - 1,
       dst_start \in 0..Len(trits) - 1, num_trits \in 1..Len(trits) :
        /\ src_start + num_trits <= len /\ dst_start + num_trits <= Len(trits)
        /\ LET src == Pattern(p, len)
           IN  Becomes(flex_trits_insert_from_pos(cells, flex_trits_from_trits(len, src),
                                                  src_start, dst_start, num_trits),
                       Spliced(trits, dst_start, src, src_start, num_trits))

FromText ==
    \E p \in Patterns, n \in 0..Len(trits) \div 3 :
        LET text == Pattern(p, 3 * n)
        IN  Becomes(flex_trits_from_trytes(Len(trits), trits_to_trytes(text)),
                    TakeZ(text, Len(trits)))

FromPacket ==
    \E p \in Patterns, n \in 0..Len(trits) :
        LET content == Pattern(p, n)
        IN  Becomes(flex_trits_from_bytes(Len(trits), trits_to_bytes(content), n),
                    TakeZ(content, Len(trits)))

FlexNext == SetAt \/ Slice \/ Insert \/ InsertFromPos \/ FromText \/ FromPacket
-----------------------------------------------------------------------------
(* Properties.                                                             *)

\* Whatever the encoding, and wherever the positions fall in a byte, every
\* operation leaves the array as if its trits had just been packed: the trits
\* are the right ones, and the rest of the last byte is null, so two arrays of
\* equal trits are equal byte by byte.
PackedFormIsUnique == cells = flex_trits_from_trits(Len(trits), trits)

\* With 3 and 4 trits per byte flex_trits_to_bytes repeats itself every 15 and
\* 20 trits.  The lengths the node converts are 243 and 8019 and, for a request,
\* 243 less a minimum weight magnitude of 9 or 14.
SameAsUsed(n) ==
    \E used \in {243, 8019, 243 - 9, 243 - 14} :
        CASE e = 3 -> n % 15 = used % 15 [] e = 4 -> n % 20 = used % 20 [] OTHER -> TRUE

\* Every prefix of the array is converted to the same trits and trytes in every
\* encoding, and to the same bytes for the lengths that packets have: nodes
\* built differently understand each other.
ConversionsAgree ==
    \A n \in 1..Len(trits) :
        LET prefix == SubSeq(trits, 1, n)
        IN  /\ SubSeq(flex_trits_to_trits(cells, n), 1, n) = prefix
            /\ flex_trits_to_trytes(cells, n) = trits_to_trytes(prefix)
            /\ SameAsUsed(n) => flex_trits_to_bytes(cells, n) = trits_to_bytes(prefix)
=============================================================================
