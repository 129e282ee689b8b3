------------------------------- MODULE Troika -------------------------------
(***************************************************************************)
(* The hash function Troika, twice: troika.c computes on an array of 729   *)
(* trits, ftroika.c, which the sponge of MAM uses, on 27 pairs of words,   *)
(* with the 27 trits of a lane in the bits of one pair.                    *)
(*                                                                         *)
(* A word is the set of its bits that are 1; the words have 32 bits, five  *)
(* more than a lane.  The machine is one state in both forms, on which the *)
(* same calls are made.  The table of round constants is a parameter.      *)
(***************************************************************************)
EXTENDS Integers, Sequences, TLC

CONSTANTS
    NUM_ROUNDS,            \* 24 in the code
    RoundConstant(_, _, _),  \* of a round, a slice and a column
    TroikaLengths,         \* of what is absorbed and squeezed
    MaxTroikaCalls

VARIABLES
    plain,        \* the state of troika.c ...
    sliced,       \* ... and that of ftroika.c
    sameHash,     \* the two gave the same trits so far
    troikaCalls

troikaVars == <<plain, sliced, sameHash, troikaCalls>>
-----------------------------------------------------------------------------
COLUMNS == 9
ROWS == 3
SLICES == 27
SLICESIZE == COLUMNS * ROWS
STATESIZE == SLICESIZE * SLICES
TROIKA_RATE == 243
PADDING == 1

\* The function f, in the form of a table.
Array(f) == f @@ <<>>

\* The one element of S.
The(S) == CHOOSE x \in S : TRUE

\* Where the trit of a slice, row and column is.
SliceOf(idx) == idx \div SLICESIZE
RowOf(idx) == (idx % SLICESIZE) \div COLUMNS
ColumnOf(idx) == idx % COLUMNS
Index(slice, row, col) == SLICESIZE * slice + COLUMNS * row + col
Trits == 0..(STATESIZE - 1)

shift_lanes_param ==
    <<19, 13, 21, 10, 24, 15, 2, 9, 3, 14, 0, 6, 5, 1, 25, 22, 23, 20, 7, 17, 26, 12, 8, 18, 16, 11, 4>>
-----------------------------------------------------------------------------
(* troika.c                                                                *)

sbox_lookup ==
    <<6, 25, 17, 5, 15, 10, 4, 20, 24, 0, 1, 2, 9, 22, 26, 18, 16, 14, 3, 13, 23, 7, 11, 12, 8, 21, 19>>

sub_trytes(s) ==
    LET output(b) == sbox_lookup[9 * s[b] + 3 * s[b + 1] + s[b + 2] + 1]
    IN  Array([i \in Trits |-> (output(i - (i % 3)) \div 3^(2 - (i % 3))) % 3])

\* The trit at i comes from three columns further left for each row.
shift_rows(s) ==
    Array([i \in Trits |-> s[Index(SliceOf(i), RowOf(i), (ColumnOf(i) + 9 - 3 * RowOf(i)) % COLUMNS)]])

shift_lanes(s) ==
    LET old_slice(i) == (SliceOf(i) + SLICES - shift_lanes_param[(i % SLICESIZE) + 1]) % SLICES
    IN  Array([i \in Trits |-> s[SLICESIZE * old_slice(i) + (i % SLICESIZE)]])

ColumnSum(s, slice, col) ==
    (s[Index(slice, 0, col)] + s[Index(slice, 1, col)] + s[Index(slice, 2, col)]) % 3

AddParity(s, parity) ==
    Array([i \in Trits |->
        (s[i] + parity[<<SliceOf(i), (ColumnOf(i) + 8) % 9>>]
              + parity[<<(SliceOf(i) + 1) % SLICES, (ColumnOf(i) + 1) % 9>>]) % 3])

add_column_parity(s) ==
    AddParity(s, Array([x \in (0..26) \X (0..8) |-> ColumnSum(s, x[1], x[2])]))

add_round_constant(s, round) ==
    Array([i \in Trits |-> IF RowOf(i) = 0
                           THEN (s[i] + RoundConstant(round, SliceOf(i), ColumnOf(i))) % 3 ELSE s[i]])

Round(s, round) ==
    add_round_constant(add_column_parity(shift_lanes(shift_rows(sub_trytes(s)))), round)

RECURSIVE Rounds0(_, _)
Rounds0(s, round) ==
    IF round = NUM_ROUNDS THEN s ELSE The({Rounds0(t, round + 1) : t \in {Round(s, round)}})

troika_permutation(s) == The({Rounds0(t, 0) : t \in {s}})

\* A block, a sequence, written over the rate.
Block(s, block) == Array([i \in Trits |-> IF i < Len(block) THEN block[i + 1] ELSE s[i]])
Rate0(s) == [i \in 1..TROIKA_RATE |-> s[i - 1]]

\* The last block, which may be empty otherwise, ends in PADDING.
Padded(message) ==
    [i \in 1..TROIKA_RATE |-> IF i <= Len(message) THEN message[i]
                              ELSE IF i = Len(message) + 1 THEN PADDING ELSE 0]

RECURSIVE troika_absorb(_, _)
troika_absorb(s, message) ==
    IF Len(message) >= TROIKA_RATE
    THEN troika_absorb(troika_permutation(Block(s, SubSeq(message, 1, TROIKA_RATE))),
                       SubSeq(message, TROIKA_RATE + 1, Len(message)))
    ELSE Block(s, Padded(message))

RECURSIVE Squeeze0(_, _, _)
Squeeze0(s, hash, length) ==
    IF length = 0 THEN [state |-> s, hash |-> hash]
    ELSE LET t == troika_permutation(s)
         IN  IF length < TROIKA_RATE
             THEN [state |-> t, hash |-> hash \o SubSeq(Rate0(t), 1, length)]
             ELSE Squeeze0(t, hash \o Rate0(t), length - TROIKA_RATE)

troika_squeeze(s, length) == Squeeze0(s, <<>>, length)

troika(in, outlen) == troika_squeeze(troika_absorb([i \in Trits |-> 0], in), outlen).hash

mam_troika_transform(balanced) ==
    LET s == troika_permutation([i \in Trits |-> balanced[i] + 1]) IN [i \in Trits |-> s[i] - 1]
-----------------------------------------------------------------------------
(* t27.h and ftroika.c: state[rowcol] is the pair of words of one lane.    *)

Word == 0..31
Lane == 0..26

T1(a) == a.p
T2(a) == a.n
T0(a) == Word \ (a.p \cup a.n)
Digit(a, d) == CASE d = 0 -> T0(a) [] d = 1 -> T1(a) [] d = 2 -> T2(a)

t27_init(p, n) == [p |-> {i : i \in p}, n |-> {i : i \in n}]
t27_clean(a) == t27_init(a.p \cap Lane, a.n \cap Lane)

t27_sum(a, b) ==
    t27_init((T1(a) \cap T0(b)) \cup (T0(a) \cap T1(b)) \cup (T2(a) \cap T2(b)),
             (T2(a) \cap T0(b)) \cup (T0(a) \cap T2(b)) \cup (T1(a) \cap T1(b)))

\* (w << n | w >> (27 - n)) & 0x07ffffff
Rolled(w, n) == ({i + n : i \in w} \cup {i - (27 - n) : i \in w}) \cap Lane
t27_roll(a, n) == t27_init(Rolled(a.p, n), Rolled(a.n, n))

t27_get(a, pos) == IF pos \in a.p THEN 1 ELSE IF pos \in a.n THEN 2 ELSE 0

\* All the trits of one lane, as a sequence of t27_set leaves them.
t27_set(a, val) ==
    t27_init({i \in a.p : i \notin DOMAIN val} \cup {i \in DOMAIN val : val[i] = 1},
             {i \in a.n : i \notin DOMAIN val} \cup {i \in DOMAIN val : val[i] = 2})

state_to_fstate(s, f) ==
    Array([r \in Lane |-> t27_set(f[r], [slice \in Lane |-> s[SLICESIZE * slice + r]])])

fstate_to_state(f) == Array([i \in Trits |-> t27_get(f[i % SLICESIZE], SliceOf(i))])

\* The trytes that have these values, A = 1 to Z = 26.
Valued(a, b, c, values) ==
    UNION {Digit(a, k % 3) \cap Digit(b, (k \div 3) % 3) \cap Digit(c, k \div 9) : k \in values}

\* The new a, b and c.
ftroika_sub_tryte(a, b, c) ==
    <<t27_clean(t27_init(Valued(a, b, c, {1, 5, 6, 10, 13, 16, 19, 21, 26}),
                         Valued(a, b, c, {2, 3, 7, 11, 14, 17, 20, 22, 24}))),
      t27_clean(t27_init(Valued(a, b, c, {3, 6, 13, 17, 18, 19, 20, 23, 25}),
                         Valued(a, b, c, {0, 1, 2, 4, 8, 14, 16, 21, 24}))),
      t27_clean(t27_init(Valued(a, b, c, {2, 4, 5, 12, 16, 17, 19, 22, 23}),
                         Valued(a, b, c, {1, 7, 8, 13, 14, 15, 20, 25, 26})))>>

ftroika_sub_trytes(f) ==
    LET new == Array([col \in 0..8 |-> ftroika_sub_tryte(f[ROWS * col + 2], f[ROWS * col + 1], f[ROWS * col])])
    IN  Array([r \in Lane |-> new[r \div ROWS][3 - (r % ROWS)]])

\* new_state[shifts[i]] = state[i], for the rows after the first.
shifts == <<0, 1, 2, 3, 4, 5, 6, 7, 8, 12, 13, 14, 15, 16, 17, 9, 10, 11, 24, 25, 26, 18, 19, 20, 21, 22, 23>>
ftroika_shift_rows(f) ==
    Array([r \in Lane |-> f[(CHOOSE i \in 1..SLICESIZE : shifts[i] = r) - 1]])

\* A faulty variant of ftroika_shift_lanes: rolls the other way.
ftroika_shift_lanes_back(f) ==
    Array([r \in Lane |-> t27_roll(f[r], (27 - shift_lanes_param[r + 1]) % 27)])

ftroika_shift_lanes(f) == Array([r \in Lane |-> t27_roll(f[r], shift_lanes_param[r + 1])])

AddFParity(f, parity) ==
    LET SumToAdd(col) == t27_sum(parity[IF col = 0 THEN 8 ELSE col - 1],
                                 t27_roll(parity[IF col = 8 THEN 0 ELSE col + 1], SLICES - 1))
    IN  Array([r \in Lane |-> t27_sum(f[r], SumToAdd(r % COLUMNS))])

ftroika_add_column_parity(f) ==
    AddFParity(f, Array([col \in 0..8 |->
        t27_sum(t27_sum(t27_sum(t27_init({}, {}), f[col]), f[COLUMNS + col]), f[2 * COLUMNS + col])]))

fround_constants(round, col) ==
    t27_init({s \in Lane : RoundConstant(round, s, col) = 1}, {s \in Lane : RoundConstant(round, s, col) = 2})

ftroika_add_round_constant(f, round) ==
    Array([r \in Lane |-> IF r < COLUMNS THEN t27_sum(f[r], fround_constants(round, r)) ELSE f[r]])

FRound(f, round) ==
    ftroika_add_round_constant(ftroika_add_column_parity(
        ftroika_shift_lanes(ftroika_shift_rows(ftroika_sub_trytes(f)))), round)

RECURSIVE FRounds(_, _)
FRounds(f, round) ==
    IF round = NUM_ROUNDS THEN f ELSE The({FRounds(g, round + 1) : g \in {FRound(f, round)}})

ftroika_permutation(f) == The({FRounds(g, 0) : g \in {f}})

\* rowcol and slice count through the rate: a lane has nine trits of it.
ftroika_trits_to_rate(f, trits) ==
    Array([r \in Lane |-> t27_set(f[r], [slice \in {s \in 0..8 : SLICESIZE * s + r < Len(trits)} |->
                                            trits[SLICESIZE * slice + r + 1]])])
ftroika_rate_to_trits(f, len) == [i \in 1..len |-> t27_get(f[(i - 1) % SLICESIZE], (i - 1) \div SLICESIZE)]

RECURSIVE ftroika_absorb(_, _)
ftroika_absorb(f, message) ==
    IF Len(message) >= TROIKA_RATE
    THEN ftroika_absorb(ftroika_permutation(ftroika_trits_to_rate(f, SubSeq(message, 1, TROIKA_RATE))),
                        SubSeq(message, TROIKA_RATE + 1, Len(message)))
    ELSE ftroika_trits_to_rate(f, Padded(message))

RECURSIVE FSqueeze(_, _, _)
FSqueeze(f, hash, length) ==
    IF length = 0 THEN [state |-> f, hash |-> hash]
    ELSE LET g == ftroika_permutation(f)
         IN  IF length < TROIKA_RATE
             THEN [state |-> g, hash |-> hash \o ftroika_rate_to_trits(g, length)]
             ELSE FSqueeze(g, hash \o ftroika_rate_to_trits(g, TROIKA_RATE), length - TROIKA_RATE)

ftroika_squeeze(f, length) == FSqueeze(f, <<>>, length)

Masked(f, mask) == Array([r \in Lane |-> t27_init(f[r].p \cap mask, f[r].n \cap mask)])
ftroika_nullify_state(f) == Masked(f, {})
ftroika_nullify_rate(f) == Masked(f, 9..26)
ftroika_nullify_capacity(f) == Masked(f, 0..8)

RECURSIVE Repeated(_, _)
Repeated(f, repeat) ==
    IF repeat = 0 THEN f
    ELSE LET half == ftroika_nullify_rate(ftroika_permutation(ftroika_nullify_capacity(f)))
         IN  Repeated(ftroika_permutation(ftroika_trits_to_rate(half, <<PADDING>>)), repeat - 1)

\* f is what the local array starts with.
ftroika243_repeated(in, f, repeat) ==
    ftroika_rate_to_trits(Repeated(ftroika_trits_to_rate(ftroika_nullify_state(f), in), repeat), TROIKA_RATE)

\* fstate is not initialised: the five upper bits of its words are any.
mam_ftroika_transform(balanced, f) ==
    LET s == fstate_to_state(ftroika_permutation(state_to_fstate([i \in Trits |-> balanced[i] + 1], f)))
    IN  [i \in Trits |-> s[i] - 1]
-----------------------------------------------------------------------------
(* The machine.                                                            *)

Message(n) == [i \in 1..n |-> (i * i + n) % 3]
Cleared == Array([r \in Lane |-> t27_init({}, {})])
Leftover == Array([r \in Lane |-> t27_init(Word, IF r % 2 = 0 THEN Word ELSE {})])

TroikaInit ==
    /\ plain = Array([i \in Trits |-> 0]) /\ sliced = Cleared
    /\ sameHash = TRUE /\ troikaCalls = 0

TroikaCalled == troikaCalls < MaxTroikaCalls /\ troikaCalls' = troikaCalls + 1

Absorb ==
    \E n \in TroikaLengths :
        /\ TroikaCalled
        /\ plain' = troika_absorb(plain, Message(n)) /\ sliced' = ftroika_absorb(sliced, Message(n))
        /\ UNCHANGED sameHash

Squeeze ==
    \E n \in TroikaLengths :
        /\ TroikaCalled
        /\ \E a \in {troika_squeeze(plain, n)}, b \in {ftroika_squeeze(sliced, n)} :
              /\ plain' = a.state /\ sliced' = b.state
              /\ sameHash' = (sameHash /\ a.hash = b.hash)

\* The transformation of the sponge of MAM, where the local words start as
\* anything, and a hash of the rate that is hashed once more.
Transform ==
    \E f \in {Cleared, Leftover} :
        /\ TroikaCalled
        /\ \E t \in {[i \in Trits |-> plain[i] - 1]} :
              sameHash' = (sameHash /\ mam_ftroika_transform(t, f) = mam_troika_transform(t)
                                    /\ ftroika243_repeated(Rate0(plain), f, 2)
                                         = troika(troika(Rate0(plain), TROIKA_RATE), TROIKA_RATE))
        /\ UNCHANGED <<plain, sliced>>

TroikaNext == Absorb \/ Squeeze \/ Transform
-----------------------------------------------------------------------------
\* After any calls ftroika.c has the state of troika.c, and its output has the
\* same trits, whatever the bits of a word that belong to no trit.
FastIsPlain == sameHash /\ fstate_to_state(sliced) = plain
=============================================================================
