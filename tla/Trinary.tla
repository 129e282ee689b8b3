------------------------------ MODULE Trinary ------------------------------
(***************************************************************************)
(* Numbers in balanced ternary, and how they are written: trits (least     *)
(* significant first), trytes of three trits, bytes of five trits, 64-bit  *)
(* integers, and the self-delimiting forms of the two versions of MAM.     *)
(* The machine is a counter of Width trits that add_assign moves on, as a  *)
(* channel's message number is.                                            *)
(*                                                                         *)
(* A tryte is its index in "9ABC...Z", 0..26; a byte is its signed value.  *)
(* Sequences are indexed from 1, the code's arrays from 0.                 *)
(***************************************************************************)
EXTENDS Integers, Sequences

CONSTANTS Width, Steps

ASSUME TrinaryAssumption == Width \in Nat \ {0} /\ Steps \subseteq Nat

VARIABLES
    ctr,       \* the counter
    number,    \* the number it should hold
    wrapped    \* what the last add_assign returned
-----------------------------------------------------------------------------
(* Arrays.                                                                 *)

Magnitude(v) == IF v < 0 THEN -v ELSE v
Least(a, b) == IF a < b THEN a ELSE b
Zeros(n) == [i \in 1..n |-> 0]
Negated(t) == [i \in DOMAIN t |-> -t[i]]
Drop(t, n) == SubSeq(t, n + 1, Len(t))

\* The first n elements of an array that is zero past its end.
TakeZ(t, n) == [i \in 1..n |-> IF i <= Len(t) THEN t[i] ELSE 0]

\* The array t with new written over its start.
Over(t, new) == new \o Drop(t, Len(new))

\* The array t cut into pieces of n, the last one possibly shorter.
Pieces(t, n) ==
    [j \in 1..(Len(t) + n - 1) \div n |-> SubSeq(t, (j - 1) * n + 1, Least(j * n, Len(t)))]

RECURSIVE Joined(_)
Joined(pieces) == IF pieces = <<>> THEN <<>> ELSE Head(pieces) \o Joined(Tail(pieces))
-----------------------------------------------------------------------------
(* The reference: a number has at most one form of n trits.                *)

Largest(n) == (3^n - 1) \div 2
Balanced(v, n) == [i \in 1..n |-> (((v + Largest(n)) \div 3^(i - 1)) % 3) - 1]
-----------------------------------------------------------------------------
(* Trits and integers.                                                     *)

RECURSIVE trits_to_long(_)
trits_to_long(t) == IF t = <<>> THEN 0 ELSE Head(t) + 3 * trits_to_long(Tail(t))

RECURSIVE MinTrits(_, _, _)
MinTrits(v_abs, vp, num) == IF v_abs > vp THEN MinTrits(v_abs, vp * 3 + 1, num + 1) ELSE num

min_trits(value) == MinTrits(Magnitude(value), 1, 1)

RECURSIVE LongToTrits(_, _)
LongToTrits(v_abs, size) ==
    IF size = 0 \/ v_abs = 0 THEN <<>>
    ELSE <<((v_abs + 1) % 3) - 1>> \o LongToTrits((v_abs + 1) \div 3, size - 1)

\* Written over the array t.  Only its first three trits are cleared.
long_to_trits(value, t) ==
    LET digits == LongToTrits(Magnitude(value), min_trits(value))
        cleared == Over(t, Zeros(Least(3, Len(t))))
    IN  Over(cleared, IF value < 0 THEN Negated(digits) ELSE digits)
-----------------------------------------------------------------------------
(* The form of the first MAM: trytes whose sign bits follow them.          *)

encoded_zero == <<1, 0, 0, -1>>

nearest_greater_multiple_of_three(value) == 3 * ((value + 2) \div 3)

encoded_length(value) ==
    IF value = 0 THEN Len(encoded_zero)
    ELSE LET length == nearest_greater_multiple_of_three(min_trits(value))
         IN  length + min_trits(2^(length \div 3) - 1)

\* All trytes but the last are made negative, or zero; the last is made positive.
SignBit(value, last) == IF last THEN value <= 0 ELSE value >= 0

\* The array t, cleared by the caller, after encode_long.
encode_long(value, t) ==
    IF value = 0 THEN Over(t, encoded_zero)
    ELSE LET length == nearest_greater_multiple_of_three(min_trits(value))
             trytes == Pieces(SubSeq(long_to_trits(value, t), 1, length), 3)
             flips == {i \in DOMAIN trytes :
                          SignBit(trits_to_long(trytes[i]), i = Len(trytes))}
             signed == [i \in DOMAIN trytes |->
                          IF i \in flips THEN Negated(trytes[i]) ELSE trytes[i]]
             encoding == [i \in DOMAIN trytes |-> IF i \in flips THEN 2^(i - 1) ELSE 0]
             RECURSIVE SumTo(_)
             SumTo(i) == IF i = 0 THEN 0 ELSE encoding[i] + SumTo(i - 1)
         IN  Joined(signed) \o long_to_trits(SumTo(Len(trytes)), Drop(t, length))

RECURSIVE EncodingStart(_, _)
EncodingStart(t, from) ==
    IF from < Len(t) /\ trits_to_long(TakeZ(Drop(t, from), 3)) <= 0
    THEN EncodingStart(t, from + 3) ELSE from

Failed == [value |-> -1, size |-> 0]

decode_long(t) ==
    IF TakeZ(t, 4) = encoded_zero THEN [value |-> 0, size |-> 4]
    ELSE LET start == EncodingStart(t, 0) + 3
             trytes == start \div 3
             length == min_trits(2^trytes - 1)
             encoding == trits_to_long(SubSeq(t, start + 1, start + length))
             Signed(i) == LET v == trits_to_long(SubSeq(t, 3 * i + 1, 3 * i + 3))
                          IN  IF (encoding \div 2^i) % 2 = 1 THEN -v ELSE v
             RECURSIVE SumFrom(_)
             SumFrom(i) == IF i = trytes THEN 0 ELSE Signed(i) + 27 * SumFrom(i + 1)
         IN  IF start - 3 >= Len(t) \/ trytes > 13 THEN Failed
             ELSE [value |-> SumFrom(0), size |-> start + length]
-----------------------------------------------------------------------------
(* The form of the second MAM: the number of trytes, then the trytes.      *)

MODS(t, M, m) == ((t + ((M - 1) \div 2)) % m) - ((m - 1) \div 2)
DIVS(t, M, m) == ((t + ((M - 1) \div 2)) \div m) - (((M \div m) - 1) \div 2)

trits_put3(t) ==
    LET t0 == MODS(t, 27, 3)
        u == DIVS(t, 27, 3)
    IN  <<t0, MODS(u, 9, 3), DIVS(u, 9, 3)>>

trits_put6(t) == trits_put3(MODS(t, 27 * 27, 27)) \o trits_put3(DIVS(t, 27 * 27, 27))

trits_put9(t) ==
    LET u == DIVS(t, 27 * 27 * 27, 27)
    IN  trits_put3(MODS(t, 27 * 27 * 27, 27)) \o
        trits_put3(MODS(u, 27 * 27, 27)) \o trits_put3(DIVS(u, 27 * 27, 27))

trits_put18(t) ==
    trits_put9(MODS(t, 19683 * 19683, 19683)) \o trits_put9(DIVS(t, 19683 * 19683, 19683))

trits_get3(x) == x[1] + 3 * x[2] + 9 * x[3]
trits_get6(x) == trits_get3(x) + 27 * trits_get3(Drop(x, 3))
trits_get9(x) == trits_get6(x) + 729 * trits_get3(Drop(x, 6))
trits_get18(x) == trits_get9(x) + 19683 * trits_get9(Drop(x, 9))

RECURSIVE SizeTTrytes(_, _)
SizeTTrytes(n, d) == IF d < 13 /\ n > (27^d - 1) \div 2 THEN SizeTTrytes(n, d + 1) ELSE d

trits_size_t_trytes(n) == SizeTTrytes(n, 0)

trits_sizeof_size_t(n) == 3 * (trits_size_t_trytes(n) + 1)

trits_encode_size_t(n) ==
    LET d == trits_size_t_trytes(n)
    IN  trits_put3(d) \o (IF n > 0 THEN long_to_trits(n, Zeros(3 * d)) ELSE <<>>)

\* The number and how much of the buffer is consumed.
trits_decode_size_t(buffer) ==
    IF Len(buffer) < 3 THEN Failed
    ELSE LET d == trits_get3(buffer)
         IN  IF d < 0 \/ Len(buffer) < 3 + 3 * d THEN Failed
             ELSE [value |-> trits_to_long(SubSeq(buffer, 4, 3 + 3 * d)), size |-> 3 + 3 * d]
-----------------------------------------------------------------------------
(* Trytes and bytes.                                                       *)

TryteOf(value) == IF value < 0 THEN value + 27 ELSE value

trits_to_trytes(t) ==
    LET pieces == Pieces(t, 3) IN [j \in DOMAIN pieces |-> TryteOf(trits_to_long(pieces[j]))]

TRYTES_TRITS_LUT == [i \in 0..26 |-> Balanced(IF i > 13 THEN i - 27 ELSE i, 3)]
trytes_to_trits(trytes) == Joined([i \in DOMAIN trytes |-> TRYTES_TRITS_LUT[trytes[i]]])

trits_to_byte(t) == trits_to_long(t)
trits_to_bytes(t) ==
    LET pieces == Pieces(t, 5) IN [j \in DOMAIN pieces |-> trits_to_byte(pieces[j])]

BYTES_TRITS_LUT == [byte \in -121..121 |-> Balanced(byte, 5)]
byte_to_trits(byte, num_trits) == SubSeq(BYTES_TRITS_LUT[byte], 1, num_trits)
bytes_to_trits(bytes, num_trits) ==
    SubSeq(Joined([j \in DOMAIN bytes |-> BYTES_TRITS_LUT[bytes[j]]]), 1, num_trits)

RECURSIVE MinTrytes(_, _)
MinTrytes(v_abs, num) == IF 2 * v_abs > 27^num THEN MinTrytes(v_abs, num + 1) ELSE num

min_trytes(value) == MinTrytes(Magnitude(value), 1)

trytes_to_long(trytes) ==
    LET RECURSIVE SumFrom(_)
        SumFrom(j) ==
          IF j > Len(trytes) THEN 0
          ELSE (IF trytes[j] > 13 THEN trytes[j] - 27 ELSE trytes[j]) + 27 * SumFrom(j + 1)
    IN  SumFrom(1)

\* From the most significant tryte down; the rest keeps its sign.
RECURSIVE LongToTrytes(_, _)
LongToTrytes(value, i) ==
    IF i < 0 THEN <<>>
    ELSE LET v_abs == Magnitude(value)
             tryte == (v_abs + (27^i \div 2)) \div 27^i
             rest == v_abs - 27^i * tryte
         IN  LongToTrytes(IF value < 0 THEN -rest ELSE rest, i - 1) \o
             <<IF value < 0 /\ tryte # 0 THEN 27 - tryte ELSE tryte>>

long_to_trytes(value) == LongToTrytes(value, min_trytes(value) - 1)

\* Two trytes for a character.
ascii_to_trytes(c) == <<c % 27, (c - (c % 27)) \div 27>>
trytes_to_ascii(trytes) == trytes[1] + trytes[2] * 27
-----------------------------------------------------------------------------
(* Addition.                                                               *)

trit_cons(a, b) == IF a = b THEN a ELSE 0
trit_sum(a, b) == CASE a + b = 2 -> -1 [] a + b = -2 -> 1 [] OTHER -> a + b

trit_full_add(a, b, c) ==
    LET s_ab == trit_sum(a, b)
        x == trit_cons(a, b) + trit_cons(s_ab, c)
    IN  [s |-> trit_sum(s_ab, c), c |-> IF x > 0 THEN 1 ELSE IF x < 0 THEN -1 ELSE 0]

\* For v >= 0: nobody in the code adds a negative number.
RECURSIVE add_internal(_, _, _)
add_internal(t, v, c) ==
    IF v = 0 /\ c = 0 THEN [t |-> t, ret |-> 0]
    ELSE IF t = <<>> THEN [t |-> t, ret |-> 1]
    ELSE LET r == trit_full_add(Head(t), ((v + 1) % 3) - 1, c)
             rest == add_internal(Tail(t), (v + 1) \div 3, r.c)
         IN  [t |-> <<r.s>> \o rest.t, ret |-> rest.ret]

add_assign(t, v) == add_internal(t, v, 0)

RECURSIVE AddTrits(_, _, _)
AddTrits(lh, rh, c) ==
    IF lh = <<>> THEN <<>>
    ELSE LET r == trit_full_add(Head(lh), Head(rh), c)
         IN  <<r.s>> \o AddTrits(Tail(lh), Tail(rh), r.c)

add_trits(lh, rh) == AddTrits(lh, rh, 0)
-----------------------------------------------------------------------------
TrinaryInit ==
    /\ number \in {-Largest(Width), 0} /\ ctr = Balanced(number, Width)
    /\ wrapped = 0

\* The caller goes on with what add_assign left in the counter.
Count ==
    \E v \in Steps :
        LET r == add_assign(ctr, v)
        IN  /\ ctr' = r.t /\ wrapped' = r.ret
            /\ number' = IF number + v > Largest(Width) THEN number + v - 3^Width ELSE number + v
-----------------------------------------------------------------------------
(* Properties.                                                             *)

\* add_assign carries through the whole counter: it holds the sum, or the sum
\* less 3^Width when it returns 1.  add_trits adds the same digits.
AdditionIsExact ==
    /\ ctr = Balanced(number, Width)
    /\ \A v \in Steps :
         LET sum == number + v
             r == add_assign(ctr, v)
         IN  /\ r.ret = 1 <=> sum > Largest(Width)
             /\ v <= Largest(Width) => r.t = add_trits(ctr, Balanced(v, Width))

\* Every form in which a number is written reads back as that number, and has
\* the length the code computed for it before it wrote: trits, trytes, bytes
\* and the two self-delimiting forms, which are read from the start of a
\* longer buffer.  A tryte's and a byte's trits are those of its number.
FormsReadBack ==
    LET trits == SubSeq(long_to_trits(number, Zeros(Width)), 1, min_trits(number))
        encoded == encode_long(number, Zeros(encoded_length(number)))
        size == Magnitude(number)
    IN  /\ trits_to_long(trits) = number
        /\ number # 0 => trits[Len(trits)] # 0
        /\ trytes_to_long(long_to_trytes(number)) = number
        /\ trytes_to_long(trits_to_trytes(ctr)) = number
        /\ SubSeq(trytes_to_trits(trits_to_trytes(ctr)), 1, Width) = ctr
        /\ bytes_to_trits(trits_to_bytes(ctr), Width) = ctr
        /\ decode_long(encoded \o ctr) = [value |-> number, size |-> encoded_length(number)]
        /\ trits_decode_size_t(trits_encode_size_t(size) \o ctr) =
             [value |-> size, size |-> trits_sizeof_size_t(size)]
        /\ trits_put18(number) = Balanced(number, 18) /\ trits_get18(Balanced(number, 18)) = number
        /\ size <= Largest(9) => trits_put9(number) = Balanced(number, 9)
        /\ size <= Largest(6) =>
             trits_put6(number) = Balanced(number, 6) /\ trits_get6(Balanced(number, 6)) = number
        /\ number \in 1..127 => trytes_to_ascii(ascii_to_trytes(number)) = number
=============================================================================
