---------------------------- MODULE Transaction ----------------------------
(***************************************************************************)
(* A transaction as a record and as one array of packed trits.  The node   *)
(* stores the fields of a packet it receives and writes the packet anew    *)
(* for every neighbor, so what is written must have the hash of what was   *)
(* read.                                                                   *)
(*                                                                         *)
(* The fields have the lengths of the code modulo 20, and modulo 3, so     *)
(* that they start at the same places of a byte in every encoding; an      *)
(* integer has IntBits bits, of 64, and fits a field of the length of      *)
(* value, but not the shorter ones.                                        *)
(***************************************************************************)
EXTENDS FlexTrits, TLC

CONSTANTS IntBits, Numbers

ASSUME TransactionAssumption == IntBits \in Nat \ {0} /\ Numbers \subseteq 0..(2^IntBits - 1)

VARIABLES
    tx,        \* iota_transaction_t
    packet,    \* its serialized form, <<>> while there is none
    written    \* packet was made from tx

transactionVars == <<tx, packet, written>>
-----------------------------------------------------------------------------
NUM_TRITS_SIGNATURE == 21
NUM_TRITS_HASH == 3
NUM_TRITS_VALUE == 21
NUM_TRITS_TAG == 21

TritField(name, width) == [name |-> name, width |-> width, type |-> "trits"]
IntField(name, width, type) == [name |-> name, width |-> width, type |-> type]

\* In the order of the packet; num_trits is NUM_TRITS_TIMESTAMP, and the length
\* of the indices.
LayoutOf(num_trits) ==
    <<TritField("signature_or_message", NUM_TRITS_SIGNATURE), TritField("address", NUM_TRITS_HASH),
      IntField("value", NUM_TRITS_VALUE, "int64_t"), TritField("obsolete_tag", NUM_TRITS_TAG),
      IntField("timestamp", num_trits, "uint64_t"), IntField("current_index", num_trits, "uint64_t"),
      IntField("last_index", num_trits, "uint64_t"), TritField("bundle", NUM_TRITS_HASH),
      TritField("trunk", NUM_TRITS_HASH), TritField("branch", NUM_TRITS_HASH),
      TritField("tag", NUM_TRITS_TAG), IntField("attachment_timestamp", num_trits, "uint64_t"),
      IntField("attachment_timestamp_lower", num_trits, "uint64_t"),
      IntField("attachment_timestamp_upper", num_trits, "uint64_t"), TritField("nonce", NUM_TRITS_TAG)>>

Layouts == [x \in {1, 3, 4, 5} |-> LayoutOf(IF x = 3 THEN 6 ELSE 7)]
Layout == Layouts[e]

\* Where each field starts, and the end of the last one.
Offsets ==
    [x \in {1, 3, 4, 5} |->
        LET start[i \in 1..Len(Layouts[x]) + 1] == IF i = 1 THEN 0 ELSE start[i - 1] + Layouts[x][i - 1].width
        IN  start @@ <<>>]
Offset(i) == Offsets[e][i]

NUM_TRITS_SERIALIZED_TRANSACTION == Offset(Len(Layout) + 1)

Packed == {Layout[i].name : i \in DOMAIN Layout}
Columns == Packed \cup {"hash", "snapshot_index", "solid", "validity", "arrival_timestamp"}

\* The bits of a 64-bit integer, read as an unsigned or as a signed one.
Unsigned(v) == v % 2^IntBits
Signed(u) == IF u >= 2^(IntBits - 1) THEN u - 2^IntBits ELSE u
-----------------------------------------------------------------------------
(* The accessors.                                                          *)

transaction_reset ==
    [field |-> [c \in Columns |->
        IF \E i \in DOMAIN Layout : Layout[i].name = c /\ Layout[i].type = "trits"
        THEN Null((CHOOSE l \in {Layout[i] : i \in DOMAIN Layout} : l.name = c).width)
        ELSE IF c = "hash" THEN [digest |-> <<>>] ELSE 0],
     loaded_columns_mask |-> {}]

\* transaction_set_<column>; an integer is kept as its bits.
transaction_set(t, column, v) ==
    [t EXCEPT !.field[column] = v, !.loaded_columns_mask = @ \cup {column}]

\* transaction_<column> asserts that the column is loaded.
transaction_get(t, column) ==
    IF column \in t.loaded_columns_mask THEN [ok |-> TRUE, v |-> t.field[column]] ELSE [ok |-> FALSE]
-----------------------------------------------------------------------------
(* From trits and to trits.                                                *)

ReadField(trits0, i) ==
    LET width == Layout[i].width
        partial == flex_trits_slice(trits0, width, NUM_TRITS_SERIALIZED_TRANSACTION, Offset(i), width)
    IN  IF Layout[i].type = "trits" THEN partial
        ELSE Unsigned(trits_to_long(SubSeq(flex_trits_to_trits(partial, width), 1, width)))

\* External: Curl-P-81, one hash for each sequence of trits.
Digest(plain_trits) == [digest |-> plain_trits]

transaction_deserialize_trits(t, trits0, compute_hash) ==
    LET read == [c \in Packed |-> ReadField(trits0, CHOOSE i \in DOMAIN Layout : Layout[i].name = c)]
        plain_trits == SubSeq(flex_trits_to_trits(trits0, NUM_TRITS_SERIALIZED_TRANSACTION), 1,
                              NUM_TRITS_SERIALIZED_TRANSACTION)
        filled == [field |-> read @@ t.field, loaded_columns_mask |-> t.loaded_columns_mask \cup Packed]
    IN  IF compute_hash
        THEN transaction_set(filled, "hash", Digest(plain_trits))
        ELSE filled

LongToFlexTrit(value) ==
    flex_trits_from_trits(NUM_TRITS_VALUE, long_to_trits(Signed(value), Zeros(NUM_TRITS_VALUE)))

\* A number gives as many of its trits as the field has.
WriteField(t, trits0, i) ==
    LET v == t.field[Layout[i].name]
    IN  flex_trits_insert(trits0, IF Layout[i].type = "trits" THEN v ELSE LongToFlexTrit(v),
                          Offset(i), Layout[i].width)

RECURSIVE SerializeFrom(_, _, _)
SerializeFrom(t, trits0, i) ==
    IF i > Len(Layout) THEN trits0
    ELSE CHOOSE r \in {SerializeFrom(t, more, i + 1) : more \in {WriteField(t, trits0, i)}} : TRUE

transaction_serialize_to_flex_trits(t) == SerializeFrom(t, Null(NUM_TRITS_SERIALIZED_TRANSACTION), 1)

transaction_serialize(t) == transaction_serialize_to_flex_trits(t)
transaction_deserialize(trits0, compute_hash) ==
    transaction_deserialize_trits(transaction_reset, trits0, compute_hash)
-----------------------------------------------------------------------------
(* The weight of a hash.  It counts the cells from the last one, and trits *)
(* only in a cell that is not the first.                                   *)

NullCells(h) == Len(h) - (CHOOSE k \in 0..Len(h) :
                            /\ \A i \in k + 1..Len(h) : h[i] = 0
                            /\ k > 0 => h[k] # 0)
ZeroTrits(t) == Len(t) - (CHOOSE k \in 0..Len(t) :
                            /\ \A i \in k + 1..Len(t) : t[i] = 0
                            /\ k > 0 => t[k] # 0)

transaction_weight_magnitude(h) ==
    LET pos == Len(h) - NullCells(h)
    IN  NullCells(h) * e + (IF pos > 1 THEN ZeroTrits(Unpack(h[pos])) ELSE 0)
-----------------------------------------------------------------------------
(* The machine.                                                            *)

\* A transaction whose fields were all set.
Filled(p) ==
    [field |-> [c \in Packed |->
        LET l == Layout[CHOOSE i \in DOMAIN Layout : Layout[i].name = c]
        IN  IF l.type = "trits" THEN flex_trits_from_trits(l.width, Pattern(p, l.width)) ELSE p]
        @@ transaction_reset.field,
     loaded_columns_mask |-> Packed]

TransactionInit ==
    /\ e \in Encodings
    /\ tx \in {transaction_reset} \cup {Filled(p) : p \in Patterns}
    /\ packet = <<>> /\ written = FALSE

Set ==
    \E i \in DOMAIN Layout, v \in Numbers :
        /\ packet = <<>> /\ Layout[i].type # "trits"
        /\ \A j \in DOMAIN Layout : Layout[j].type # "trits" => tx.field[Layout[j].name] \notin Numbers
        /\ tx' = transaction_set(tx, Layout[i].name, v)
        /\ UNCHANGED <<e, packet, written>>

Serialize ==
    /\ packet = <<>>
    /\ packet' = transaction_serialize(tx) /\ written' = TRUE
    /\ UNCHANGED <<e, tx>>

\* The value in a packet may be larger than an integer.
Receive ==
    \E p \in Patterns, large \in BOOLEAN :
        /\ packet = <<>> /\ tx = transaction_reset
        /\ LET t == Pattern(p, NUM_TRITS_SERIALIZED_TRANSACTION)
               used == IF large THEN IntBits - 3 ELSE IntBits - 7
               unused == {i \in DOMAIN t : i - 1 \in Offset(3) + used..Offset(4) - 1}
           IN  packet' = flex_trits_from_trits(Len(t), [i \in DOMAIN t |-> IF i \in unused THEN 0 ELSE t[i]])
        /\ written' = FALSE
        /\ UNCHANGED <<e, tx>>

Deserialize ==
    \E compute_hash \in BOOLEAN :
        /\ packet # <<>> /\ ~written
        /\ tx' = transaction_deserialize(packet, compute_hash) /\ written' = TRUE
        /\ UNCHANGED <<e, packet>>

TransactionNext == Set \/ Serialize \/ Receive \/ Deserialize
-----------------------------------------------------------------------------
(* Properties.                                                             *)

\* The number that is left of v in a field of width trits.
Kept(v, width) == ((v + Largest(width)) % 3^width) - Largest(width)

\* What is written is read back: all trits of every field, and of a number the
\* trits that the field has room for.  Every column of the packet can be used
\* then, and no other one.
FieldsReadBack ==
    written /\ packet # <<>> =>
        LET back == transaction_deserialize(packet, TRUE)
        IN  /\ \A i \in DOMAIN Layout :
                  LET name == Layout[i].name
                      width == Layout[i].width
                  IN  transaction_get(back, name).v =
                        IF Layout[i].type = "trits" \/ width >= IntBits THEN tx.field[name]
                        ELSE Unsigned(Kept(Signed(tx.field[name]), width))
            /\ \A c \in Columns : transaction_get(back, c).ok <=> c \in Packed \cup {"hash"}

\* A packet that is read and written anew is the same, byte by byte, unless its
\* value is no 64-bit integer.
PacketsAreKept ==
    packet # <<>> =>
        LET value == SubSeq(flex_trits_to_trits(packet, Offset(4)), Offset(3) + 1, Offset(4))
        IN  trits_to_long(value) \in -(2^(IntBits - 1))..(2^(IntBits - 1) - 1)
              => transaction_serialize(transaction_deserialize(packet, FALSE)) = packet

\* A hash of 243 trits fills its last cell only with 1 and 3 trits per byte.
\* Otherwise the weight includes the trits that the last cell has too many, 1
\* or 2.  It is exact as long as the hash does not begin with the zeros.
WeightCountsZeros ==
    packet = <<>> /\ tx = transaction_reset =>
    LET n == IF e = 3 THEN 24 ELSE 23
        h(z) == [i \in 1..n |-> IF i > n - z THEN 0 ELSE 1]
    IN  \A z \in 0..n - e - 1 :
            transaction_weight_magnitude(flex_trits_from_trits(n, h(z)))
              = z + e * NUM_FLEX_TRITS_FOR_TRITS(n) - n
=============================================================================
