------------------------------- MODULE Bundle -------------------------------
(* Bundles as the client, the node and MAM build, sign, attach and check     *)
(* them: common/model/bundle.c with the helpers sign.c and pow.c.  A hash is *)
(* what it was computed from, a key is its seed and index, and the fragment  *)
(* of a signature records which key signed which third of which hash.        *)
EXTENDS Integers, Sequences, SequencesExt

CONSTANTS
    Supply,             \* MAX_IOTA_SUPPLY
    BadAddress,         \* the addresses whose last trit is not 0
    InsecureTags,       \* the tags of the head for which the hash contains an M
    Tags                \* the tags are 0 .. Tags - 1, add_assign wraps

\* A transaction as transaction_reset leaves it.
TransactionReset ==
    [address |-> <<"null">>, value |-> 0, obsolete_tag |-> 0, tag |-> 0, timestamp |-> 0,
     current_index |-> 0, last_index |-> 0, bundle |-> <<>>, signature |-> <<"null">>,
     trunk |-> <<"null">>, branch |-> <<"null">>, nonce |-> 0]

EssenceOf(tx) ==
    <<tx.address, tx.value, tx.obsolete_tag, tx.timestamp, tx.current_index, tx.last_index>>

BundleCalculateHash(b) == [i \in 1 .. Len(b) |-> EssenceOf(b[i])]

\* The test for 13 in normalize_flex_hash's result.
HasM(hash) == hash[1][3] \in InsecureTags

\* Only the tag of the head moves, until the hash is secure.
BundleFinalize(b) ==
    LET Try(n) == [b EXCEPT ![1].obsolete_tag = (@ + n) % Tags]
        k == CHOOSE n \in 0 .. Tags - 1 :
                /\ ~HasM(BundleCalculateHash(Try(n)))
                /\ \A m \in 0 .. n - 1 : HasM(BundleCalculateHash(Try(m)))
        f == Try(k)
        hash == BundleCalculateHash(f)
    IN  [i \in 1 .. Len(b) |-> [f[i] EXCEPT !.bundle = hash]]

BundleResetIndexes(b) ==
    [i \in 1 .. Len(b) |->
        [b[i] EXCEPT !.current_index = i - 1, !.last_index = Len(b) - 1]]

\* The messages are written from the first transaction on.
BundleSetMessages(b, messages) ==
    [i \in 1 .. Len(b) |->
        IF i <= Len(messages) THEN [b[i] EXCEPT !.signature = <<"message", messages[i]>>] ELSE b[i]]

-----------------------------------------------------------------------------
\* iota_sign_address_gen: no address for another security level.
AddressGen(seed, index, security) ==
    IF security \in 1 .. 3 THEN <<"address", seed, index, security>> ELSE <<"null">>

\* iota_sign_signature_gen: fragment i signs the third i of the hash.
SignatureGen(seed, index, security, hash) ==
    IF security \in 1 .. 3
    THEN [i \in 1 .. security |-> <<"signature", seed, index, i, hash, (i - 1) % 3>>]
    ELSE <<>>

\* What iss_kerl_sig_digest and the address sponge make of the fragments: the
\* address of their key when each is the next fragment of it, over this hash.
SignatureDigest(frags, hash) ==
    IF \E s \in {frags[1]} :
            /\ s[1] = "signature"
            /\ \A i \in 1 .. Len(frags) :
                 frags[i] = <<"signature", s[2], s[3], i, hash, (i - 1) % 3>>
    THEN <<"address", frags[1][2], frags[1][3], Len(frags)>>
    ELSE <<"garbage">>

\* The input at position i and the transactions that carry the rest of its
\* signature: same address, value 0.
InputGroup(b, i) ==
    LET n == CHOOSE n \in i .. Len(b) :
                /\ \A j \in i + 1 .. n : b[j].address = b[i].address /\ b[j].value = 0
                /\ n = Len(b) \/ b[n + 1].address # b[i].address \/ b[n + 1].value # 0
    IN  [j \in 1 .. n - i + 1 |-> b[i + j - 1].signature]

ValidateSignatures(b, hash) ==
    \A i \in 1 .. Len(b) :
        b[i].value < 0 => SignatureDigest(InputGroup(b, i), hash) = b[i].address

-----------------------------------------------------------------------------
SumUpTo(b, n) == FoldLeft(LAMBDA sum, tx : sum + tx.value, 0, SubSeq(b, 1, n))
Outside(v) == v > Supply \/ v < -Supply

\* What is wrong with the transaction at position i, in the order of the tests.
TransactionStatus(b, i) ==
    LET tx == b[i]
        last == b[1].last_index
    IN  CASE Outside(tx.value) \/ Outside(SumUpTo(b, i)) -> "BUNDLE_INVALID_VALUE"
          [] tx.current_index # i - 1 \/ tx.last_index # last -> "BUNDLE_INVALID_TX"
          [] tx.value # 0 /\ tx.address \in BadAddress -> "BUNDLE_INVALID_INPUT_ADDRESS"
          [] i - 1 = last /\ SumUpTo(b, i) # 0 -> "BUNDLE_INVALID_VALUE"
          [] i - 1 = last /\ b[1].bundle # BundleCalculateHash(b) -> "BUNDLE_INVALID_HASH"
          [] i - 1 = last /\ ~ValidateSignatures(b, b[1].bundle) -> "BUNDLE_INVALID_SIGNATURE"
          [] OTHER -> "BUNDLE_VALID"

BundleValidate(b) ==
    IF Len(b) # b[1].last_index + 1 THEN "BUNDLE_INCOMPLETE"
    ELSE LET wrong == {i \in 1 .. Len(b) : TransactionStatus(b, i) # "BUNDLE_VALID"}
         IN  IF wrong = {} THEN "BUNDLE_VALID"
             ELSE TransactionStatus(b, CHOOSE i \in wrong : \A j \in wrong : i <= j)

-----------------------------------------------------------------------------
\* One input of the inner loop of bundle_sign.  The outer loop's transaction
\* (at) moves to the last one signed; next is curr_index.
SignInput(s, input, seed) ==
    LET tx == s.b[s.at + 1]
        sig == SignatureGen(seed, input.key_index, input.security, tx.bundle)
    IN  IF input.address # tx.address \/ s.next > tx.current_index THEN s
        ELSE [b |-> [i \in 1 .. Len(s.b) |->
                        IF i - 1 \in s.next .. s.next + input.security - 1
                        THEN [s.b[i] EXCEPT !.signature = sig[i - s.next]] ELSE s.b[i]],
              at |-> s.next + input.security - 1,
              next |-> s.next + input.security]

\* One transaction of the outer loop.
SignAt(s, inputs, seed) ==
    IF s.at >= Len(s.b) THEN s
    ELSE LET t == IF s.b[s.at + 1].value < 0
                  THEN FoldLeft(LAMBDA r, input : SignInput(r, input, seed), s, inputs)
                  ELSE [s EXCEPT !.next = @ + 1]
         IN  [t EXCEPT !.at = @ + 1]

\* A faulty variant of BundleSign: finalizes after signing instead of before.
BundleSignUnfinished(b, seed, inputs) ==
    LET start == [b |-> BundleResetIndexes(b), at |-> 0, next |-> 0]
        end == FoldLeft(LAMBDA s, i : SignAt(s, inputs, seed), start, [i \in 1 .. Len(b) |-> i])
    IN  BundleFinalize(end.b)

BundleSign(b, seed, inputs) ==
    LET start == [b |-> BundleFinalize(BundleResetIndexes(b)), at |-> 0, next |-> 0]
        end == FoldLeft(LAMBDA s, i : SignAt(s, inputs, seed), start, [i \in 1 .. Len(b) |-> i])
    IN  BundleResetIndexes(end.b)

-----------------------------------------------------------------------------
\* iota_flex_digest of the serialized transaction.
HashOf(tx) == <<"hash", tx>>

\* iota_pow_bundle: from the last index down, whatever the order of the list;
\* the nonce stands for the proof of work and the time of the attachment, and
\* the trunk of a transaction is the hash of the one with the next index.
RECURSIVE PowFrom(_, _, _, _, _)
PowFrom(b, index, trunk, branch, nonce) ==
    IF index < 0 THEN [rc |-> "RC_OK", val |-> b]
    ELSE LET at == {i \in 1 .. Len(b) : b[i].current_index = index}
         IN  IF at = {} THEN [rc |-> "RC_HELPERS_POW_INVALID_TX", val |-> b]
             ELSE LET i == CHOOSE i \in at : \A j \in at : i <= j
                      next == CHOOSE j \in 1 .. Len(b) : b[j].current_index = index + 1
                      tx == [b[i] EXCEPT
                              !.trunk = IF b[i].current_index = b[i].last_index
                                        THEN trunk ELSE HashOf(b[next]),
                              !.branch = IF b[i].current_index = b[i].last_index
                                         THEN branch ELSE trunk,
                              !.tag = IF @ = 0 THEN b[i].obsolete_tag ELSE @,
                              !.nonce = nonce]
                  IN  PowFrom([b EXCEPT ![i] = tx], index - 1, trunk, branch, nonce)

PowBundle(b, trunk, branch, nonce) ==
    IF b = <<>> THEN [rc |-> "RC_OK", val |-> b]
    ELSE PowFrom(b, b[1].last_index, trunk, branch, nonce)
=============================================================================
