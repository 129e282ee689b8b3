----------------------------- MODULE MamMessage -----------------------------
(* The wire format of a MAM message: mam/mam/message.c over the sponge and   *)
(* pb3 layers.                                                               *)
(*                                                                           *)
(* A buffer is a sequence of fields <<tag, value>>.  A spongos is the        *)
(* transcript of what it absorbed, encrypted and squeezed: two of them agree *)
(* exactly when their transcripts do, so a value encrypted under transcript  *)
(* t decrypts to itself under t and to Garbage under any other, and a MAC is *)
(* the transcript it was squeezed from.  A writer is [sp, out]; a reader is  *)
(* [rc, sp, buf, val] and does nothing once rc is an error.                  *)
EXTENDS Mss

Garbage == <<-1>>
NoKey == <<>>

(* ---- spongos ---- *)
SpongosInit == <<>>
Absorb(sp, x) == Append(sp, x)
AbsorbExternal(sp, x) == Append(sp, <<"ext", x>>)
Commit(sp) == Append(sp, <<"commit">>)
Squeezed(sp) == Append(sp, <<"squeeze">>)

(* ---- pb3: a field is written and absorbed, or read and absorbed ---- *)
WrapAbsorb(w, tag, v) == [sp |-> Absorb(w.sp, <<tag, v>>), out |-> Append(w.out, <<tag, v>>)]
WrapCrypt(w, v) ==
  [sp |-> Absorb(w.sp, <<"plain", v>>), out |-> Append(w.out, <<"crypt", [v |-> v, sp |-> w.sp]>>)]
WrapSqueeze(w) == [sp |-> Squeezed(w.sp), out |-> Append(w.out, <<"mac", w.sp>>)]
WrapSkip(w, tag, v) == [w EXCEPT !.out = Append(@, <<tag, v>>)]
WrapExternal(w, v) == [w EXCEPT !.sp = AbsorbExternal(@, v)]
WrapCommit(w) == [w EXCEPT !.sp = Commit(@)]

Fail(r, rc) == [r EXCEPT !.rc = rc]
Guard(r, cond, rc) == IF r.rc = "OK" /\ ~cond THEN Fail(r, rc) ELSE r
Take(r) ==
  IF r.rc # "OK" THEN r
  ELSE IF r.buf = <<>> THEN Fail(r, "PB3_EOF")
  ELSE [r EXCEPT !.val = Head(r.buf)[2], !.buf = Tail(@)]
UnwrapAbsorb(r) ==
  With(Take(r), LAMBDA t : IF t.rc = "OK" THEN [t EXCEPT !.sp = Absorb(@, Head(r.buf))] ELSE t)
UnwrapCrypt(r) ==
  With(Take(r), LAMBDA t :
    LET plain == IF t.val.sp = r.sp THEN t.val.v ELSE Garbage
    IN IF t.rc = "OK" THEN [t EXCEPT !.val = plain, !.sp = Absorb(@, <<"plain", plain>>)] ELSE t)
UnwrapSqueeze(r) ==
  With(Take(r), LAMBDA t :
    [Guard(t, t.rc = "OK" => t.val = r.sp, "PB3_BAD_MAC") EXCEPT !.sp = Squeezed(@)])
UnwrapExternal(r, v) == [r EXCEPT !.sp = AbsorbExternal(@, v)]
UnwrapCommit(r) == [r EXCEPT !.sp = Commit(@)]

(* ---- MAC, MSSig, SignedId ---- *)
WrapMac(w) == WrapSqueeze(WrapCommit(w))
\* A faulty variant of UnwrapMac: the value that was read is not compared.
UnwrapMacUnchecked(r) == [Take(UnwrapCommit(r)) EXCEPT !.sp = Squeezed(@)]
UnwrapMac(r) == UnwrapSqueeze(UnwrapCommit(r))

(* The signed hash is squeezed and not sent.  The writer's tree moves to its *)
(* next key; RC_MAM_MSS_EXHAUSTED when none is left.                         *)
MacOf(sp) == Commit(sp)
WrapMssig(w, m) ==
  LET size == WrapAbsorb([w EXCEPT !.sp = Squeezed(Commit(@))], "size", m.height)
  IN [rc |-> IF MssRemainingSks(m) = 0 THEN "MSS_EXHAUSTED" ELSE "OK",
      w |-> WrapSkip(size, "sig", MssSign(m, MacOf(w.sp))),
      mss |-> MssNext(m)]
UnwrapMssig(r, pk) ==
  With(Take(UnwrapAbsorb([r EXCEPT !.sp = Squeezed(Commit(@))])), LAMBDA sig :
    Guard(sig, sig.rc = "OK" => MssVerify(sig.val, MacOf(r.sp), pk), "PB3_BAD_SIG"))

WrapSignedid(w, id, m) == WrapMssig(WrapAbsorb(w, "id", id), m)
UnwrapSignedid(r, pk) ==
  With(UnwrapAbsorb(r), LAMBDA id : [UnwrapMssig(id, pk) EXCEPT !.val = id.val])

(* ---- keyloads: the session key, once per recipient, on a fork ---- *)
WrapKeyloadPsk(w, key, id) ==
  LET fork == WrapCommit(WrapExternal(WrapAbsorb(w, "id", id), <<"psk", id>>))
  IN [w EXCEPT !.out = WrapCrypt(fork, key).out]
WrapKeyloadNtru(w, key, id) ==
  [w EXCEPT !.out = Append(WrapAbsorb(w, "id", id).out, <<"ekey", [pk |-> id, key |-> key]>>)]

(* A reader that has the recipient's key takes the session key, one that has *)
(* not skips it; two different session keys are refused.                     *)
TakeKey(r, main, key) ==
  Guard([r EXCEPT !.sp = main.sp, !.key = IF @ = NoKey THEN <<key>> ELSE @],
        main.key \in {NoKey, <<key>>}, "KEYLOAD_OVERLOADED")
SkipKey(r, main) == [Take(r) EXCEPT !.sp = main.sp]

UnwrapKeyloadPsk(r, psks) ==
  With(UnwrapAbsorb(r), LAMBDA id :
    IF id.rc # "OK" THEN id
    ELSE IF id.val \in psks
      THEN With(UnwrapCrypt(UnwrapCommit(UnwrapExternal(id, <<"psk", id.val>>))),
                LAMBDA key : IF key.rc = "OK" THEN TakeKey(key, r, key.val) ELSE key)
    ELSE SkipKey(id, r))
UnwrapKeyloadNtru(r, sks) ==
  With(UnwrapAbsorb(r), LAMBDA id :
    LET ekey == Take(id)
    IN IF id.rc # "OK" THEN id
       ELSE IF id.val \in sks /\ ekey.rc = "OK"
         THEN TakeKey(Guard(ekey, ekey.val.pk = id.val, "PB3_BAD_EKEY"), r, ekey.val.key)
       ELSE SkipKey(id, r))

WrapKeyload(w, key, recipient) ==
  LET tag == WrapAbsorb(w, "keyload", recipient[1]) IN
  IF recipient[1] = "psk" THEN WrapKeyloadPsk(tag, key, recipient[2])
  ELSE WrapKeyloadNtru(tag, key, recipient[2])
UnwrapKeyload(r, psks, sks) ==
  With(UnwrapAbsorb(r), LAMBDA tag :
    IF tag.rc # "OK" THEN tag
    ELSE IF tag.val = "psk" THEN UnwrapKeyloadPsk(tag, psks)
    ELSE UnwrapKeyloadNtru(tag, sks))

(* ---- sizes in trits ---- *)
SizeTTrytes(n) == CHOOSE d \in 0..8 : n <= (27^d - 1) \div 2 /\ (d = 0 \/ n > (27^(d - 1) - 1) \div 2)
SizeofSizeT(n) == 3 * (SizeTTrytes(n) + 1)
SizeofNtrytes(n) == 3 * n
MssSigSize(height) == 18 + 81 * 162 + 243 * height
WrapMssigSize(height) ==
  LET sz == MssSigSize(height) \div 3 IN SizeofSizeT(sz) + SizeofNtrytes(sz)
WrapSignedidSize(height) == SizeofNtrytes(81) + WrapMssigSize(height)
WrapKeyloadPskSize == SizeofNtrytes(27) + SizeofNtrytes(81)
WrapKeyloadNtruSize == SizeofNtrytes(27) + SizeofNtrytes(3072)
KeyloadSize(recipient) == 3 + (IF recipient[1] = "psk" THEN WrapKeyloadPskSize ELSE WrapKeyloadNtruSize)
MsgHeaderSize(kind, height, recipients) ==
  LET pubkey == CASE kind = "chid" -> 0 [] kind = "epid" -> SizeofNtrytes(81) [] OTHER -> WrapSignedidSize(height)
  IN FoldLeft(LAMBDA n, r : n + KeyloadSize(r),
              3 + 3 + pubkey + 9 + SizeofSizeT(Len(recipients)), recipients)

(* ---- header ---- *)
(* The public key a message will be signed with: the channel, one of its      *)
(* endpoints, or a new channel or endpoint announced under the channel's      *)
(* signature.  Only an announcement signs, and so may fail.                   *)
WrapChannel(chid) ==
  WrapExternal(WrapAbsorb([sp |-> SpongosInit, out |-> <<>>], "version", 0), chid)
WrapPubkey(w, kind, id, m) ==
  LET tag == WrapAbsorb(w, "pubkey", kind) IN
  IF kind \in {"chid1", "epid1"} THEN WrapSignedid(tag, id, m)
  ELSE [rc |-> "OK", mss |-> m, w |-> IF kind = "epid" THEN WrapAbsorb(tag, "id", id) ELSE tag]

(* The session key is zero for a public message; otherwise it is derived from *)
(* the names and the current key number (epname and skn are the endpoint's    *)
(* when there is one).                                                        *)
SessionKey(recipients, chname, epname, skn) ==
  IF recipients = <<>> THEN NoKey ELSE <<chname, epname, skn>>

MsgWriteHeader(chid, kind, id, m, msg_id, recipients, key) ==
  With(WrapPubkey(WrapChannel(chid), kind, id, m), LAMBDA pub :
    LET head == WrapAbsorb(WrapAbsorb(WrapExternal(pub.w, msg_id), "type", 0), "count", Len(recipients))
        keys == FoldLeft(LAMBDA w, r : WrapKeyload(w, key, r), head, recipients)
    IN [rc |-> pub.rc, mss |-> pub.mss, w |-> WrapCommit(WrapExternal(keys, key))])

UnwrapChannel(r, chid) == UnwrapExternal(UnwrapAbsorb(r), chid)

(* An announced key joins the trusted ones as soon as its signature verifies, *)
(* whatever becomes of the rest of the header.                                *)
UnwrapPubkey(r, chid) ==
  With(UnwrapAbsorb(r), LAMBDA tag :
    IF tag.rc # "OK" THEN tag
    ELSE IF tag.val \in {"chid1", "epid1"} THEN
      With(UnwrapSignedid(tag, chid), LAMBDA signed :
        IF signed.rc # "OK" THEN signed
        ELSE [signed EXCEPT !.pk = signed.val,
                !.tch = IF tag.val = "chid1" THEN @ \union {signed.val} ELSE @,
                !.tep = IF tag.val = "epid1" THEN @ \union {signed.val} ELSE @])
    ELSE IF tag.val = "epid" THEN
      With(UnwrapAbsorb(tag), LAMBDA epid :
        IF epid.rc # "OK" THEN epid
        ELSE Guard([epid EXCEPT !.pk = epid.val], epid.val \in r.tep, "ENDPOINT_NOT_TRUSTED"))
    ELSE tag)

UnwrapTrusted(r, chid) ==
  With(Guard(UnwrapChannel(r, chid), chid \in r.tch, "CHANNEL_NOT_TRUSTED"), LAMBDA trusted :
    IF trusted.rc = "OK" THEN UnwrapPubkey(trusted, chid) ELSE trusted)
UnwrapKeyloads(count, psks, sks) ==
  LET n == IF count.rc = "OK" THEN count.val ELSE 0 IN
  With(FoldLeft(LAMBDA r, i : UnwrapKeyload(r, psks, sks), count, [i \in 1..n |-> i]), LAMBDA keys :
    Guard(keys, n > 0 => keys.key # NoKey, "KEYLOAD_IRRELEVANT"))
MsgReadHeader(r0, msg_id, psks, sks) ==
  LET pub == UnwrapTrusted([r0 EXCEPT !.sp = SpongosInit], r0.pk)
      count == UnwrapAbsorb(UnwrapAbsorb(UnwrapExternal(pub, msg_id)))
  IN With(UnwrapKeyloads(count, psks, sks), LAMBDA found :
       UnwrapCommit(UnwrapExternal(found, IF found.key = NoKey THEN NoKey ELSE found.key[1])))

(* ---- packet ---- *)
(* The position in the message is absorbed and not sent: reader and writer    *)
(* must agree on it.                                                          *)
MsgWritePacket(sp, ord, m, checksum, payload) ==
  LET size == WrapAbsorb(WrapExternal([sp |-> sp, out |-> <<>>], ord), "size", 1)
      body == WrapAbsorb(WrapCrypt(size, payload), "checksum", checksum)
      plain(w) == [rc |-> "OK", mss |-> m, w |-> w]
  IN With(CASE checksum = "none" -> plain(body)
            [] checksum = "mac" -> plain(WrapMac(body))
            [] checksum = "sig" -> WrapMssig(body, m),
          LAMBDA end : [end EXCEPT !.w = IF end.rc = "OK" THEN WrapCommit(@) ELSE @])

MsgReadPacket(sp, ord, pk, buf) ==
  LET r == [rc |-> "OK", sp |-> AbsorbExternal(sp, ord), buf |-> buf, val |-> 0] IN
  With(UnwrapCrypt(UnwrapAbsorb(r)), LAMBDA body :
  With(UnwrapAbsorb(body), LAMBDA chk :
  With(IF chk.rc # "OK" THEN chk
       ELSE CASE chk.val = "none" -> chk
              [] chk.val = "mac" -> UnwrapMac(chk)
              [] chk.val = "sig" -> UnwrapMssig(chk, pk), LAMBDA end :
    [rc |-> end.rc, sp |-> Commit(end.sp), payload |-> body.val, checksum |-> chk.val])))
=============================================================================
