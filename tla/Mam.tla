-------------------------------- MODULE Mam --------------------------------
(* The MAM API: one sender that writes messages into bundles, one receiver   *)
(* that reads them, and the files both keep their state in.                  *)
(*                                                                           *)
(* A message is a header and numbered packets; the last packet has a         *)
(* negative number.  The sender keeps a write context per message, the       *)
(* receiver a read context, and each moves with every packet.  Bundles reach *)
(* the receiver in any order, more than once or not at all, and perhaps      *)
(* without their last transactions.                                          *)
EXTENDS MamMessage

CONSTANTS Height,        \* heights a new channel or endpoint may have
          Recipients,    \* recipient lists of a header, of <<"psk" or "ntru", id>>
          Checksums,     \* subset of {"none", "mac", "sig"}
          ReceiverPsks,  \* the pre-shared keys the receiver has
          ReceiverSks,   \* the NTRU keys the receiver has
          ReceiverTrusts,  \* the channels the receiver was told to trust
          MaxChannels, MaxEndpoints, MaxHeaders, MaxPackets, MaxWrites, MaxReads, MaxRestarts

VARIABLES snd,      \* the sender's mam_api_t
          rcv,      \* the receiver's mam_api_t
          bundle,   \* the bundle under construction
          tangle,   \* the bundles sent
          file,     \* the sender's file: a serialized API, and ghost copy of it
          read,     \* the last mam_api_bundle_read: the last part it was given, and the outcome
          ghost     \* history: keys used, packets written and read, calls made
mamVars == <<snd, rcv, bundle, tangle, file, read, ghost>>

(* ---- mam_api_t ---- *)
ApiInit ==
  [channel_ord |-> 0, channels |-> <<>>, wctx |-> <<>>, rctx |-> <<>>,
   psks |-> {}, ntru_sks |-> {}, ntru_pks |-> {}, tch |-> {}, tep |-> {}]

ApiAddTrustedChannelPk(api, pk) == [api EXCEPT !.tch = @ \union {pk}]
ApiAddTrustedEndpointPk(api, pk) == [api EXCEPT !.tep = @ \union {pk}]

(* A channel's name is its number, an endpoint's its number in the channel. *)
ChannelCreate(ord, h) ==
  [name |-> <<ord>>, msg_ord |-> 0, endpoint_ord |-> 0, endpoints |-> <<>>,
   mss |-> MssGen(MssCreate(<<ord>>, h))]
EndpointCreate(chname, ord, h) ==
  [name |-> <<ord>>, mss |-> MssGen(MssCreate(<<chname[1], ord>>, h))]

ApiChannelCreate(api, h) ==
  LET ch == ChannelCreate(api.channel_ord, h) IN
  ApiAddTrustedChannelPk(
    [api EXCEPT !.channels = Append(@, ch), !.channel_ord = @ + 1], ch.mss.root)
ApiEndpointCreate(api, c, h) ==
  LET ch == api.channels[c]
      ep == EndpointCreate(ch.name, ch.endpoint_ord, h)
  IN ApiAddTrustedEndpointPk(
       [api EXCEPT !.channels[c].endpoints = Append(@, ep),
                   !.channels[c].endpoint_ord = @ + 1], ep.mss.root)

(* The tree a reference <<c, e>> names: an endpoint's, or with e = 0 the      *)
(* channel's own.                                                             *)
MssAt(api, ref) ==
  IF ref[2] = 0 THEN api.channels[ref[1]].mss
  ELSE api.channels[ref[1]].endpoints[ref[2]].mss
SetMss(api, ref, m) ==
  IF ref[2] = 0 THEN [api EXCEPT !.channels[ref[1]].mss = m]
  ELSE [api EXCEPT !.channels[ref[1]].endpoints[ref[2]].mss = m]

(* ---- writing ---- *)
(* mam_api_bundle_wrap: a part is the run of transactions under one tag.  A    *)
(* reader looks for a packet in the transaction after the one its header ends  *)
(* in, which is the packet's first unless the header fills its last one.       *)
TransactionTrits == 6561
Transactions(size) == (size + TransactionTrits - 1) \div TransactionTrits
PacketIndex(size) == size \div TransactionTrits + 1
BundleWrap(b, chid, id, ord, fields, size) ==
  Append(b, [addr |-> chid, id |-> id, ord |-> ord, fields |-> fields, size |-> size])

(* mam_api_bundle_write_header.  The message number is consumed before the    *)
(* header is signed, so a failed announcement leaves a hole.                  *)
ApiBundleWriteHeader(api, b, kind, c, target, recipients) ==
  LET ch == api.channels[c]
      chid == ch.mss.root
      id == <<ch.name[1], ch.msg_ord>>
      skn == MssAt(api, IF kind = "epid" THEN target ELSE <<c, 0>>).skn
      epname == IF kind = "epid" THEN ch.endpoints[target[2]].name ELSE <<>>
      key == SessionKey(recipients, ch.name, epname, skn)
      moved(m) == [SetMss(api, <<c, 0>>, m) EXCEPT !.channels[c].msg_ord = @ + 1]
      ctx(sp) == [sp |-> sp, ord |-> 1, mss |-> target, chid |-> chid]
  IN IF b # <<>> THEN [rc |-> "BUNDLE_NOT_EMPTY", api |-> api, bundle |-> b, id |-> id]
     ELSE With(MsgWriteHeader(chid, kind, MssAt(api, target).root, ch.mss, id, recipients, key), LAMBDA h :
       IF h.rc # "OK" THEN [rc |-> h.rc, api |-> moved(h.mss), bundle |-> b, id |-> id]
       ELSE [rc |-> "OK", id |-> id, bundle |-> BundleWrap(b, chid, id, 0, h.w.out,
               MsgHeaderSize(kind, ch.mss.height, recipients)),
             api |-> [moved(h.mss) EXCEPT !.wctx = (id :> ctx(h.w.sp)) @@ @]])

(* The four public forms: where target points and which key is announced. *)
ApiBundleWriteHeaderOnChannel(api, b, c, rs) == ApiBundleWriteHeader(api, b, "chid", c, <<c, 0>>, rs)
ApiBundleWriteHeaderOnEndpoint(api, b, c, e, rs) == ApiBundleWriteHeader(api, b, "epid", c, <<c, e>>, rs)
ApiBundleAnnounceChannel(api, b, c, c1, rs) == ApiBundleWriteHeader(api, b, "chid1", c, <<c1, 0>>, rs)
ApiBundleAnnounceEndpoint(api, b, c, e1, rs) == ApiBundleWriteHeader(api, b, "epid1", c, <<c, e1>>, rs)

(* mam_api_bundle_write_packet.  The number is negated before the packet is   *)
(* written, and stays so when signing fails.                                  *)
ApiBundleWritePacket(api, b, id, payload, checksum, is_last) ==
  LET ctx == api.wctx[id]
      ord == IF is_last THEN -ctx.ord ELSE ctx.ord
      moved(p) == [SetMss(api, ctx.mss, p.mss) EXCEPT !.wctx[id].sp = p.w.sp, !.wctx[id].ord = ord]
      kept(wctx) == IF is_last THEN [i \in DOMAIN wctx \ {id} |-> wctx[i]]
                    ELSE [wctx EXCEPT ![id].ord = @ + 1]
  IN IF id \notin DOMAIN api.wctx THEN [rc |-> "MESSAGE_NOT_FOUND", api |-> api, bundle |-> b]
     ELSE With(MsgWritePacket(ctx.sp, ord, MssAt(api, ctx.mss), checksum, payload), LAMBDA p :
       IF p.rc # "OK" THEN [rc |-> p.rc, api |-> moved(p), bundle |-> b]
       ELSE [rc |-> "OK", api |-> [moved(p) EXCEPT !.wctx = kept(@)],
             bundle |-> BundleWrap(b, ctx.chid, id, ord, p.w.out, 0)])

(* ---- reading ---- *)
ReadResult(rc, api) == [rc |-> rc, api |-> api, payload |-> <<>>, checksum |-> "none", is_last |-> FALSE]

(* mam_api_bundle_read_packet_from_msg: a packet that cannot be read leaves   *)
(* the context as it was on entry.                                            *)
ReadPacketFromMsg(ctx, fields) ==
  With(MsgReadPacket(ctx.sp, ctx.ord, ctx.pk, fields), LAMBDA p :
  [rc |-> p.rc, payload |-> p.payload, checksum |-> p.checksum, is_last |-> p.rc = "OK" /\ ctx.ord < 0,
   ctx |-> IF p.rc # "OK" THEN ctx
           ELSE [ctx EXCEPT !.sp = p.sp, !.ord = IF @ >= 0 THEN @ + 1 ELSE @]])

(* A header, and the packet after it when the bundle holds one.  A context    *)
(* made from a last packet is kept.                                           *)
BundleReadHeader(api, b) ==
  LET part == b[1]
      r0 == [rc |-> "OK", sp |-> <<>>, buf |-> part.fields, val |-> 0, key |-> NoKey,
             pk |-> part.addr, tch |-> api.tch, tep |-> api.tep]
      trust(h) == [api EXCEPT !.tch = h.tch, !.tep = h.tep]
      ctx(h) == [sp |-> h.sp, pk |-> h.pk,
                 ord |-> IF Len(b) > 1 /\ b[2].ord < 0 THEN b[2].ord ELSE 1]
      packet == IF PacketIndex(part.size) = Transactions(part.size) THEN b[2].fields ELSE <<>>
      keep(h, c) == [trust(h) EXCEPT !.rctx = (part.id :> c) @@ @]
  IN IF part.id \in DOMAIN api.rctx THEN ReadResult("OK", api)
     ELSE With(MsgReadHeader(r0, part.id, api.psks, api.ntru_sks), LAMBDA h :
       IF h.rc # "OK" THEN ReadResult(h.rc, trust(h))
       ELSE IF Len(b) = 1 THEN ReadResult("OK", keep(h, ctx(h)))
       ELSE With(ReadPacketFromMsg(ctx(h), packet), LAMBDA p :
         IF p.rc # "OK" THEN ReadResult(p.rc, trust(h))
         ELSE [rc |-> "OK", api |-> keep(h, p.ctx), payload |-> <<p.payload>>,
               checksum |-> p.checksum, is_last |-> p.is_last]))

(* The read context when the packet is tried: a last packet flips its sign,   *)
(* and nothing flips it back when the packet cannot be read.                  *)
Tried(ctx, ord) == IF ord < 0 THEN [ctx EXCEPT !.ord = -@] ELSE ctx

BundleReadPacket(api, b) ==
  LET part == b[1]
      ctx == Tried(api.rctx[part.id], part.ord)
      rest(p) == IF p.is_last THEN [i \in DOMAIN api.rctx \ {part.id} |-> api.rctx[i]]
                 ELSE [api.rctx EXCEPT ![part.id] = p.ctx]
  IN IF part.id \notin DOMAIN api.rctx THEN ReadResult("MESSAGE_NOT_FOUND", api)
     ELSE IF part.ord # api.rctx[part.id].ord /\ -part.ord # api.rctx[part.id].ord
       THEN ReadResult("BAD_PACKET_ORD", api)
     ELSE With(ReadPacketFromMsg(ctx, part.fields), LAMBDA p :
       IF p.rc # "OK" THEN ReadResult(p.rc, [api EXCEPT !.rctx[part.id] = p.ctx])
       ELSE [rc |-> "OK", api |-> [api EXCEPT !.rctx = rest(p)], payload |-> <<p.payload>>,
             checksum |-> p.checksum, is_last |-> p.is_last])

ApiBundleRead(api, b) == IF b[1].ord = 0 THEN BundleReadHeader(api, b) ELSE BundleReadPacket(api, b)

(* ---- saving and loading ---- *)
(* A write context is saved with the root of its tree and finds the tree       *)
(* again by it, first among the channels, then among their endpoints.          *)
WriteCtxSerialize(api, ctx) == [sp |-> ctx.sp, ord |-> ctx.ord, chid |-> ctx.chid, root |-> MssAt(api, ctx.mss).root]
WriteCtxDeserialize(s, channels) ==
  LET refs == {<<c, 0>> : c \in DOMAIN channels} \union
              UNION {{<<c, e>> : e \in DOMAIN channels[c].endpoints} : c \in DOMAIN channels}
      at(ref) == MssAt([channels |-> channels], ref).root
      found == {ref \in refs : at(ref) = s.root}
  IN [sp |-> s.sp, ord |-> s.ord, chid |-> s.chid,
      mss |-> IF found = {} THEN <<>> ELSE CHOOSE ref \in found : TRUE]

EndpointSerialize(ep) == [ep EXCEPT !.mss = MssSerialize(@)]
EndpointDeserialize(s) == [s EXCEPT !.mss = MssDeserialize(@)]
ChannelSerialize(ch) ==
  [ch EXCEPT !.mss = MssSerialize(@), !.endpoints = [e \in DOMAIN @ |-> EndpointSerialize(@[e])]]
ChannelDeserialize(s) ==
  [s EXCEPT !.mss = MssDeserialize(@), !.endpoints = [e \in DOMAIN @ |-> EndpointDeserialize(@[e])]]
ChannelReadable(s) == MssReadable(s.mss) /\ \A e \in DOMAIN s.endpoints : MssReadable(s.endpoints[e].mss)

ReadCtxSerialize(ctx) == <<ctx.sp, ctx.pk, ctx.ord>>
ReadCtxDeserialize(s) == [sp |-> s[1], pk |-> s[2], ord |-> s[3]]
WriteCtxMapSerialize(api) == [i \in DOMAIN api.wctx |-> WriteCtxSerialize(api, api.wctx[i])]
WriteCtxMapDeserialize(s, channels) == [i \in DOMAIN s |-> WriteCtxDeserialize(s[i], channels)]
ReadCtxMapSerialize(api) == [i \in DOMAIN api.rctx |-> ReadCtxSerialize(api.rctx[i])]
ReadCtxMapDeserialize(s) == [i \in DOMAIN s |-> ReadCtxDeserialize(s[i])]

(* A tree without keys cannot be loaded: a channel's ends the load, and an     *)
(* endpoint's leaves the reader in the middle of it, out of step with the rest *)
(* of the file.                                                                *)
ApiSerialize(api) ==
  [api EXCEPT !.channels = [c \in DOMAIN @ |-> ChannelSerialize(@[c])],
              !.wctx = WriteCtxMapSerialize(api), !.rctx = ReadCtxMapSerialize(api)]
ApiDeserialize(s) ==
  LET channels == [c \in DOMAIN s.channels |-> ChannelDeserialize(s.channels[c])] IN
  [s EXCEPT !.channels = channels,
            !.wctx = WriteCtxMapDeserialize(@, channels), !.rctx = ReadCtxMapDeserialize(@)]
ApiReadable(s) ==
  /\ \A c \in DOMAIN s.channels : ChannelReadable(s.channels[c])
  /\ \A i \in DOMAIN s.wctx : WriteCtxDeserialize(s.wctx[i], s.channels).mss # <<>>

(* An API as the rest of the program can tell it from another. *)
ApiView(api) ==
  [api EXCEPT !.channels = [c \in DOMAIN @ |->
     [@[c] EXCEPT !.mss = MssLive(@), !.endpoints = [e \in DOMAIN @ |-> [@[e] EXCEPT !.mss = MssLive(@)]]]]]

(* ---- the sender ---- *)
(* What the receiver reads never reaches the sender, and bundles stay on the   *)
(* tangle: any run can be reordered so that the sender's steps come first,     *)
(* and a sender may stop anywhere.  So reading begins when the sender has      *)
(* left, and what only the sender could see is forgotten then.                 *)
Down == <<>>
NoFile == <<>>
NoHistory ==
  [headers |-> 0, packets |-> 0, reads |-> 0, restarts |-> 0,
   written |-> {}, emitted |-> {}, spoiled |-> {}, broken |-> {},
   unsaved |-> FALSE, leaked |-> FALSE, stale |-> FALSE]
MamInit ==
  /\ snd = ApiInit
  /\ rcv = [ApiInit EXCEPT !.psks = ReceiverPsks, !.ntru_sks = ReceiverSks,
                            !.tch = ReceiverTrusts]
  /\ bundle = <<>> /\ tangle = {} /\ file = NoFile
  /\ read = [at |-> <<>>, rc |-> "OK", payload |-> <<>>, checksum |-> "none", sound |-> FALSE]
  /\ ghost = NoHistory

(* Keys are created before the first message; the payload of a packet is its  *)
(* number among those written, so no two are alike.                          *)
CreateChannel(h) ==
  /\ snd # Down /\ ghost.headers = 0 /\ Len(snd.channels) < MaxChannels
  /\ snd' = ApiChannelCreate(snd, h)
  /\ UNCHANGED <<rcv, bundle, tangle, file, read, ghost>>
CreateEndpoint(c, h) ==
  /\ snd # Down /\ ghost.headers = 0 /\ c \in DOMAIN snd.channels /\ Len(snd.channels[c].endpoints) < MaxEndpoints
  /\ snd' = ApiEndpointCreate(snd, c, h)
  /\ UNCHANGED <<rcv, bundle, tangle, file, read, ghost>>

HeaderWritten(r) ==
  /\ snd' = r.api
  /\ bundle' = r.bundle
  /\ ghost' = [ghost EXCEPT !.headers = @ + 1, !.unsaved = TRUE]
  /\ UNCHANGED <<rcv, tangle, file, read>>
MayWriteHeader(c) ==
  snd # Down /\ bundle = <<>> /\ ghost.headers < MaxHeaders /\ ghost.headers + ghost.packets < MaxWrites /\ c \in DOMAIN snd.channels
WriteHeaderOnChannel(c, rs) ==
  MayWriteHeader(c) /\ HeaderWritten(ApiBundleWriteHeaderOnChannel(snd, bundle, c, rs))
WriteHeaderOnEndpoint(c, e, rs) ==
  /\ MayWriteHeader(c) /\ e \in DOMAIN snd.channels[c].endpoints
  /\ HeaderWritten(ApiBundleWriteHeaderOnEndpoint(snd, bundle, c, e, rs))
AnnounceChannel(c, c1, rs) ==
  /\ MayWriteHeader(c) /\ c1 \in DOMAIN snd.channels
  /\ HeaderWritten(ApiBundleAnnounceChannel(snd, bundle, c, c1, rs))
AnnounceEndpoint(c, e1, rs) ==
  /\ MayWriteHeader(c) /\ e1 \in DOMAIN snd.channels[c].endpoints
  /\ HeaderWritten(ApiBundleAnnounceEndpoint(snd, bundle, c, e1, rs))

(* A packet goes into a bundle of its own or after its header. *)
WritePacket(id, checksum, is_last) ==
  LET payload == <<ghost.packets>> IN
  /\ snd # Down /\ id \in DOMAIN snd.wctx /\ ghost.packets < MaxPackets /\ ghost.headers + ghost.packets < MaxWrites
  /\ bundle # <<>> => Len(bundle) = 1 /\ bundle[1].id = id /\ bundle[1].ord = 0
  /\ \E r \in {ApiBundleWritePacket(snd, bundle, id, payload, checksum, is_last)} :
       /\ snd' = r.api
       /\ bundle' = r.bundle
       /\ ghost' = [ghost EXCEPT !.packets = @ + 1, !.unsaved = TRUE,
                      !.broken = IF r.rc = "OK" THEN @ ELSE @ \union {id},
                      !.written = IF r.rc = "OK" THEN @ \union {<<id, r.bundle[Len(r.bundle)].ord, payload>>} ELSE @]
  /\ UNCHANGED <<rcv, tangle, file, read>>

(* The bundle is sent; it may be attached or not whatever the node answered. *)
Emitted(b) ==
  UNION {{b[i].fields[k] : k \in {j \in DOMAIN b[i].fields : b[i].fields[j][1] \in {"sig", "crypt"}}} :
           i \in DOMAIN b}
Publish(attached) ==
  /\ snd # Down /\ bundle # <<>>
  /\ tangle' = IF attached THEN tangle \union {bundle} ELSE tangle
  /\ bundle' = <<>>
  /\ ghost' = [ghost EXCEPT !.emitted = @ \union Emitted(bundle), !.leaked = @ \/ ghost.unsaved]
  /\ UNCHANGED <<snd, rcv, file, read>>

(* A save matters to a later restart only. *)
Save ==
  /\ snd # Down /\ snd.channels # <<>> /\ ghost.restarts < MaxRestarts
  /\ file' = ApiSerialize(snd)
  /\ ghost' = [ghost EXCEPT !.unsaved = FALSE, !.leaked = FALSE]
  /\ UNCHANGED <<snd, rcv, bundle, tangle, read>>

(* mam_api_load in a new process; without a file it starts from the seed, and *)
(* a file that cannot be read ends it.                                        *)
Restart ==
  /\ snd # Down /\ ghost.restarts < MaxRestarts
  /\ snd' = IF file = NoFile THEN ApiInit
            ELSE IF ApiReadable(file) THEN ApiDeserialize(file) ELSE Down
  /\ file' = IF ghost.restarts + 1 = MaxRestarts THEN NoFile ELSE file
  /\ bundle' = <<>>
  /\ ghost' = [ghost EXCEPT !.restarts = @ + 1, !.stale = @ \/ ghost.leaked,
                            !.unsaved = FALSE, !.leaked = FALSE]
  /\ UNCHANGED <<rcv, tangle, read>>

Leave ==
  /\ snd # Down
  /\ snd' = Down /\ file' = NoFile /\ bundle' = <<>>
  /\ ghost' = [NoHistory EXCEPT !.written = ghost.written,
                                !.broken = ghost.broken, !.stale = ghost.stale]
  /\ UNCHANGED <<rcv, tangle, read>>

(* ---- the receiver ---- *)
(* What the transactions found so far may hold of bundle b: all of it, or its *)
(* beginning.  Only fields that fill transactions of their own can be cut.    *)
Large == {"crypt", "sig", "ekey"}
CutPart(p, n) == [p EXCEPT !.fields = SubSeq(@, 1, n)]
Beginnings(b) ==
  UNION {{Append(SubSeq(b, 1, i - 1), CutPart(b[i], n - 1)) :
            n \in {k \in DOMAIN b[i].fields : b[i].fields[k][1] \in Large}} : i \in DOMAIN b}
  \union {SubSeq(b, 1, i) : i \in DOMAIN b}

(* A read that has every right to succeed: a whole bundle of a trusted        *)
(* channel, for this receiver, next in its message, by a sender that never    *)
(* lost its state, no packet of which failed to be signed (that moves the     *)
(* writer's transcript), and no earlier attempt at its last packet.           *)
Relevant(h) ==
  LET keyloads == {k \in DOMAIN h.fields : h.fields[k][1] = "keyload"} IN
  keyloads = {} \/ \E k \in keyloads :
    h.fields[k + 1][2] \in (IF h.fields[k][2] = "psk" THEN rcv.psks ELSE rcv.ntru_sks)
EndpointKnown(h) == \A k \in DOMAIN h.fields :
  h.fields[k] = <<"pubkey", "epid">> => h.fields[k + 1][2] \in rcv.tep
Sound(b) ==
  /\ b \in tangle /\ ~ghost.stale /\ b[1].id \notin ghost.spoiled \union ghost.broken
  /\ IF b[1].ord = 0
       THEN b[1].addr \in rcv.tch /\ Relevant(b[1]) /\ EndpointKnown(b[1])
            /\ b[1].id \notin DOMAIN rcv.rctx
       ELSE b[1].id \in DOMAIN rcv.rctx
            /\ rcv.rctx[b[1].id].ord \in {b[1].ord, -b[1].ord}

ReadBundle(b) ==
  /\ snd = Down /\ ghost.reads < MaxReads
  /\ \E r \in {ApiBundleRead(rcv, b)} :
       /\ rcv' = r.api
       /\ read' = [at |-> <<b[Len(b)].id, b[Len(b)].ord>>, rc |-> r.rc, payload |-> r.payload, checksum |-> r.checksum,
                   sound |-> Sound(b)]
       /\ ghost' = [ghost EXCEPT !.reads = @ + 1,
                      !.spoiled = IF r.rc # "OK" /\ b[1].ord < 0 THEN @ \union {b[1].id} ELSE @]
  /\ UNCHANGED <<snd, bundle, tangle, file>>

MamNext ==
  \/ \E h \in Height : CreateChannel(h) \/ \E c \in 1..MaxChannels : CreateEndpoint(c, h)
  \/ \E c \in 1..MaxChannels, rs \in Recipients :
       \/ WriteHeaderOnChannel(c, rs)
       \/ \E e \in 1..MaxEndpoints : WriteHeaderOnEndpoint(c, e, rs) \/ AnnounceEndpoint(c, e, rs)
       \/ \E c1 \in 1..MaxChannels : AnnounceChannel(c, c1, rs)
  \/ snd # Down /\ \E id \in DOMAIN snd.wctx, k \in Checksums, l \in BOOLEAN :
       WritePacket(id, k, l)
  \/ \E attached \in BOOLEAN : Publish(attached)
  \/ Save
  \/ Restart
  \/ Leave
  \/ \E b \in tangle : \E cut \in Beginnings(b) : ReadBundle(cut)
-----------------------------------------------------------------------------
(* mam_api_bundle_read: a payload delivered with a MAC or a signature is the *)
(* one written at that place of that message, whatever was lost, cut,        *)
(* repeated or read before.                                                  *)
AuthenticatedIsWritten ==
  read.rc = "OK" /\ read.payload # <<>> /\ read.checksum \in {"mac", "sig"} =>
    Append(read.at, read.payload[1]) \in ghost.written

(* mam_api_bundle_write_* and mam_api_bundle_read agree: the next whole       *)
(* bundle of a message for this receiver is read, with the payload written.   *)
SoundReadsSucceed ==
  read.sound =>
    /\ read.rc = "OK"
    /\ read.at[2] # 0 => read.payload # <<>> /\ Append(read.at, read.payload[1]) \in ghost.written

(* A one-time key signs one hash and a keystream encrypts one text, as long   *)
(* as the sender never restarts from a file older than what it sent.          *)
FreshUnlessStale ==
  ghost.stale \/ \A f, g \in ghost.emitted :
    /\ f[1] = "sig" /\ g[1] = "sig" /\ f[2].leaf = g[2].leaf => f[2].hash = g[2].hash
    /\ f[1] = "crypt" /\ g[1] = "crypt" /\ f[2].sp = g[2].sp => f[2].v = g[2].v

(* mam_api_load after mam_api_save: whatever the sender is in the middle of,  *)
(* the loaded API is the saved one to every later call.  A tree without keys  *)
(* is the one thing it refuses to load.                                       *)
Exhausted(api) ==
  \E c \in DOMAIN api.channels :
    \/ MssRemainingSks(api.channels[c].mss) = 0
    \/ \E e \in DOMAIN api.channels[c].endpoints : MssRemainingSks(api.channels[c].endpoints[e].mss) = 0
LoadRestores ==
  snd # Down =>
    LET s == ApiSerialize(snd) IN
    /\ ApiReadable(s) <=> ~Exhausted(snd)
    /\ ApiReadable(s) => ApiView(ApiDeserialize(s)) = ApiView(snd)
=============================================================================
