----------------------------- MODULE ZdpFrames -----------------------------
(***************************************************************************)
(* The over-the-air layouts of the ZigBee device profile: what each        *)
(* builder of ZDProfile.c writes for what its caller says, and what each   *)
(* parser of ZDObject.c makes of the octets that arrive.  Builders and     *)
(* parsers are separate code, written field by field on both sides; they   *)
(* are kept apart here for the same reason.                                *)
(*                                                                         *)
(* A message is a record, an extended address a small number whose eight   *)
(* octets differ from each other and from those of every other address.    *)
(***************************************************************************)
EXTENDS Naturals, Sequences, SequencesExt

Z_EXTADDR_LEN == 8
AF_MAX_USER_DESCRIPTOR_LEN == 16
ZDP_TmpBufLen == 79          \* ZDP_BUF_SZ less the octet of the sequence number
INVALID_NODE_ADDR == 65534
DEVALL == 65535              \* NWK_BROADCAST_SHORTADDR_DEVALL
DEVRXON == 65533             \* NWK_BROADCAST_SHORTADDR_DEVRXON

ZDP_SUCCESS == 0
ZDP_INVALID_REQTYPE == 128
ZDP_DEVICE_NOT_FOUND == 129
ZDP_INVALID_EP == 130
ZDP_NOT_ACTIVE == 131
ZDP_NOT_SUPPORTED == 132
ZDP_NO_ENTRY == 136
ZDP_TABLE_FULL == 135
ZDP_NOT_PERMITTED == 139

Addr64Bit == 3
AddrGroup == 1

----------------------------------------------------------------------------
(* Writing.                                                                *)

(* LO_UINT16 then HI_UINT16. *)
Word(n) == <<n % 256, (n \div 256) % 256>>
Words(s) == FlattenSeq([i \in 1..Len(s) |-> Word(s[i])])
ExtOctets(a) == [i \in 1..Z_EXTADDR_LEN |-> (16 * a + i) % 256]
(* osal_buffer_uint32. *)
Long(n) == <<n % 256, (n \div 256) % 256, (n \div 65536) % 256, n \div 16777216>>

(* What a builder hands to fillAndSend: the length it worked out in an     *)
(* 8-bit variable, the octets it wrote and how many fit its buffer.        *)
Built(len, octets) == [len |-> len % 256, octets |-> octets, room |-> ZDP_TmpBufLen]
BuiltInAlloc(len, octets) == [len |-> len % 256, octets |-> octets, room |-> len % 256]
(* afStatus_MEM_FAIL or afStatus_INVALID_PARAMETER: nothing is sent. *)
NotBuilt == [len |-> 0, octets |-> <<>>, room |-> 0]

NWKAddrOfInterestReq(q) == Built(2, Word(q.aoi))
NwkAddrReq(q) == Built(Z_EXTADDR_LEN + 2, ExtOctets(q.ieee) \o <<q.type, q.start>>)
IEEEAddrReq(q) == Built(4, Word(q.aoi) \o <<q.type, q.start>>)

(* The address of interest "all devices" is narrowed to the receivers. *)
MatchDescReq(q) ==
  LET len == (6 + 2 * (Len(q.in) + Len(q.out))) % 256
      aoi == IF q.aoi = DEVALL THEN DEVRXON ELSE q.aoi
  IN IF len >= ZDP_TmpBufLen THEN NotBuilt
     ELSE Built(len, Word(aoi) \o Word(q.profile) \o <<Len(q.in)>> \o Words(q.in)
                       \o <<Len(q.out)>> \o Words(q.out))

SimpleDescReq(q) == Built(3, Word(q.aoi) \o <<q.ep>>)

UserDescSet(q) ==
  LET n == IF Len(q.desc) < AF_MAX_USER_DESCRIPTOR_LEN THEN Len(q.desc)
           ELSE AF_MAX_USER_DESCRIPTOR_LEN
      fill == [i \in 1..AF_MAX_USER_DESCRIPTOR_LEN - n |-> 32]
  IN Built(AF_MAX_USER_DESCRIPTOR_LEN + 3, Word(q.aoi) \o <<n>> \o SubSeq(q.desc, 1, n) \o fill)

ServerDiscReq(q) == Built(2, Word(q.mask))
DeviceAnnce(q) == Built(2 + Z_EXTADDR_LEN + 1, Word(q.aoi) \o ExtOctets(q.ieee) \o <<q.cap>>)

EndDeviceBindReq(q) ==
  LET len == (15 + 2 * (Len(q.in) + Len(q.out))) % 256
  IN IF len >= ZDP_TmpBufLen THEN NotBuilt
     ELSE Built(len, Word(q.aoi) \o ExtOctets(q.ieee) \o <<q.ep>> \o Word(q.profile)
                       \o <<Len(q.in)>> \o Words(q.in) \o <<Len(q.out)>> \o Words(q.out))

(* Mutant: the end point of a 64-bit destination is left out of the length. *)
BindUnbindReqShort(q) ==
  Built(Z_EXTADDR_LEN + 4 + (IF q.mode = Addr64Bit THEN Z_EXTADDR_LEN ELSE 2),
        ExtOctets(q.ieee) \o <<q.ep>> \o Word(q.cluster) \o <<q.mode>>
          \o (IF q.mode = Addr64Bit THEN ExtOctets(q.dst) \o <<q.dstEp>> ELSE Word(q.dst)))

BindUnbindReq(q) ==
  Built(Z_EXTADDR_LEN + 4 + (CASE q.mode = Addr64Bit -> Z_EXTADDR_LEN + 1
                               [] q.mode = AddrGroup -> 2
                               [] OTHER -> 0),
        ExtOctets(q.ieee) \o <<q.ep>> \o Word(q.cluster) \o <<q.mode>>
          \o (CASE q.mode = Addr64Bit -> ExtOctets(q.dst) \o <<q.dstEp>>
                [] q.mode = AddrGroup -> Word(q.dst)
                [] OTHER -> <<>>))

MgmtNwkDiscReq(q) == Built(6, Long(q.channels) \o <<q.duration, q.start>>)
(* ZDP_SendData: ZDP_MgmtLqiReq, ZDP_MgmtRtgReq, ZDP_MgmtBindReq and the answers of one octet. *)
SendData(octets) == Built(Len(octets), octets)
MgmtDirectJoinReq(q) == Built(Z_EXTADDR_LEN + 1, ExtOctets(q.ieee) \o <<q.cap>>)
MgmtPermitJoinReq(q) == Built(2, <<q.duration, q.tcSig>>)
MgmtLeaveReq(q) ==
  Built(Z_EXTADDR_LEN + 1,
        ExtOctets(q.ieee) \o <<(IF q.removeChildren THEN 64 ELSE 0) + (IF q.rejoin THEN 128 ELSE 0)>>)

MgmtNwkUpdateReq(q) ==
  LET rest == CASE q.duration <= 5 -> <<q.count>>
                [] q.duration = 254 -> <<q.id>>
                [] q.duration = 255 -> <<q.id>> \o Word(q.manager)
                [] OTHER -> <<>>
  IN Built(5 + Len(rest), Long(q.channels) \o <<q.duration>> \o rest)

----------------------------------------------------------------------------
(* The answers.                                                            *)

(* zdpProcessAddrReq; `list' says whether the answer holds a list of       *)
(* children, of which those from `start' on are written.                   *)
AddrRsp(s) ==
  LET tail == IF s.start < Len(s.devs) THEN SubSeq(s.devs, s.start + 1, Len(s.devs)) ELSE <<>>
      list == CASE s.list = "none" -> <<>>
                [] s.list = "empty" -> <<0>>
                [] OTHER -> <<Len(tail), s.start>> \o Words(tail)
      len == CASE s.list = "none" -> 11
               [] s.list = "empty" -> 12
               [] OTHER -> 13 + 2 * Len(tail)
  IN Built(len, <<s.status>> \o ExtOctets(s.ieee) \o Word(s.nwkAddr) \o list)

NodeDescMsg(s) ==
  Built(16, <<ZDP_SUCCESS>> \o Word(s.nwkAddr)
    \o <<8 * s.complex + 16 * s.user + (s.logical % 8), 8 * s.band + (s.aps % 8), s.cap>>
    \o Word(s.manufacturer) \o <<s.maxBuf>> \o Word(s.maxIn) \o Word(s.mask) \o Word(s.maxOut)
    \o <<s.descCap>>)

PowerDescMsg(s) ==
  Built(5, <<ZDP_SUCCESS>> \o Word(s.nwkAddr)
    \o <<16 * s.sources + (s.mode % 16), 16 * s.level + (s.source % 16)>>)

(* A status other than success goes without a description. *)
SimpleDescMsg(s) ==
  LET len == IF s.status = ZDP_SUCCESS THEN (12 + 2 * (Len(s.in) + Len(s.out))) % 256 ELSE 4
      desc == <<len - 4, s.ep>> \o Word(s.profile) \o Word(s.device) \o <<16 * s.ver>>
                \o <<Len(s.in)>> \o Words(s.in) \o <<Len(s.out)>> \o Words(s.out)
  IN IF len >= ZDP_TmpBufLen THEN NotBuilt
     ELSE Built(len, <<s.status>> \o Word(s.nwkAddr) \o (IF len > 4 THEN desc ELSE <<0>>))

EPRsp(s) == Built(4 + Len(s.eps), <<s.status>> \o Word(s.nwkAddr) \o <<Len(s.eps)>> \o s.eps)
UserDescRsp(s) ==
  Built(4 + Len(s.desc), <<ZDP_SUCCESS>> \o Word(s.nwkAddr) \o <<Len(s.desc)>> \o s.desc)
ServerDiscRsp(s) == Built(3, <<s.status>> \o Word(s.mask))
GenericRsp(s) == Built(4, <<s.status>> \o Word(s.nwkAddr) \o <<0>>)

MgmtNwkDiscRsp(s) ==
  BuiltInAlloc(4 + 12 * Len(s.items),
    <<s.status, s.total, s.start, Len(s.items)>>
      \o FlattenSeq([i \in 1..Len(s.items) |->
           LET n == s.items[i] IN
           ExtOctets(n.extPan) \o <<n.channel, n.profile + 16 * n.version,
                                    n.beacon + 16 * n.superframe, n.permit>>]))

(* Mutant: PermitJoining is packed into the octet of the device type. *)
LqiOctetsPacked(n) ==
  ExtOctets(n.extPan) \o ExtOctets(n.ieee) \o Word(n.nwkAddr)
    \o <<n.devType + 4 * n.rxOnIdle + 16 * n.relation, n.depth, n.lqi>>

LqiOctets(n) ==
  ExtOctets(n.extPan) \o ExtOctets(n.ieee) \o Word(n.nwkAddr)
    \o <<n.devType + 4 * n.rxOnIdle + 16 * n.relation, n.permit, n.depth, n.lqi>>

MgmtLqiRsp(s) ==
  IF s.status # ZDP_SUCCESS THEN Built(1, <<s.status>>)
  ELSE BuiltInAlloc(4 + 22 * Len(s.items),
         <<s.status, s.total, s.start, Len(s.items)>>
           \o FlattenSeq([i \in 1..Len(s.items) |-> LqiOctets(s.items[i])]))

MgmtRtgRsp(s) ==
  BuiltInAlloc(4 + 5 * Len(s.items),
    <<s.status, s.total, s.start, Len(s.items)>>
      \o FlattenSeq([i \in 1..Len(s.items) |->
           Word(s.items[i].dst) \o <<s.items[i].status>> \o Word(s.items[i].next)]))

(* The buffer is as long as if every destination were extended. *)
MgmtBindRsp(s) ==
  LET size(b) == IF b.mode = Addr64Bit THEN 21 ELSE 14
      octets(b) == ExtOctets(b.src) \o <<b.srcEp>> \o Word(b.cluster) \o <<b.mode>>
                     \o (IF b.mode = Addr64Bit THEN ExtOctets(b.dst) \o <<b.dstEp>>
                         ELSE Word(b.dst))
  IN [len |-> (4 + FoldLeft(LAMBDA n, b : n + size(b), 0, s.items)) % 256,
      octets |-> <<s.status, s.total, s.start, Len(s.items)>>
                   \o FlattenSeq([i \in 1..Len(s.items) |-> octets(s.items[i])]),
      room |-> (4 + 21 * Len(s.items)) % 256]

MgmtNwkUpdateNotify(s) ==
  BuiltInAlloc(10 + Len(s.energy),
    <<s.status>> \o Long(s.channels) \o Word(s.total) \o Word(s.failures)
      \o <<Len(s.energy)>> \o s.energy)

----------------------------------------------------------------------------
(* Reading: `m' is the asdu, `i' the offset the parser's pointer has       *)
(* reached.  Beyond the asdu lies whatever the heap holds.                 *)

Beyond == 165
At(m, i) == IF i < Len(m) THEN m[i + 1] ELSE Beyond
(* BUILD_UINT16. *)
WordAt(m, i) == At(m, i) + 256 * At(m, i + 1)
(* ZDO_ConvertOTAClusters. *)
WordsAt(m, i, n) == [k \in 1..n |-> WordAt(m, i + 2 * (k - 1))]
OctetsAt(m, i, n) == [k \in 1..n |-> At(m, i + k - 1)]
(* osal_build_uint32. *)
LongAt(m, i) == WordAt(m, i) + 65536 * (WordAt(m, i + 2))
(* osal_cpyExtAddr: the address whose octets these are, 15 for none. *)
ExtAt(m, i) ==
  LET a == At(m, i) \div 16
  IN IF OctetsAt(m, i, Z_EXTADDR_LEN) = ExtOctets(a) THEN a ELSE 15

(* Two counted lists of clusters.  When there is no memory for the first,  *)
(* its octets are not stepped over.                                        *)
ClustersAt(m, i, memory) ==
  LET n == At(m, i)
      in == IF memory THEN WordsAt(m, i + 1, n) ELSE <<>>
      j == i + 1 + 2 * Len(in)
  IN [in |-> in, out |-> WordsAt(m, j + 1, At(m, j))]

ParseEndDeviceBindReq(m, memory) ==
  LET lists == ClustersAt(m, 13, memory)
  IN [aoi |-> WordAt(m, 0), ieee |-> ExtAt(m, 2), ep |-> At(m, 10), profile |-> WordAt(m, 11),
      in |-> lists.in, out |-> lists.out]

(* dstEndpoint is left as it was for a short destination: 0 stands for it. *)
ParseBindUnbindReq(m) ==
  [ieee |-> ExtAt(m, 0), ep |-> At(m, 8), cluster |-> WordAt(m, 9), mode |-> At(m, 11),
   dst |-> IF At(m, 11) = Addr64Bit THEN ExtAt(m, 12) ELSE WordAt(m, 12),
   dstEp |-> IF At(m, 11) = Addr64Bit THEN At(m, 20) ELSE 0]

ParseMgmtNwkUpdateReq(m) ==
  LET d == At(m, 4)
  IN [channels |-> LongAt(m, 0), duration |-> d,
      count |-> IF d <= 5 THEN At(m, 5) ELSE 0,
      id |-> IF d \in {254, 255} THEN At(m, 5) ELSE 0,
      manager |-> IF d = 255 THEN WordAt(m, 6) ELSE 0]

ParseDeviceAnnce(m) == [aoi |-> WordAt(m, 0), ieee |-> ExtAt(m, 2), cap |-> At(m, 10)]

(* The list is looked for only when the asdu is longer than the addresses; *)
(* startIndex is not set when no child is listed.                          *)
ParseAddrRsp(m) ==
  LET cnt == IF Len(m) > 11 THEN At(m, 11) ELSE 0
  IN IF At(m, 0) # ZDP_SUCCESS THEN [status |-> At(m, 0)]
     ELSE [status |-> ZDP_SUCCESS, ieee |-> ExtAt(m, 1), nwkAddr |-> WordAt(m, 9),
           devs |-> IF cnt > 0 THEN WordsAt(m, 13, cnt) ELSE <<>>]

ParseNodeDescRsp(m) ==
  IF At(m, 0) # ZDP_SUCCESS THEN [status |-> At(m, 0), nwkAddr |-> WordAt(m, 1)]
  ELSE [status |-> ZDP_SUCCESS, nwkAddr |-> WordAt(m, 1), logical |-> At(m, 3) % 8,
        complex |-> (At(m, 3) \div 8) % 2, user |-> (At(m, 3) \div 16) % 2,
        band |-> At(m, 4) \div 8, aps |-> At(m, 4) % 8, cap |-> At(m, 5),
        manufacturer |-> WordAt(m, 6), maxBuf |-> At(m, 8), maxIn |-> WordAt(m, 9),
        mask |-> WordAt(m, 11), maxOut |-> WordAt(m, 13), descCap |-> At(m, 15)]

ParsePowerDescRsp(m) ==
  IF At(m, 0) # ZDP_SUCCESS THEN [status |-> At(m, 0), nwkAddr |-> WordAt(m, 1)]
  ELSE [status |-> ZDP_SUCCESS, nwkAddr |-> WordAt(m, 1), sources |-> At(m, 3) \div 16,
        mode |-> At(m, 3) % 16, level |-> At(m, 4) \div 16, source |-> At(m, 4) % 16]

(* ZDO_ParseSimpleDescBuf: the simple descriptor that starts at i. *)
ParseSimpleDescBuf(m, i) ==
  LET lists == ClustersAt(m, i + 6, TRUE)
  IN [ep |-> At(m, i), profile |-> WordAt(m, i + 1), device |-> WordAt(m, i + 3),
      ver |-> At(m, i + 5) \div 16, in |-> lists.in, out |-> lists.out]

ParseSimpleDescRsp(m) ==
  LET head == [status |-> At(m, 0), nwkAddr |-> WordAt(m, 1)]
      desc == ParseSimpleDescBuf(m, 4)
  IN IF head.status # ZDP_SUCCESS THEN head
     ELSE [status |-> ZDP_SUCCESS, nwkAddr |-> head.nwkAddr, ep |-> desc.ep,
           profile |-> desc.profile, device |-> desc.device, ver |-> desc.ver,
           in |-> desc.in, out |-> desc.out]

ParseEPListRsp(m) ==
  [status |-> At(m, 0), nwkAddr |-> WordAt(m, 1), eps |-> OctetsAt(m, 4, At(m, 3))]
ParseServerDiscRsp(m) == [status |-> At(m, 0), mask |-> WordAt(m, 1)]
ParseUserDescRsp(m) ==
  [status |-> At(m, 0), nwkAddr |-> WordAt(m, 1),
   desc |-> IF At(m, 0) = ZDP_SUCCESS THEN OctetsAt(m, 4, At(m, 3)) ELSE <<>>]

(* The head of the four table answers, and `item' at each of the places    *)
(* the parser's pointer comes to.                                          *)
ParseTable(m, size, item(_, _)) ==
  IF At(m, 0) # ZDP_SUCCESS THEN [status |-> At(m, 0), total |-> 0, start |-> 0, items |-> <<>>]
  ELSE [status |-> ZDP_SUCCESS, total |-> At(m, 1), start |-> At(m, 2),
        items |-> [k \in 1..At(m, 3) |-> item(m, 4 + size * (k - 1))]]

(* The IEEE address is thrown away; 3 octets after the short one skipped. *)
ParseMgmtLqiRsp(m) ==
  ParseTable(m, 22, LAMBDA b, i :
    [extPan |-> ExtAt(b, i), nwkAddr |-> WordAt(b, i + 16), lqi |-> At(b, i + 21)])

ParseMgmNwkDiscRsp(m) ==
  ParseTable(m, 12, LAMBDA b, i :
    [extPan |-> ExtAt(b, i), panId |-> WordAt(b, i), channel |-> At(b, i + 8),
     profile |-> At(b, i + 9) % 16, version |-> At(b, i + 9) \div 16,
     beacon |-> At(b, i + 10) % 16, superframe |-> At(b, i + 10) \div 16,
     permit |-> At(b, i + 11)])

ParseMgmtRtgRsp(m) ==
  ParseTable(m, 5, LAMBDA b, i :
    [dst |-> WordAt(b, i), status |-> At(b, i + 2), next |-> WordAt(b, i + 3)])

(* The entries differ in length: each starts where the last one ended. *)
ParseMgmtBindRsp(m) ==
  LET size(i) == IF At(m, i + 11) = Addr64Bit THEN 21 ELSE 14
      starts[k \in Nat] == IF k = 0 THEN 4 ELSE starts[k - 1] + size(starts[k - 1])
      item(i) == [src |-> ExtAt(m, i), srcEp |-> At(m, i + 8), cluster |-> WordAt(m, i + 9),
                  mode |-> At(m, i + 11),
                  dst |-> IF At(m, i + 11) = Addr64Bit THEN ExtAt(m, i + 12) ELSE WordAt(m, i + 12),
                  dstEp |-> IF At(m, i + 11) = Addr64Bit THEN At(m, i + 20) ELSE 0]
  IN IF At(m, 0) # ZDP_SUCCESS
     THEN [status |-> At(m, 0), total |-> 0, start |-> 0, items |-> <<>>]
     ELSE [status |-> ZDP_SUCCESS, total |-> At(m, 1), start |-> At(m, 2),
           items |-> [k \in 1..At(m, 3) |-> item(starts[k - 1])]]

ParseMgmtNwkUpdateNotify(m) ==
  IF At(m, 0) # ZDP_SUCCESS
  THEN [status |-> At(m, 0), channels |-> 0, total |-> 0, failures |-> 0, energy |-> <<>>]
  ELSE [status |-> ZDP_SUCCESS, channels |-> LongAt(m, 1), total |-> WordAt(m, 5),
        failures |-> WordAt(m, 7), energy |-> OctetsAt(m, 10, At(m, 9))]
=============================================================================
