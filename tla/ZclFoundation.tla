--------------------------- MODULE ZclFoundation ----------------------------
(***************************************************************************)
(* The ZCL foundation's frames (zcl.c): the header, and the payload of     *)
(* each foundation command as its zcl_Send... function writes it and as    *)
(* its zclParseIn... function reads it.  The two are separate code, and    *)
(* separate here.                                                          *)
(*                                                                         *)
(* A value is the sequence of the octets the attribute has in memory, low  *)
(* octet first; a character string's first octet is its length.  An octet  *)
(* of a buffer that nothing was written to is Junk.                        *)
(***************************************************************************)
EXTENDS Integers, Sequences, SequencesExt, FiniteSets, TLC

Junk == -1

SUCCESS == 0
FAILURE == 1
UNSUP_CLUSTER_COMMAND == 129
UNSUP_GENERAL_COMMAND == 130
UNSUP_MANU_CLUSTER_COMMAND == 131
UNSUP_MANU_GENERAL_COMMAND == 132
INVALID_FIELD == 133
UNSUPPORTED_ATTRIBUTE == 134
INVALID_VALUE == 135
READ_ONLY == 136
INVALID_DATA_TYPE == 141
CMD_HAS_RSP == 255

SEND_ATTR_REPORTS == 0

\* The data types, one or two for each treatment the code gives them.
Types == {"NO_DATA", "UINT8", "ENUM8", "UINT16", "ENUM16", "INT24", "UINT32", "BAC_OID",
          "UINT40", "UINT48", "DOUBLE_PREC", "IEEE_ADDR", "CHAR_STR"}

TypeLength(t) ==
    CASE t \in {"UINT8", "ENUM8"} -> 1
      [] t \in {"UINT16", "ENUM16"} -> 2
      [] t = "INT24" -> 3
      [] t \in {"UINT32", "BAC_OID"} -> 4
      [] t = "UINT40" -> 5
      [] t = "UINT48" -> 6
      [] t \in {"DOUBLE_PREC", "IEEE_ADDR"} -> 8
      [] OTHER -> 0

\* The result is an 8-bit number.
AttrDataLength(t, data) == IF t = "CHAR_STR" THEN (data[1] + 1) % 256 ELSE TypeLength(t)

AnalogDataType(t) == t \in {"UINT8", "UINT16", "INT24", "UINT32", "UINT40", "UINT48", "DOUBLE_PREC"}

Junks(n) == [i \in 1 .. n |-> Junk]
Padded(n) == n + (n % 2)

-----------------------------------------------------------------------------
(* The header: frame control, manufacturer code, sequence number, command. *)

BuildHdr(h) ==
    <<h.type + 4 * h.manuSpecific + 8 * h.direction + 16 * h.disableDefaultRsp>>
      \o (IF h.manuSpecific = 1 THEN <<h.manuCode % 256, h.manuCode \div 256>> ELSE <<>>)
      \o <<h.seq, h.command>>

CalcHdrSize(h) == 3 + IF h.manuSpecific = 1 THEN 2 ELSE 0

ParseHdr(f) ==
    LET manu == (f[1] \div 4) % 2
        at == IF manu = 1 THEN 4 ELSE 2
    IN  [type |-> f[1] % 4, manuSpecific |-> manu, direction |-> (f[1] \div 8) % 2,
         disableDefaultRsp |-> (f[1] \div 16) % 2,
         manuCode |-> IF manu = 1 THEN f[2] + 256 * f[3] ELSE 0,
         seq |-> f[at], command |-> f[at + 1], size |-> at + 1]

-----------------------------------------------------------------------------
(* Writing.  A payload is built in a block whose size is counted in 8 bits *)
(* by a loop of its own.                                                   *)

ZclWord(n) == <<n % 256, n \div 256>>
All(records, Octets(_)) == FlattenSeq([i \in DOMAIN records |-> Octets(records[i])])
Total(records, Size(_)) == FoldSeq(LAMBDA r, n : (n + Size(r)) % 256, 0, records)
ZclBuilt(len, octets) == [len |-> len % 256, room |-> len % 256, octets |-> octets]

\* zclSerializeData has no case for a double: its octets stay as they were in the block.
Serialize(t, data) ==
    CASE t = "DOUBLE_PREC" -> Junks(8)
      [] t = "CHAR_STR" -> SubSeq(data, 1, data[1] + 1)
      [] OTHER -> SubSeq(data, 1, TypeLength(t))

Read(cmd) == ZclBuilt(2 * Len(cmd), All(cmd, ZclWord))

ReadRspOctets(r) ==
    ZclWord(r.id) \o <<r.status>>
      \o IF r.status = SUCCESS THEN <<r.type>> \o Serialize(r.type, r.data) ELSE <<>>
\* Mutant: the type's octet is not counted.
ReadRspSizeShort(r) == 3 + IF r.status = SUCCESS THEN AttrDataLength(r.type, r.data) ELSE 0

ReadRspSize(r) == 3 + IF r.status = SUCCESS THEN 1 + AttrDataLength(r.type, r.data) ELSE 0
ReadRsp(cmd) == ZclBuilt(Total(cmd, ReadRspSize), All(cmd, ReadRspOctets))

WriteOctets(r) == ZclWord(r.id) \o <<r.type>> \o Serialize(r.type, r.data)
WriteSize(r) == 3 + AttrDataLength(r.type, r.data)
WriteRequest(cmd) == ZclBuilt(Total(cmd, WriteSize), All(cmd, WriteOctets))
Report(cmd) == ZclBuilt(Total(cmd, WriteSize), All(cmd, WriteOctets))

\* Success for all is one octet: the length is cut after the block was filled.
JustStatus(cmd) == Len(cmd) = 1 /\ cmd[1].status = SUCCESS
Cut(cmd, b) == IF JustStatus(cmd) THEN [b EXCEPT !.len = 1, !.octets = <<SUCCESS>>] ELSE b

WriteRspOctets(r) == <<r.status>> \o ZclWord(r.id)
WriteRsp(cmd) == Cut(cmd, ZclBuilt(3 * Len(cmd), All(cmd, WriteRspOctets)))

CfgChange(r) == IF AnalogDataType(r.type) THEN Serialize(r.type, r.change) ELSE <<>>
CfgOctets(r) ==
    IF r.direction = SEND_ATTR_REPORTS
    THEN <<r.type>> \o ZclWord(r.min) \o ZclWord(r.max) \o CfgChange(r)
    ELSE ZclWord(r.timeout)
CfgSize(r) ==
    IF r.direction = SEND_ATTR_REPORTS
    THEN 5 + IF AnalogDataType(r.type) THEN TypeLength(r.type) ELSE 0
    ELSE 2

ConfigReportOctets(r) == <<r.direction>> \o ZclWord(r.id) \o CfgOctets(r)
ConfigReportSize(r) == 3 + CfgSize(r)
ConfigReport(cmd) == ZclBuilt(Total(cmd, ConfigReportSize), All(cmd, ConfigReportOctets))

ConfigReportRspOctets(r) == <<r.status, r.direction>> \o ZclWord(r.id)
ConfigReportRsp(cmd) == Cut(cmd, ZclBuilt(4 * Len(cmd), All(cmd, ConfigReportRspOctets)))

ReadReportCfgOctets(r) == <<r.direction>> \o ZclWord(r.id)
ReadReportCfg(cmd) == ZclBuilt(3 * Len(cmd), All(cmd, ReadReportCfgOctets))

ReadReportCfgRspOctets(r) ==
    <<r.status, r.direction>> \o ZclWord(r.id) \o IF r.status = SUCCESS THEN CfgOctets(r) ELSE <<>>
ReadReportCfgRspSize(r) == 4 + IF r.status = SUCCESS THEN CfgSize(r) ELSE 0
ReadReportCfgRsp(cmd) == ZclBuilt(Total(cmd, ReadReportCfgRspSize), All(cmd, ReadReportCfgRspOctets))

DefaultRsp(cmd) == ZclBuilt(2, <<cmd.command, cmd.status>>)
Discover(cmd) == ZclBuilt(3, ZclWord(cmd.start) \o <<cmd.max>>)

DiscoverRspOctets(r) == ZclWord(r.id) \o <<r.type>>
DiscoverRsp(cmd) == ZclBuilt(1 + 3 * Len(cmd.attrs), <<cmd.complete>> \o All(cmd.attrs, DiscoverRspOctets))

-----------------------------------------------------------------------------
(* Reading.  A parser goes through the payload twice, first to count, then *)
(* to fill a block of that size.  `sizes' are those of the records on the  *)
(* 8051; `need' is what the second pass fills.                             *)

Unword(b, i) == b[i] + 256 * b[i + 1]
Rest(b, n) == SubSeq(b, n + 1, Len(b))
NoZcl == [cmd |-> <<>>, room |-> 0, need |-> 0]

\* The records of b, each read by Of(b) as [record, used, data: the octets copied].
Records(b, Of(_)) ==
    LET from[i \in 1 .. Len(b) + 1] ==
            IF i > Len(b) THEN <<>>
            ELSE LET r == Of(Rest(b, i - 1)) IN <<r>> \o from[i + r.used]
    IN  from[1]

\* The header of the block and the data behind it are both counted in 8 bits.
Parsed(b, size, Of(_)) ==
    LET rs == Records(b, Of)
        data == FoldSeq(LAMBDA r, n : n + Padded(r.data), 0, rs)
    IN  [cmd |-> [i \in DOMAIN rs |-> rs[i].record],
         room |-> ((1 + Len(rs) * size) % 256) + (data % 256),
         need |-> 1 + Len(rs) * size + data]

\* ... and when the records are counted by a division: what is left over is not read.
Counted(b, n, size, Of(_)) == Parsed(SubSeq(b, 1, n * (Len(b) \div n)), size, Of)

ReadRecord(b) == [record |-> Unword(b, 1), used |-> 2, data |-> 0]
ParseRead(b) == Counted(b, 2, 2, ReadRecord)

TypedRecord(b, at, record) ==
    LET t == b[at]
        n == AttrDataLength(t, Rest(b, at))
    IN  [record |-> record @@ [type |-> t, data |-> SubSeq(b, at + 1, at + n)],
         used |-> at + n, data |-> n]

ReadRspRecord(b) ==
    IF b[3] = SUCCESS
    THEN TypedRecord(b, 4, [id |-> Unword(b, 1), status |-> SUCCESS])
    ELSE [record |-> [id |-> Unword(b, 1), status |-> b[3]], used |-> 3, data |-> 0]
ParseReadRsp(b) == Parsed(b, 6, ReadRspRecord)

WriteRecord(b) == TypedRecord(b, 3, [id |-> Unword(b, 1)])
ParseWrite(b) == Parsed(b, 5, WriteRecord)
ParseReport(b) == Parsed(b, 5, WriteRecord)

\* One octet is a status for all: the id of the record stays as it was in the block.
WriteRspRecord(b) == [record |-> [status |-> b[1], id |-> Unword(b, 2)], used |-> 3, data |-> 0]
ParseWriteRsp(b) ==
    IF Len(b) = 1 THEN [cmd |-> <<[status |-> b[1], id |-> Junk]>>, room |-> 2, need |-> 2]
    ELSE Parsed(b, 3, WriteRspRecord)

\* zcl_BuildAnalogData has no case for 40 and 48 bits, and sets a double's first octet to 0.
AnalogData(t, b) ==
    CASE t \in {"UINT40", "UINT48"} -> Junks(TypeLength(t))
      [] t = "DOUBLE_PREC" -> <<0>> \o Junks(7)
      [] OTHER -> SubSeq(b, 1, TypeLength(t))

CfgRecord(b, at, record) ==
    IF record.direction = SEND_ATTR_REPORTS
    THEN LET t == b[at]
             n == IF AnalogDataType(t) THEN TypeLength(t) ELSE 0
         IN  [record |-> record @@ [type |-> t, min |-> Unword(b, at + 1), max |-> Unword(b, at + 3)]
                @@ IF n > 0 THEN [change |-> AnalogData(t, Rest(b, at + 4))] ELSE <<>>,
              used |-> at + 4 + n, data |-> n]
    ELSE [record |-> record @@ [timeout |-> Unword(b, at)], used |-> at + 1, data |-> 0]

ConfigReportRecord(b) == CfgRecord(b, 4, [direction |-> b[1], id |-> Unword(b, 2)])
ParseConfigReport(b) == Parsed(b, 12, ConfigReportRecord)

ConfigReportRspRecord(b) ==
    [record |-> [status |-> b[1], direction |-> b[2], id |-> Unword(b, 3)], used |-> 4, data |-> 0]
ParseConfigReportRsp(b) == Counted(b, 4, 4, ConfigReportRspRecord)

ReadReportCfgRecord(b) == [record |-> [direction |-> b[1], id |-> Unword(b, 2)], used |-> 3, data |-> 0]
ParseReadReportCfg(b) == Counted(b, 3, 3, ReadReportCfgRecord)

ReadReportCfgRspRecord(b) ==
    LET record == [status |-> b[1], direction |-> b[2], id |-> Unword(b, 3)]
    IN  IF b[1] = SUCCESS THEN CfgRecord(b, 5, record) ELSE [record |-> record, used |-> 4, data |-> 0]
ParseReadReportCfgRsp(b) == Parsed(b, 13, ReadReportCfgRspRecord)

ParseDefaultRsp(b) == [cmd |-> [command |-> b[1], status |-> b[2]], room |-> 2, need |-> 2]
ParseDisc(b) == [cmd |-> [start |-> Unword(b, 1), max |-> b[3]], room |-> 3, need |-> 3]

DiscRspRecord(b) == [record |-> [id |-> Unword(b, 1), type |-> b[3]], used |-> 3, data |-> 0]
ParseDiscRsp(b) ==
    LET p == Counted(Rest(b, 1), 3, 3, DiscRspRecord)
    IN  [p EXCEPT !.cmd = [complete |-> b[1], attrs |-> p.cmd]]

-----------------------------------------------------------------------------
(***************************************************************************)
(* The ZCL foundation (zcl.c) on two devices: a client that asks and a     *)
(* server with attributes, each running the same zclProcessMessageMSG on   *)
(* what arrives, with the application tasks behind it.  The frames are     *)
(* those of ZclFrames.                                                     *)
(*                                                                         *)
(* AF delivers each frame once and in order.  The application registered   *)
(* for the foundation's messages answers what concerns reports; a plugin   *)
(* handles a cluster's own commands and returns a status.                  *)
(***************************************************************************)

CONSTANTS
    Lists,              \* zcl_registerAttrList on the server: [ep, recs]; a rec is
                        \* [cluster, id, type, write, value]
    Options,            \* zcl_registerClusterOptionList, on both: cluster -> AF_EN_SECURITY or not
    Plugins,            \* zcl_registerPlugin: [first, last], in the order of registration
    ZclRequests,        \* what the client sends: see SendCommand
    Reports,            \* what the server's application answers: command -> bodies
    MaxZclRequests,     \* bound: of them
    MaxTrouble          \* bound: allocations that fail

Commands == <<"READ", "READ_RSP", "WRITE", "WRITE_UNDIVIDED", "WRITE_RSP", "WRITE_NO_RSP",
              "CONFIG_REPORT", "CONFIG_REPORT_RSP", "READ_REPORT_CFG", "READ_REPORT_CFG_RSP",
              "REPORT", "DEFAULT_RSP", "DISCOVER", "DISCOVER_RSP">>
IDENTIFY == 3
BASIC == 0
DEVICE_ENABLED == 18        \* the id of the attribute
Bad == 99                   \* a value the application's zcl_ValidateAttrDataCB refuses

VARIABLES
    attrValues,         \* the server's attributes: <<list, index>> -> octets
    zclAir,             \* frames on their way
    zclTold,            \* of each device: messages of zclSendMsg at the application
    blocks,             \* of each device: parsed commands allocated and not freed
    zclAsked,           \* the request that is served, or NoRequest
    before,             \* history: attrValues when it was sent
    answers,            \* history: what the client's application was told
    zclStarved,         \* history: an allocation failed
    found,              \* the client's discovery: attributes found, and whether all are
    asksLeft, trouble

zclVars == <<attrValues, zclAir, zclTold, blocks, zclAsked, before, answers, zclStarved, found, asksLeft, trouble>>
NoRequest == [command |-> "none"]
ZclNodes == {"client", "server"}
Other(n) == IF n = "client" THEN "server" ELSE "client"
Attrs == UNION {{<<l, x>> : x \in DOMAIN Lists[l].recs} : l \in DOMAIN Lists}
Rec(a) == Lists[a[1]].recs[a[2]]

ZclInit ==
    /\ attrValues = [a \in Attrs |-> Rec(a).value]
    /\ before = attrValues
    /\ zclAir = <<>> /\ zclTold = [n \in ZclNodes |-> <<>>] /\ blocks = [n \in ZclNodes |-> 0]
    /\ zclAsked = NoRequest /\ answers = <<>> /\ zclStarved = FALSE
    /\ found = [ids |-> <<>>, start |-> 0, complete |-> FALSE]
    /\ asksLeft = MaxZclRequests /\ trouble = MaxTrouble

-----------------------------------------------------------------------------
(* Attributes                                                              *)

NoAttr == <<0, 0>>
ZclAt(n, ep, cluster) ==
    {a \in Attrs : n = "server" /\ Lists[a[1]].ep = ep /\ Rec(a).cluster = cluster}
Earlier(a, b) == a[1] < b[1] \/ (a[1] = b[1] /\ a[2] <= b[2])
First(as) == IF as = {} THEN NoAttr ELSE CHOOSE a \in as : \A b \in as : Earlier(a, b)

FindAttrRec(n, ep, cluster, id) == First({a \in ZclAt(n, ep, cluster) : Rec(a).id = id})

\* The first that is not before id: in the order of the lists, not of the ids.
FindNextAttrRec(n, ep, cluster, id) == First({a \in ZclAt(n, ep, cluster) : Rec(a).id >= id})

\* zclWriteAttrData, into the attribute a of d.
WriteAttrData(d, a, new) ==
    IF ~Rec(a).write THEN [status |-> READ_ONLY, data |-> d]
    ELSE IF new[1] = Bad THEN [status |-> INVALID_VALUE, data |-> d]
    ELSE [status |-> SUCCESS, data |-> [d EXCEPT ![a] = SubSeq(new, 1, AttrDataLength(Rec(a).type, new))]]

\* zcl_DeviceOperational: the disabled device still reads and writes, and identifies.
DeviceOperational(n, d, ep, cluster, type, command) ==
    LET a == FindAttrRec(n, ep, BASIC, DEVICE_ENABLED)
    IN  \/ type = 0 /\ command <= 5
        \/ cluster = IDENTIFY
        \/ a = NoAttr
        \/ d[a] = <<1>>

GetClusterOption(n, cluster) == cluster \in DOMAIN Options /\ Options[cluster]
FindPlugin(cluster) == {p \in Plugins : cluster >= p.first /\ cluster <= p.last}

-----------------------------------------------------------------------------
(* Sending                                                                 *)

CommandId(c) == CHOOSE i \in DOMAIN Commands : Commands[i] = c

Payload(c, body) ==
    CASE c = "READ" -> Read(body)
      [] c = "READ_RSP" -> ReadRsp(body)
      [] c \in {"WRITE", "WRITE_UNDIVIDED", "WRITE_NO_RSP"} -> WriteRequest(body)
      [] c = "WRITE_RSP" -> WriteRsp(body)
      [] c = "CONFIG_REPORT" -> ConfigReport(body)
      [] c = "CONFIG_REPORT_RSP" -> ConfigReportRsp(body)
      [] c = "READ_REPORT_CFG" -> ReadReportCfg(body)
      [] c = "READ_REPORT_CFG_RSP" -> ReadReportCfgRsp(body)
      [] c = "REPORT" -> Report(body)
      [] c = "DEFAULT_RSP" -> DefaultRsp(body)
      [] c = "DISCOVER" -> Discover(body)
      [] c = "DISCOVER_RSP" -> DiscoverRsp(body)
      [] OTHER -> ZclBuilt(0, <<>>)

Framed(n, m, header, payload) ==
    <<[to |-> Other(n), ep |-> m.ep, cluster |-> m.cluster, unicast |-> m.unicast,
       secured |-> m.secured, said |-> m, payload |-> payload,
       header |-> header, octets |-> header \o payload.octets]>>

\* zcl_SendCommand: the frame n sends, if it sends one.  m: [command, body, ep, cluster,
\* specific, direction, disable, manu, seq]; a command outside the table is its number.
SendCommand(n, d, m) ==
    LET command == IF m.command \in {Commands[i] : i \in DOMAIN Commands}
                   THEN CommandId(m.command) - 1 ELSE 32
        hdr == [type |-> m.specific, manuSpecific |-> IF m.manu # 0 THEN 1 ELSE 0, manuCode |-> m.manu,
                direction |-> m.direction, disableDefaultRsp |-> m.disable, seq |-> m.seq,
                command |-> command]
    IN  IF ~DeviceOperational(n, d, m.ep, m.cluster, m.specific, command) THEN <<>>
        ELSE Framed(n, m, BuildHdr(hdr), Payload(m.command, m.body))

\* The foundation's own answers go from server to client and want no default response.
Answer(n, d, p, hdr, command, body) ==
    SendCommand(n, d,
        [command |-> command, body |-> body, ep |-> p.ep, cluster |-> p.cluster, specific |-> 0,
         direction |-> 1, disable |-> 1, manu |-> 0, seq |-> hdr.seq, unicast |-> TRUE,
         secured |-> GetClusterOption(n, p.cluster)])

\* zcl_SendDefaultRspCmd, with the sender's manufacturer code.
DefaultAnswer(n, d, p, hdr, status, secured) ==
    SendCommand(n, d,
        [command |-> "DEFAULT_RSP", body |-> [command |-> hdr.command, status |-> status],
         ep |-> p.ep, cluster |-> p.cluster, specific |-> 0, direction |-> 1, disable |-> 1,
         manu |-> hdr.manuCode, seq |-> hdr.seq, unicast |-> TRUE, secured |-> secured])

-----------------------------------------------------------------------------
(* What the foundation does with a command: the attributes it leaves and   *)
(* the frame it sends.                                                     *)

ProcessInReadCmd(n, d, p, hdr, ids) ==
    LET record(id) ==
            LET a == FindAttrRec(n, p.ep, p.cluster, id)
            IN  IF a = NoAttr THEN [id |-> id, status |-> UNSUPPORTED_ATTRIBUTE]
                ELSE [id |-> id, status |-> SUCCESS, type |-> Rec(a).type, data |-> d[a]]
    IN  [data |-> d,
         sent |-> Answer(n, d, p, hdr, "READ_RSP", [i \in DOMAIN ids |-> record(ids[i])])]

\* What one record of a write does.
WriteOne(n, d, p, r) ==
    LET a == FindAttrRec(n, p.ep, p.cluster, r.id)
    IN  IF a = NoAttr THEN [status |-> UNSUPPORTED_ATTRIBUTE, data |-> d]
        ELSE IF Rec(a).type # r.type THEN [status |-> INVALID_DATA_TYPE, data |-> d]
        ELSE WriteAttrData(d, a, r.data)

OrSuccess(failed) == IF failed = <<>> THEN <<[status |-> SUCCESS, id |-> Junk]>> ELSE failed

\* Mutant: a record that is refused ends the command.
WriteAllUntilRefused(n, d, p, records) ==
    FoldLeft(LAMBDA s, r :
                LET w == WriteOne(n, s.data, p, r)
                IN  IF s.failed # <<>> THEN s
                    ELSE [data |-> w.data,
                          failed |-> IF w.status = SUCCESS THEN <<>>
                                     ELSE <<[status |-> w.status, id |-> r.id]>>],
             [data |-> d, failed |-> <<>>], records)

WriteAll(n, d, p, records) ==
    FoldLeft(LAMBDA s, r :
                LET w == WriteOne(n, s.data, p, r)
                IN  [data |-> w.data,
                     failed |-> IF w.status = SUCCESS THEN s.failed
                                ELSE Append(s.failed, [status |-> w.status, id |-> r.id])],
             [data |-> d, failed |-> <<>>], records)

ProcessInWriteCmd(n, d, p, hdr, records) ==
    LET done == WriteAll(n, d, p, records)
    IN  [data |-> done.data,
         sent |-> IF Commands[hdr.command + 1] = "WRITE"
                  THEN Answer(n, d, p, hdr, "WRITE_RSP", OrSuccess(done.failed)) ELSE <<>>]

\* Write undivided.  The old values are kept for a revert in a block of records (id, type,
\* pointer, five octets each) with the values behind them; the values' place is computed
\* before the records are counted, so that they lie at the records' own place.
RecordSize == 5
SavedAt(records, i) ==
    FoldSeq(LAMBDA r, k : k + Padded(AttrDataLength(r.type, r.data)), 0, SubSeq(records, 1, i - 1))
Pointer(k) == <<k, 255>>
Put(mem, at, octets) ==
    [k \in DOMAIN mem |-> IF k - at + 1 \in DOMAIN octets THEN octets[k - at + 1] ELSE mem[k]]

\* The i-th value is saved: its id, the value, the pointer, in this order.
Save(mem, d, a, records, i) ==
    LET at == SavedAt(records, i)
    IN  Put(Put(Put(mem, RecordSize * (i - 1), ZclWord(records[i].id)), at, d[a]),
            RecordSize * (i - 1) + 3, Pointer(at))

\* zclRevertWriteUndividedCmd: stops at the first id that is no attribute's.  What is
\* behind a pointer that is none is anything.
RECURSIVE Revert(_, _, _, _, _, _)
Revert(n, d, p, mem, i, k) ==
    LET b == RecordSize * (i - 1)
        a == FindAttrRec(n, p.ep, p.cluster, mem[b] + 256 * mem[b + 1])
        old == IF mem[b + 4] = 255
               THEN [j \in 1 .. AttrDataLength(Rec(a).type, <<mem[mem[b + 3]]>>) |->
                        mem[mem[b + 3] + j - 1]]
               ELSE Junks(TypeLength(Rec(a).type))
    IN  IF i > k \/ a = NoAttr THEN d ELSE Revert(n, [d EXCEPT ![a] = old], p, mem, i + 1, k)

\* The second pass, from record i on.
RECURSIVE WriteFrom(_, _, _, _, _, _)
WriteFrom(n, d, p, records, mem, i) ==
    IF i > Len(records) THEN [data |-> d, failed |-> <<>>]
    ELSE LET r == records[i]
             a == FindAttrRec(n, p.ep, p.cluster, r.id)
             saved == Save(mem, d, a, records, i)
             w == WriteAttrData(d, a, r.data)
         IN  IF w.status = SUCCESS THEN WriteFrom(n, w.data, p, records, saved, i + 1)
             ELSE [data |-> Revert(n, d, p, saved, 1, i - 1),
                   failed |-> <<[status |-> w.status, id |-> r.id]>>]

\* The first pass looks at everything but the validation.
Refusal(n, p, r) ==
    LET a == FindAttrRec(n, p.ep, p.cluster, r.id)
    IN  CASE a = NoAttr -> UNSUPPORTED_ATTRIBUTE
          [] a # NoAttr /\ Rec(a).type # r.type -> INVALID_DATA_TYPE
          [] a # NoAttr /\ Rec(a).type = r.type /\ ~Rec(a).write -> READ_ONLY
          [] OTHER -> SUCCESS

ProcessInWriteUndividedCmd(n, d, p, hdr, records) ==
    LET refused == {i \in DOMAIN records : Refusal(n, p, records[i]) # SUCCESS}
        first == CHOOSE i \in refused : \A j \in refused : i <= j
        answered(done) ==
            [data |-> done.data, sent |-> Answer(n, d, p, hdr, "WRITE_RSP", OrSuccess(done.failed))]
    IN  answered(IF refused # {}
                 THEN [data |-> d, failed |-> <<[status |-> Refusal(n, p, records[first]),
                                                 id |-> records[first].id]>>]
                 ELSE WriteFrom(n, d, p, records, [k \in 0 .. 300 |-> Junk], 1))

\* The ids of up to k attributes from id on, and the id to go on from.
RECURSIVE Discovered(_, _, _, _)
Discovered(n, p, id, k) ==
    LET a == FindNextAttrRec(n, p.ep, p.cluster, id)
    IN  IF k = 0 \/ a = NoAttr THEN [attrs |-> <<>>, next |-> id]
        ELSE LET rest == Discovered(n, p, (Rec(a).id + 1) % 65536, k - 1)
             IN  [attrs |-> <<[id |-> Rec(a).id, type |-> Rec(a).type]>> \o rest.attrs,
                  next |-> rest.next]

\* Mutant: the last attribute of a page is looked for again.
NoneAfterLast(n, p, page) == FindNextAttrRec(n, p.ep, p.cluster, page.next + 1) = NoAttr

NoneAfter(n, p, page) == FindNextAttrRec(n, p.ep, p.cluster, page.next) = NoAttr

DiscoverRspOf(n, p, page) ==
    [complete |-> IF page.attrs = <<>> \/ NoneAfter(n, p, page) THEN 1 ELSE 0, attrs |-> page.attrs]

ProcessInDiscCmd(n, d, p, hdr, cmd) ==
    [data |-> d,
     sent |-> Answer(n, d, p, hdr, "DISCOVER_RSP",
                     DiscoverRspOf(n, p, Discovered(n, p, cmd.start, cmd.max)))]

-----------------------------------------------------------------------------
(* Receiving                                                               *)

ParseIn(c, b) ==
    CASE c = "READ" -> ParseRead(b)
      [] c = "READ_RSP" -> ParseReadRsp(b)
      [] c \in {"WRITE", "WRITE_UNDIVIDED", "WRITE_NO_RSP"} -> ParseWrite(b)
      [] c = "WRITE_RSP" -> ParseWriteRsp(b)
      [] c = "CONFIG_REPORT" -> ParseConfigReport(b)
      [] c = "CONFIG_REPORT_RSP" -> ParseConfigReportRsp(b)
      [] c = "READ_REPORT_CFG" -> ParseReadReportCfg(b)
      [] c = "READ_REPORT_CFG_RSP" -> ParseReadReportCfgRsp(b)
      [] c = "REPORT" -> ParseReport(b)
      [] c = "DEFAULT_RSP" -> ParseDefaultRsp(b)
      [] c = "DISCOVER" -> ParseDisc(b)
      [] c = "DISCOVER_RSP" -> ParseDiscRsp(b)

\* Mutant: WRITE_UNDIVIDED is forgotten.
CmdHasRspShort(c) ==
    c \in {"READ", "WRITE", "CONFIG_REPORT", "READ_REPORT_CFG", "DISCOVER", "DEFAULT_RSP"}

CmdHasRsp(c) ==
    c \in {"READ", "WRITE", "WRITE_UNDIVIDED", "CONFIG_REPORT", "READ_REPORT_CFG", "DISCOVER",
           "DEFAULT_RSP"}

\* What is done with a command of the table once it is parsed.  The result: the
\* attributes, the frames sent, and the message for the application.
Processed(n, p, hdr, cmd) ==
    LET c == Commands[hdr.command + 1]
        only(r) == [data |-> r.data, sent |-> r.sent, msg |-> <<>>]
    IN  CASE c = "READ" -> only(ProcessInReadCmd(n, attrValues, p, hdr, cmd))
          [] c \in {"WRITE", "WRITE_NO_RSP"} -> only(ProcessInWriteCmd(n, attrValues, p, hdr, cmd))
          [] c = "WRITE_UNDIVIDED" -> only(ProcessInWriteUndividedCmd(n, attrValues, p, hdr, cmd))
          [] c = "DISCOVER" -> only(ProcessInDiscCmd(n, attrValues, p, hdr, cmd))
          [] OTHER -> [data |-> attrValues, sent |-> <<>>,         \* zclSendMsg
                       msg |-> <<[command |-> c, cmd |-> cmd, ep |-> p.ep, cluster |-> p.cluster,
                                  seq |-> hdr.seq]>>]

NothingDone == [data |-> attrValues, sent |-> <<>>, msg |-> <<>>]

\* The default response that ends zclProcessMessageMSG.
Concluded(n, p, hdr, r, status) ==
    [r EXCEPT !.sent = @ \o
        IF p.unicast /\ hdr.disableDefaultRsp = 0
        THEN DefaultAnswer(n, r.data, p, hdr, status, GetClusterOption(n, p.cluster)) ELSE <<>>]

Ended(n, p, hdr, c, r) == IF CmdHasRsp(c) THEN r ELSE Concluded(n, p, hdr, r, SUCCESS)

\* A frame of the foundation; oom: which allocation fails, if one does.
Foundation(n, p, hdr, oom) ==
    LET c == Commands[hdr.command + 1]
        cmd == ParseIn(c, SubSeq(p.octets, hdr.size + 1, Len(p.octets))).cmd
    IN  CASE hdr.manuSpecific = 1 -> Concluded(n, p, hdr, NothingDone, UNSUP_MANU_GENERAL_COMMAND)
          [] hdr.manuSpecific = 0 /\ hdr.command >= Len(Commands)
                -> Concluded(n, p, hdr, NothingDone, UNSUP_GENERAL_COMMAND)
          [] OTHER -> Ended(n, p, hdr, c,
                            IF oom # "none" THEN NothingDone ELSE Processed(n, p, hdr, cmd))

\* A frame of the cluster's own: the plugin returns a status, or has answered itself.
ClusterSpecific(n, p, hdr, plugin) ==
    LET status == IF FindPlugin(p.cluster) = {} THEN FAILURE ELSE plugin
        unsup == IF hdr.manuSpecific = 1 THEN UNSUP_MANU_CLUSTER_COMMAND ELSE UNSUP_CLUSTER_COMMAND
    IN  IF status = CMD_HAS_RSP
        THEN [NothingDone EXCEPT !.sent = DefaultAnswer(n, attrValues, p, hdr, SUCCESS, GetClusterOption(n, p.cluster))]
        ELSE Concluded(n, p, hdr, NothingDone, IF status = FAILURE THEN unsup ELSE status)

\* Security that is not what the cluster's option says: refused without the security.
WrongSecurity(n, p, hdr) ==
    /\ p.secured # GetClusterOption(n, p.cluster)
    /\ ~(hdr.type = 0 /\ hdr.manuSpecific = 0 /\ Commands[hdr.command + 1] = "DEFAULT_RSP")

Handled(n, p, oom, plugin) ==
    LET hdr == ParseHdr(p.octets)
    IN  IF ~DeviceOperational(n, attrValues, p.ep, p.cluster, hdr.type, hdr.command) THEN NothingDone
        ELSE IF WrongSecurity(n, p, hdr)
        THEN [NothingDone EXCEPT !.sent =
                IF p.unicast THEN DefaultAnswer(n, attrValues, p, hdr, FAILURE, FALSE) ELSE <<>>]
        ELSE IF hdr.type = 0 THEN Foundation(n, p, hdr, oom)
        ELSE ClusterSpecific(n, p, hdr, plugin)

\* zclProcessMessageMSG.  The parsed command is freed, unless the application got it.
ProcessMessageMSG(n, oom, plugin) ==
    LET p == Head(zclAir)
    IN  /\ zclAir # <<>> /\ p.to = n
        /\ oom # "none" => trouble > 0
        /\ \E r \in {Handled(n, p, oom, plugin)} :
            /\ zclAir' = Tail(zclAir) \o r.sent
            /\ attrValues' = r.data
            /\ zclTold' = [zclTold EXCEPT ![n] = @ \o r.msg]
            /\ blocks' = [blocks EXCEPT ![n] = @ + Len(r.msg)]
        /\ IF oom = "none" THEN UNCHANGED <<trouble, zclStarved>> ELSE trouble' = trouble - 1 /\ zclStarved' = TRUE
        /\ UNCHANGED <<zclAsked, before, answers, found, asksLeft>>

-----------------------------------------------------------------------------
(* The applications                                                        *)

Frame(r) == SendCommand("client", attrValues, r)

ZclAsk(r) ==
    /\ zclAsked = NoRequest /\ asksLeft > 0
    /\ asksLeft' = asksLeft - 1
    /\ zclAsked' = r /\ before' = attrValues /\ answers' = <<>> /\ zclStarved' = FALSE
    /\ zclAir' = Frame(r)
    /\ UNCHANGED <<attrValues, zclTold, blocks, found, trouble>>

\* The discovery of a cluster, one page after the other.
AskNext(cluster, max) ==
    /\ zclAsked = NoRequest /\ asksLeft > 0 /\ ~found.complete
    /\ LET r == [command |-> "DISCOVER", body |-> [start |-> found.start, max |-> max], ep |-> 1,
                 cluster |-> cluster, specific |-> 0, direction |-> 0, disable |-> 0, manu |-> 0,
                 seq |-> 1, unicast |-> TRUE, secured |-> FALSE]
       IN  zclAsked' = r /\ zclAir' = Frame(r)
    /\ before' = attrValues /\ answers' = <<>> /\ zclStarved' = FALSE
    /\ UNCHANGED <<attrValues, zclTold, blocks, found, asksLeft, trouble>>

\* The server's application answers what it is told of reports.
AppAnswer(body) ==
    LET m == Head(zclTold["server"])
        rsp == IF m.command = "CONFIG_REPORT" THEN "CONFIG_REPORT_RSP" ELSE "READ_REPORT_CFG_RSP"
    IN  /\ zclTold["server"] # <<>>
        /\ m.command \in DOMAIN Reports => body \in Reports[m.command]
        /\ zclTold' = [zclTold EXCEPT !["server"] = Tail(@)]
        /\ blocks' = [blocks EXCEPT !["server"] = @ - 1]
        /\ zclAir' = zclAir \o IF m.command \in DOMAIN Reports
                               THEN Answer("server", attrValues, m, [seq |-> m.seq], rsp, body) ELSE <<>>
        /\ UNCHANGED <<attrValues, zclAsked, before, answers, zclStarved, found, asksLeft, trouble>>

\* The client's application.
Discovery(cmd) ==
    [ids |-> found.ids \o [i \in DOMAIN cmd.attrs |-> cmd.attrs[i].id],
     start |-> IF cmd.attrs = <<>> THEN found.start ELSE cmd.attrs[Len(cmd.attrs)].id + 1,
     complete |-> cmd.complete = 1]

ClientTold ==
    LET m == Head(zclTold["client"])
    IN  /\ zclTold["client"] # <<>>
        /\ zclTold' = [zclTold EXCEPT !["client"] = Tail(@)]
        /\ blocks' = [blocks EXCEPT !["client"] = @ - 1]
        /\ answers' = Append(answers, m)
        /\ found' = IF m.command = "DISCOVER_RSP" /\ zclAsked.body.max > 0 THEN Discovery(m.cmd) ELSE found
        /\ UNCHANGED <<attrValues, zclAir, zclAsked, before, zclStarved, asksLeft, trouble>>

ZclQuiet == zclAir = <<>> /\ \A n \in ZclNodes : zclTold[n] = <<>>

\* The client is done with its request.
Finish ==
    /\ zclAsked # NoRequest /\ ZclQuiet
    /\ zclAsked' = NoRequest
    /\ answers' = <<>> /\ before' = attrValues
    /\ UNCHANGED <<attrValues, zclAir, zclTold, blocks, zclStarved, found, asksLeft, trouble>>

ZclNext ==
    \/ \E r \in ZclRequests : ZclAsk(r)
    \/ \E max \in 1 .. 3 : AskNext(6, max)
    \/ \E n \in ZclNodes, oom \in {"none", "alloc"}, s \in {SUCCESS, FAILURE, INVALID_FIELD, CMD_HAS_RSP} :
            ProcessMessageMSG(n, oom, s)
    \/ \E body \in UNION {Reports[c] : c \in DOMAIN Reports} : AppAnswer(body)
    \/ ClientTold
    \/ Finish

ZclSpec == ZclInit /\ [][ZclNext]_zclVars

-----------------------------------------------------------------------------
(* Properties                                                              *)

TypeOK ==
    /\ \A a \in Attrs : Len(attrValues[a]) = AttrDataLength(Rec(a).type, attrValues[a])
    /\ blocks \in [ZclNodes -> Nat]
    /\ asksLeft \in 0 .. MaxZclRequests /\ trouble \in 0 .. MaxTrouble

Succeeded(body) == \A i \in DOMAIN body : body[i].status = SUCCESS
SameWords(c, said, heard) ==
    IF c \in {"WRITE_RSP", "CONFIG_REPORT_RSP"} /\ Succeeded(said) THEN Succeeded(heard) ELSE heard = said

\* Every frame of the foundation says to its reader what its writer was asked to say, in
\* as many octets as its writer allocated, and its reader's block holds what is read into
\* it: the two lengths are counted by loops of their own (zcl.c:749, 2287, and so on).
ZclUnderstood ==
    /\ TypeOK
    /\ \A i \in DOMAIN zclAir :
        LET f == zclAir[i]
            hdr == ParseHdr(f.octets)
            heard == ParseIn(f.said.command, SubSeq(f.octets, hdr.size + 1, Len(f.octets)))
        IN  /\ hdr.type = f.said.specific /\ hdr.direction = f.said.direction
            /\ hdr.disableDefaultRsp = f.said.disable /\ hdr.manuCode = f.said.manu
            /\ hdr.seq = f.said.seq /\ hdr.size = Len(f.header)
            /\ f.payload.len = Len(f.payload.octets) /\ f.payload.room >= f.payload.len
            /\ hdr.type = 0 /\ hdr.command < Len(Commands)
                => /\ Commands[hdr.command + 1] = f.said.command
                   /\ SameWords(f.said.command, f.said.body, heard.cmd)
                   /\ heard.room >= heard.need

Enabled(d) == DeviceOperational("server", d, 1, BASIC, 1, 0)
MustAnswer(r) == r.command \in {"READ", "WRITE", "WRITE_UNDIVIDED", "DISCOVER", "CONFIG_REPORT",
                                 "READ_REPORT_CFG"}
MayBeSilent(r) == r.command = "DEFAULT_RSP" \/ ~r.unicast \/ (r.disable = 1 /\ ~MustAnswer(r))

\* When the exchange is over the client has one answer to what it asked, never two, and
\* none only where the command asks for none, an allocation failed or the device is
\* disabled; a disabled device still answers reads and writes, so that it can be enabled
\* again (zcl.c:551-574).  A parsed command is freed by the foundation or owned by the
\* message at the application, never both (zcl.c:1525-1545).
ZclAnswered ==
    /\ zclAsked # NoRequest /\ ZclQuiet
           => /\ Len(answers) <= 1
              /\ ~zclStarved /\ ~MayBeSilent(zclAsked) /\ zclAsked.manu = 0
                 /\ (Enabled(before) \/ zclAsked.command \in {"READ", "WRITE", "WRITE_UNDIVIDED"})
                 /\ ((Enabled(attrValues) /\ zclAsked.secured = GetClusterOption("server", zclAsked.cluster))
                       \/ zclAsked.command \in {"READ", "WRITE"})
                 /\ (Enabled(attrValues) \/ zclAsked.secured = GetClusterOption("server", zclAsked.cluster))
               => Len(answers) = 1
    /\ \A n \in ZclNodes : blocks[n] = Len(zclTold[n])

ZclRefused(r) ==
    \E i \in DOMAIN answers[1].cmd :
        answers[1].cmd[i].status # SUCCESS /\ answers[1].cmd[i].id = r.id
Holds(r) ==
    \E a \in Attrs : /\ Lists[a[1]].ep = zclAsked.ep /\ Rec(a).cluster = zclAsked.cluster /\ Rec(a).id = r.id
                     /\ attrValues[a] = r.data
Untouched(a) ==
    \/ attrValues[a] = before[a]
    \/ \E i \in DOMAIN zclAsked.body : Rec(a).cluster = zclAsked.cluster /\ zclAsked.body[i].id = Rec(a).id
                                   /\ ~ZclRefused(zclAsked.body[i])

\* The answer to a write tells the truth: a record that is not reported as refused was
\* written, and one that is reported, or was not in the command, was not.  An undivided
\* write that one attribute's type or access refuses writes none (zcl.c:3028-3107,
\* 3176-3213).
WritesTold ==
    /\ zclAsked.command = "WRITE" /\ answers # <<>> /\ answers[1].command = "WRITE_RSP"
           => /\ \A i \in DOMAIN zclAsked.body : ZclRefused(zclAsked.body[i]) \/ Holds(zclAsked.body[i])
              /\ \A a \in Attrs : Untouched(a)
    /\ zclAsked.command = "WRITE_UNDIVIDED" /\ ZclQuiet
       /\ (\E i \in DOMAIN zclAsked.body : Refusal("server", zclAsked, zclAsked.body[i]) # SUCCESS)
        => attrValues = before

\* A client that asks for a cluster's attributes page by page, from the one after the last
\* it was told of, has each of them once when it is told that there are no more, however
\* they are spread over the endpoint's lists (zcl.c:1866-1894, 3295-3343).
DiscoveryComplete ==
    LET ids == {Rec(a).id : a \in ZclAt("server", 1, 6)}
    IN  /\ Len(found.ids) = Cardinality(ToSet(found.ids))
        /\ found.complete => ToSet(found.ids) = ids

\* "If any attribute cannot be written, no attribute values are changed" (zcl.c:3174-3175).
UndividedAllOrNone ==
    zclAsked.command = "WRITE_UNDIVIDED" /\ answers # <<>> /\ answers[1].cmd[1].status # SUCCESS
        => attrValues = before
=============================================================================
