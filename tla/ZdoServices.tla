---------------------------- MODULE ZdoServices ----------------------------
(***************************************************************************)
(* The device and service discovery of the ZigBee device objects, end to   *)
(* end: a client builds a request (ZDProfile.c), a router takes it apart   *)
(* and serves it from its tables (ZDObject.c), the client takes the answer *)
(* apart.  The tables longer than a frame are read page by page, each      *)
(* request naming the index to start at; the walk itself is the client     *)
(* application's and follows the fields of the answers.                    *)
(*                                                                         *)
(* osal_mem_alloc may return NULL whenever a handler or a parser asks.     *)
(***************************************************************************)
EXTENDS ZdpFrames, FiniteSets

CONSTANTS Nodes,      \* the routers to try: records of tables, one is chosen at the start
          Requests,   \* what the client may ask, each a message of ZdpFrames with its kind
          MaxBinds    \* gNWK_MAX_BINDING_ENTRIES

ZDO_MAX_LQI_ITEMS == 2
ZDO_MAX_NWKDISC_ITEMS == 5
ZDO_MAX_RTG_ITEMS == 10
ZDO_MAX_BIND_ITEMS == 3
ZDP_MGMT_BOOL_UNKNOWN == 2
MAX_ENDPOINTS == 240

VARIABLES node,     \* the router's tables
          told,     \* what serving the request told other parts of the stack
          asked,    \* the client's request, as the client means it
          wire,     \* the frame in the air
          seen,     \* what the router made of the request
          said,     \* what the router meant by its answer
          answer,   \* what the client made of the answer
          walk,     \* the table being read: its kind and the entries so far
          scan,     \* zdappMgmtNwkDiscStartIndex while a scan is under way
          starved   \* osal_mem_alloc has returned NULL since the request was sent

vars == <<node, told, asked, wire, seen, said, answer, walk, scan, starved>>

NoMsg == [kind |-> "none"]
Quiet == [to |-> "none", kind |-> "none", frame |-> NotBuilt]
NoWalk == [kind |-> "none", got |-> <<>>, done |-> FALSE]
Tables == {"Mgmt_Lqi", "Mgmt_Rtg", "Mgmt_Bind", "Mgmt_NWK_Disc"}

Init ==
  /\ node \in Nodes /\ told = {}
  /\ asked = NoMsg /\ wire = Quiet /\ seen = NoMsg /\ said = NoMsg /\ answer = NoMsg
  /\ walk = NoWalk /\ scan = {} /\ starved = FALSE

(* The octets that arrive: as many as the length that was handed over.     *)
Asdu(frame) == [i \in 1..frame.len |-> IF i <= Len(frame.octets) THEN frame.octets[i] ELSE Beyond]
With(r, s) == [f \in DOMAIN r \cup DOMAIN s |-> IF f \in DOMAIN r THEN r[f] ELSE s[f]]

----------------------------------------------------------------------------
(* The client asks.                                                        *)

Request(q) ==
  CASE q.kind \in {"Node_Desc", "Power_Desc", "Active_EP", "User_Desc"} -> NWKAddrOfInterestReq(q)
    [] q.kind = "NWK_addr" -> NwkAddrReq(q)
    [] q.kind = "IEEE_addr" -> IEEEAddrReq(q)
    [] q.kind = "Match_Desc" -> MatchDescReq(q)
    [] q.kind = "Simple_Desc" -> SimpleDescReq(q)
    [] q.kind = "User_Desc_set" -> UserDescSet(q)
    [] q.kind = "Server_Discovery" -> ServerDiscReq(q)
    [] q.kind = "Device_annce" -> DeviceAnnce(q)
    [] q.kind = "End_Device_Bind" -> EndDeviceBindReq(q)
    [] q.kind \in {"Bind", "Unbind"} -> BindUnbindReq(q)
    [] q.kind = "Mgmt_NWK_Disc" -> MgmtNwkDiscReq(q)
    [] q.kind \in {"Mgmt_Lqi", "Mgmt_Rtg", "Mgmt_Bind"} -> SendData(<<q.start>>)
    [] q.kind = "Mgmt_Direct_Join" -> MgmtDirectJoinReq(q)
    [] q.kind = "Mgmt_Leave" -> MgmtLeaveReq(q)
    [] q.kind = "Mgmt_Permit_Join" -> MgmtPermitJoinReq(q)
    [] q.kind = "Mgmt_NWK_Update" -> MgmtNwkUpdateReq(q)

(* Nothing is in the air and nothing is left of the last exchange. *)
Idle == wire = Quiet /\ scan = {} /\ asked = NoMsg

(* A table is asked for from the first entry that is not known yet.        *)
Ask(q) ==
  LET goesOn == q.kind = walk.kind
      m == IF q.kind \in Tables
           THEN [q EXCEPT !.start = IF goesOn THEN Len(walk.got) ELSE 0] ELSE q
      frame == Request(m)
  IN /\ Idle /\ frame.len > 0
     /\ asked' = m
     /\ wire' = [to |-> "router", kind |-> q.kind, frame |-> frame]
     /\ walk' = IF goesOn THEN walk
                ELSE IF q.kind \in Tables THEN [kind |-> q.kind, got |-> <<>>, done |-> FALSE]
                ELSE NoWalk
     /\ UNCHANGED <<node, told, seen, said, answer, scan, starved>>

(* The exchange is over, answered or not, and so is what it held.          *)
Forget ==
  /\ wire.to = "none" /\ scan = {} /\ asked # NoMsg
  /\ wire' = Quiet /\ asked' = NoMsg /\ seen' = NoMsg /\ said' = NoMsg /\ answer' = NoMsg
  /\ told' = {} /\ starved' = FALSE
  /\ walk' = IF walk.done THEN NoWalk ELSE walk
  /\ UNCHANGED <<node, scan>>

----------------------------------------------------------------------------
(* The router serves: ZDP_IncomingData finds the handler by the cluster.   *)

Arrives(kinds) == wire.to = "router" /\ wire.kind \in kinds
M == Asdu(wire.frame)

Reads(r) == seen' = r
Replies(frame, s) ==
  /\ wire' = IF frame.len = 0 THEN Quiet ELSE [to |-> "client", kind |-> wire.kind, frame |-> frame]
  /\ said' = s
Silent == wire' = Quiet /\ said' = NoMsg
Served == UNCHANGED <<asked, answer, walk>>
Untold == UNCHANGED told


Short(a) == SelectSeq(node.assoc, LAMBDA d : d.addr = a)
Extended(e) == SelectSeq(node.assoc, LAMBDA d : d.ext = e)
SleepyChild(s) == s # <<>> /\ s[1].relation = "CHILD_RFD"
(* AssocMakeList: the addresses of the associated devices, none as NULL.   *)
Children == [i \in 1..Len(node.assoc) |-> node.assoc[i].addr]

(* NWK_addr_req and IEEE_addr_req: about the router itself or about a      *)
(* child that sleeps, for which only the single answer is valid.           *)
zdpProcessAddrReq ==
  LET byIeee == wire.kind = "NWK_addr"
      o == IF byIeee THEN Z_EXTADDR_LEN ELSE 2
      type == At(M, o)
      start == At(M, o + 1)
      who == IF byIeee THEN ExtAt(M, 0) ELSE WordAt(M, 0)
      self == who = (IF byIeee THEN node.ext ELSE node.addr)
      child == IF byIeee THEN Extended(who) ELSE Short(who)
      found == self \/ (SleepyChild(child) /\ (byIeee \/ child[1].ext # 0))
      valid == type = 0 \/ (type = 1 /\ self)
      status == IF ~found THEN ZDP_DEVICE_NOT_FOUND
                ELSE IF valid THEN ZDP_SUCCESS ELSE ZDP_INVALID_REQTYPE
      other == IF byIeee THEN (IF ~found \/ self THEN node.addr ELSE child[1].addr)
               ELSE IF ~found \/ self THEN node.ext ELSE child[1].ext
      s == [status |-> status,
            ieee |-> IF byIeee THEN who ELSE other, nwkAddr |-> IF byIeee THEN other ELSE who,
            start |-> start, devs |-> Children,
            list |-> IF type = 1 /\ self /\ status = ZDP_SUCCESS
                     THEN IF Children = <<>> THEN "empty" ELSE "some" ELSE "none"]
      listed == IF start < Len(Children) /\ s.list = "some"
              THEN SubSeq(Children, start + 1, Len(Children)) ELSE <<>>
  IN /\ Arrives({"NWK_addr", "IEEE_addr"})
     /\ Reads(IF byIeee THEN [ieee |-> who, type |-> type, start |-> start]
              ELSE [aoi |-> who, type |-> type, start |-> start])
     /\ Replies(AddrRsp(s), [s EXCEPT !.devs = listed])
     /\ Served /\ Untold /\ UNCHANGED <<node, scan, starved>>

Refuses(status, aoi) ==
  LET s == [status |-> status, nwkAddr |-> aoi] IN Replies(GenericRsp(s), s)

ZDO_ProcessNodeDescReq ==
  LET aoi == WordAt(M, 0)
      s == With([status |-> ZDP_SUCCESS, nwkAddr |-> aoi, user |-> node.userAvail], node.descriptor)
  IN /\ Arrives({"Node_Desc"}) /\ Reads([aoi |-> aoi])
     /\ IF aoi = node.addr THEN Replies(NodeDescMsg(s), s) ELSE Refuses(ZDP_INVALID_REQTYPE, aoi)
     /\ Served /\ Untold /\ UNCHANGED <<node, scan, starved>>

ZDO_ProcessPowerDescReq ==
  LET aoi == WordAt(M, 0)
      s == With([status |-> ZDP_SUCCESS, nwkAddr |-> aoi], node.power)
  IN /\ Arrives({"Power_Desc"}) /\ Reads([aoi |-> aoi])
     /\ IF aoi = node.addr THEN Replies(PowerDescMsg(s), s) ELSE Refuses(ZDP_INVALID_REQTYPE, aoi)
     /\ Served /\ Untold /\ UNCHANGED <<node, scan, starved>>

(* Whatever address was asked for, the answer names the router's own.      *)
ZDO_ProcessSimpleDescReq ==
  LET aoi == WordAt(M, 0)
      ep == At(M, 2)
      desc == SelectSeq(node.eps, LAMBDA e : e.ep = ep)
      status == CASE ep = 0 \/ ep > MAX_ENDPOINTS -> ZDP_INVALID_EP
                  [] ep \in 1..MAX_ENDPOINTS /\ aoi # node.addr -> ZDP_DEVICE_NOT_FOUND
                  [] OTHER -> IF desc = <<>> THEN ZDP_NOT_ACTIVE ELSE ZDP_SUCCESS
      head == [status |-> status, nwkAddr |-> node.addr]
      s == IF status = ZDP_SUCCESS THEN With(head, desc[1]) ELSE head
  IN /\ Arrives({"Simple_Desc"}) /\ Reads([aoi |-> aoi, ep |-> ep])
     /\ Replies(SimpleDescMsg(s), s)
     /\ Served /\ Untold /\ UNCHANGED <<node, scan, starved>>

ZDO_ProcessActiveEPReq ==
  LET aoi == WordAt(M, 0)
      s == IF aoi = node.addr
           THEN [status |-> ZDP_SUCCESS, nwkAddr |-> aoi,
                 eps |-> [i \in 1..Len(node.eps) |-> node.eps[i].ep]]
           ELSE [status |-> ZDP_INVALID_REQTYPE, nwkAddr |-> aoi, eps |-> <<>>]
  IN /\ Arrives({"Active_EP"}) /\ Reads([aoi |-> aoi])
     /\ Replies(EPRsp(s), s)
     /\ Served /\ Untold /\ UNCHANGED <<node, scan, starved>>

(* ZDO_AnyClusterMatches. *)
AnyClusterMatches(a, b) == ToSet(a) \cap ToSet(b) # {}

(* Nobody answers a request that matches nothing.  The task of an end      *)
(* point that matches is sent ZDO_MATCH_DESC_RSP_SENT.                     *)
ZDO_ProcessMatchDescReq(memory) ==
  LET aoi == WordAt(M, 0)
      profile == WordAt(M, 2)
      lists == ClustersAt(M, 4, memory)
      fits == SelectSeq(node.eps, LAMBDA e :
                e.match /\ e.profile = profile
                  /\ (AnyClusterMatches(lists.in, e.in) \/ AnyClusterMatches(lists.out, e.out)))
      s == [status |-> ZDP_SUCCESS, nwkAddr |-> node.addr,
            eps |-> [i \in 1..Len(fits) |-> fits[i].ep]]
      no == [status |-> ZDP_INVALID_REQTYPE, nwkAddr |-> node.addr, eps |-> <<>>]
  IN /\ Arrives({"Match_Desc"})
     /\ Reads([aoi |-> aoi, profile |-> profile, in |-> lists.in, out |-> lists.out])
     /\ starved' = ~memory
     /\ IF aoi \notin {node.addr, DEVRXON}
        THEN Replies(EPRsp(no), no) /\ Untold
        ELSE /\ IF fits = <<>> THEN Silent ELSE Replies(EPRsp(s), s)
             /\ told' = ToSet(s.eps)
     /\ Served /\ UNCHANGED <<node, scan>>

----------------------------------------------------------------------------
(* Binding.                                                                *)

(* The parser only: what becomes of it is the coordinator's end device     *)
(* bind, another component.                                                *)
ZDO_ParseEndDeviceBindReq(memory) ==
  /\ Arrives({"End_Device_Bind"})
  /\ Reads(ParseEndDeviceBindReq(M, memory)) /\ Silent
  /\ starved' = ~memory
  /\ Served /\ Untold /\ UNCHANGED <<node, scan>>

(* A bind to an extended address that has no short one looks for it.       *)
ZDO_ProcessBindUnbindReq ==
  LET q == ParseBindUnbindReq(M)
      entry == [src |-> node.ext, srcEp |-> q.ep, cluster |-> q.cluster, mode |-> q.mode,
                dst |-> q.dst, dstEp |-> q.dstEp]
      known == entry \in ToSet(node.binds)
      status == CASE q.ieee # node.ext \/ q.mode \notin {Addr64Bit, AddrGroup} -> ZDP_NOT_SUPPORTED
                  [] q.ieee = node.ext /\ q.mode \in {Addr64Bit, AddrGroup}
                       /\ (q.ep \notin 1..MAX_ENDPOINTS
                             \/ (q.mode = Addr64Bit /\ q.dstEp \notin 1..MAX_ENDPOINTS))
                       -> ZDP_INVALID_EP
                  [] OTHER -> IF wire.kind = "Bind"
                              THEN IF Len(node.binds) < MaxBinds THEN ZDP_SUCCESS ELSE ZDP_TABLE_FULL
                              ELSE IF known THEN ZDP_SUCCESS ELSE ZDP_NO_ENTRY
      after == CASE status # ZDP_SUCCESS -> node.binds
                 [] status = ZDP_SUCCESS /\ wire.kind = "Bind" ->
                      IF known THEN node.binds ELSE Append(node.binds, entry)
                 [] OTHER -> SelectSeq(node.binds, LAMBDA b : b # entry)
      looks == status = ZDP_SUCCESS /\ wire.kind = "Bind" /\ q.mode = Addr64Bit
                 /\ Extended(q.dst) = <<>>
  IN /\ Arrives({"Bind", "Unbind"}) /\ Reads(q)
     /\ node' = [node EXCEPT !.binds = after]
     /\ told' = IF looks THEN {q.dst} ELSE {}
     /\ Replies(SendData(<<status>>), [status |-> status])
     /\ Served /\ UNCHANGED <<scan, starved>>

----------------------------------------------------------------------------
(* The tables.                                                             *)

Page(total, start, max) == IF total > start
                           THEN IF total - start > max THEN max ELSE total - start ELSE 0

LqiOfDevice(d) ==
  [extPan |-> node.extPan, ieee |-> d.ext, nwkAddr |-> d.addr,
   devType |-> CASE d.relation = "PARENT" -> (IF d.addr = 0 THEN 0 ELSE 1)
                 [] d.relation \in {"CHILD_RFD", "CHILD_RFD_RX_IDLE"} -> 2
                 [] OTHER -> 1,
   rxOnIdle |-> CASE d.relation = "PARENT" -> ZDP_MGMT_BOOL_UNKNOWN
                  [] d.relation \in {"CHILD_RFD", "CHILD_FFD"} -> 0
                  [] OTHER -> 1,
   relation |-> IF d.relation = "PARENT" THEN 0 ELSE 1,
   permit |-> ZDP_MGMT_BOOL_UNKNOWN,
   depth |-> CASE d.relation = "PARENT" /\ d.addr = 0 -> 0
               [] d.relation = "PARENT" /\ d.addr # 0 -> node.depth - 1
               [] OTHER -> node.depth + 1,
   lqi |-> d.lqi]

LqiOfNeighbour(n) ==
  [extPan |-> node.extPan, ieee |-> 15, nwkAddr |-> n.addr, devType |-> IF n.addr = 0 THEN 0 ELSE 1,
   rxOnIdle |-> ZDP_MGMT_BOOL_UNKNOWN, relation |-> 3, permit |-> ZDP_MGMT_BOOL_UNKNOWN,
   depth |-> 255, lqi |-> n.lqi]

(* Mutant: every page's neighbours are read from the first one on. *)
FirstNeighbourNone(start, aItems) == 0

(* Where a page's first neighbour stands in the neighbour table. *)
FirstNeighbour(start, aItems) == IF start <= aItems THEN 0 ELSE start - aItems

(* The associated devices come first, the neighbour table after them; the  *)
(* index starts anew where the one ends and the other begins.              *)
LqiPage(start) ==
  LET aItems == Len(node.assoc)
      devices == IF start < aItems THEN aItems - start ELSE 0
      n == Page(aItems + Len(node.neighbours), start, ZDO_MAX_LQI_ITEMS)
  IN [x \in 1..n |-> IF x <= devices THEN LqiOfDevice(node.assoc[start + x])
                     ELSE LqiOfNeighbour(node.neighbours[FirstNeighbour(start, aItems) + x - devices])]

(* When there is no memory for the items their number stays what it was,   *)
(* and the answer is made from what lies at address 0.                     *)
ZDO_ProcessMgmtLqiReq(memory) ==
  LET start == At(M, 0)
      wild == [extPan |-> 0, ieee |-> 0, nwkAddr |-> 0, devType |-> 0, rxOnIdle |-> 0,
               relation |-> 0, permit |-> 0, depth |-> 0, lqi |-> 0]
      page == LqiPage(start)
      s == [status |-> ZDP_SUCCESS, total |-> Len(node.assoc) + Len(node.neighbours), start |-> start,
            items |-> IF memory THEN page ELSE [x \in 1..Len(page) |-> wild]]
  IN /\ Arrives({"Mgmt_Lqi"}) /\ Reads([start |-> start])
     /\ Replies(MgmtLqiRsp(s), s)
     /\ starved' = ~memory
     /\ Served /\ Untold /\ UNCHANGED <<node, scan>>

(* RT_LINK_FAIL falls through to the entries that are told as inactive.    *)
RtgStatus(st) == CASE st = "RT_ACTIVE" -> 0 [] st = "RT_DISC" -> 1 [] OTHER -> 3

ZDO_ProcessMgmtRtgReq(memory) ==
  LET start == At(M, 0)
      n == IF memory THEN Page(Len(node.routes), start, ZDO_MAX_RTG_ITEMS) ELSE 0
      s == [status |-> ZDP_SUCCESS, total |-> Len(node.routes), start |-> start,
            items |-> [x \in 1..n |-> LET r == node.routes[start + x] IN
                         [dst |-> r.dst, status |-> RtgStatus(r.status), next |-> r.next]]]
  IN /\ Arrives({"Mgmt_Rtg"}) /\ Reads([start |-> start])
     /\ Replies(MgmtRtgRsp(s), s)
     /\ starved' = ~memory
     /\ Served /\ Untold /\ UNCHANGED <<node, scan>>

(* A page with nothing in it is refused. *)
ZDO_ProcessMgmtBindReq(memory) ==
  LET start == At(M, 0)
      n == IF memory THEN Page(Len(node.binds), start, ZDO_MAX_BIND_ITEMS) ELSE 0
      s == [status |-> IF n = 0 THEN ZDP_NOT_PERMITTED ELSE ZDP_SUCCESS, total |-> Len(node.binds),
            start |-> start, items |-> SubSeq(node.binds, start + 1, start + n)]
  IN /\ Arrives({"Mgmt_Bind"}) /\ Reads([start |-> start])
     /\ Replies(MgmtBindRsp(s), s)
     /\ starved' = ~memory
     /\ Served /\ Untold /\ UNCHANGED <<node, scan>>

(* The scan is started; when the network layer refuses it nobody answers.  *)
ZDO_ProcessMgmtNwkDiscReq(accepted) ==
  /\ Arrives({"Mgmt_NWK_Disc"})
  /\ Reads([channels |-> LongAt(M, 0), duration |-> At(M, 4), start |-> At(M, 5)])
  /\ scan' = IF accepted THEN {At(M, 5)} ELSE {}
  /\ Silent /\ Served /\ Untold /\ UNCHANGED <<node, starved>>

(* The networks the answer counts: the router's own is put in front of the *)
(* others when the scan did not hear it and there is memory for it.        *)
Networks(memory) ==
  IF memory /\ node.own.extPan \notin {n.extPan : n \in ToSet(node.networks)}
  THEN <<node.own>> \o node.networks ELSE node.networks

DiscPage(list, start) ==
  SubSeq(list, start + 1, start + Page(Len(list), start, ZDO_MAX_NWKDISC_ITEMS))

ZDO_FinishProcessingMgmtNwkDiscReq(memory) ==
  \E start \in scan :
    LET list == Networks(memory)
        s == [status |-> ZDP_SUCCESS, total |-> Len(list), start |-> start,
              items |-> DiscPage(list, start)]
        frame == MgmtNwkDiscRsp(s)
    IN /\ scan' = {}
       /\ wire' = [to |-> "client", kind |-> "Mgmt_NWK_Disc", frame |-> frame]
       /\ said' = s
       /\ starved' = ~memory
       /\ Served /\ Untold /\ UNCHANGED <<node, seen>>

----------------------------------------------------------------------------
(* Management, the user descriptor and announcements.                      *)

ZDO_ProcessMgmtDirectJoinReq(status) ==
  LET ieee == ExtAt(M, 0)
      cap == At(M, Z_EXTADDR_LEN)
  IN /\ Arrives({"Mgmt_Direct_Join"}) /\ Reads([ieee |-> ieee, cap |-> cap])
     /\ told' = {ieee}
     /\ Replies(SendData(<<status>>), [status |-> status])
     /\ Served /\ UNCHANGED <<node, scan, starved>>

(* removeChildren and rejoin of the request to the network layer are set   *)
(* when the option asks for them and hold what the stack held otherwise.   *)
ZDO_ProcessMgmtLeaveReq(children, rejoin) ==
  LET ieee == ExtAt(M, 0)
      option == At(M, Z_EXTADDR_LEN)
      wantsChildren == (option \div 64) % 2 = 1
      wantsRejoin == option \div 128 = 1
  IN /\ Arrives({"Mgmt_Leave"})
     /\ Reads([ieee |-> ieee, removeChildren |-> wantsChildren, rejoin |-> wantsRejoin])
     /\ told' = {[who |-> IF ieee = node.ext THEN 0 ELSE ieee,
                   removeChildren |-> wantsChildren \/ children, rejoin |-> wantsRejoin \/ rejoin]}
     /\ Replies(SendData(<<0>>), [status |-> 0])
     /\ Served /\ UNCHANGED <<node, scan, starved>>

ZDO_ProcessMgmtPermitJoinReq ==
  LET duration == At(M, 0)
      tcSig == At(M, 1)
  IN /\ Arrives({"Mgmt_Permit_Join"}) /\ Reads([duration |-> duration, tcSig |-> tcSig])
     /\ told' = {[permit |-> duration, trustCentre |-> tcSig = 1]}
     /\ Replies(SendData(<<0>>), [status |-> 0])
     /\ Served /\ UNCHANGED <<node, scan, starved>>

ZDO_ProcessUserDescReq ==
  LET aoi == WordAt(M, 0)
      s == [status |-> ZDP_SUCCESS, nwkAddr |-> aoi, desc |-> node.userDesc]
  IN /\ Arrives({"User_Desc"}) /\ Reads([aoi |-> aoi])
     /\ IF aoi = node.addr THEN Replies(UserDescRsp(s), s) ELSE Refuses(ZDP_NOT_SUPPORTED, aoi)
     /\ Served /\ Untold /\ UNCHANGED <<node, scan, starved>>

(* The confirmation's third octet is the low octet of the address again.   *)
ZDO_ProcessUserDescSet ==
  LET aoi == WordAt(M, 0)
      n == IF At(M, 2) < AF_MAX_USER_DESCRIPTOR_LEN THEN At(M, 2) ELSE AF_MAX_USER_DESCRIPTOR_LEN
      desc == OctetsAt(M, 3, n)
      mine == aoi = node.addr
      status == IF mine THEN ZDP_SUCCESS ELSE ZDP_NOT_SUPPORTED
  IN /\ Arrives({"User_Desc_set"}) /\ Reads([aoi |-> aoi, desc |-> desc])
     /\ node' = IF mine THEN [node EXCEPT !.userDesc = desc, !.userAvail = IF n # 0 THEN 1 ELSE 0]
                ELSE node
     /\ Replies(SendData(<<status, aoi % 256, aoi % 256>>), [status |-> status])
     /\ Served /\ Untold /\ UNCHANGED <<scan, starved>>

(* matchMask: the servers asked for that the router is, of two kinds.      *)
Masked(a, b) == 2 * (((a \div 2) % 2) * ((b \div 2) % 2)) + (a % 2) * (b % 2)

ZDO_ProcessServerDiscReq ==
  LET mask == WordAt(M, 0)
      s == [status |-> ZDP_SUCCESS, mask |-> Masked(mask, node.descriptor.mask)]
  IN /\ Arrives({"Server_Discovery"}) /\ Reads([mask |-> mask])
     /\ IF s.mask # 0 THEN Replies(ServerDiscRsp(s), s) ELSE Silent
     /\ Served /\ Untold /\ UNCHANGED <<node, scan, starved>>

(* An end device whose announcement came from another parent is a child no *)
(* more; the address of one that stays changes in the association table.   *)
(* The network layer refuses an announcement that clashes.                 *)
ZDO_ProcessDeviceAnnce(accepted, relayed) ==
  LET a == ParseDeviceAnnce(M)
      kept == IF relayed
              THEN SelectSeq(node.assoc, LAMBDA d :
                     ~(d.ext = a.ieee /\ d.relation \in {"CHILD_RFD", "CHILD_RFD_RX_IDLE"}))
              ELSE node.assoc
      moved == [i \in 1..Len(kept) |-> IF kept[i].ext = a.ieee /\ a.aoi # node.addr
                                       THEN [kept[i] EXCEPT !.addr = a.aoi] ELSE kept[i]]
  IN /\ Arrives({"Device_annce"}) /\ Reads(a) /\ Silent
     /\ node' = IF accepted THEN [node EXCEPT !.assoc = moved] ELSE node
     /\ Served /\ Untold /\ UNCHANGED <<scan, starved>>

(* Mgmt_NWK_Update_req: the parser; the network manager acts on it.  The   *)
(* answer, sent when the scan is over, reports what the manager measured.  *)
ZDO_ParseMgmtNwkUpdateReq ==
  LET q == ParseMgmtNwkUpdateReq(M)
      s == [status |-> ZDP_SUCCESS, channels |-> q.channels, total |-> 300, failures |-> 7,
            energy |-> <<9, 8>>]
  IN /\ Arrives({"Mgmt_NWK_Update"}) /\ Reads(q)
     /\ IF q.duration <= 5 THEN Replies(MgmtNwkUpdateNotify(s), s) ELSE Silent
     /\ Served /\ Untold /\ UNCHANGED <<node, scan, starved>>

----------------------------------------------------------------------------
(* The client reads the answer.                                            *)

Response(kind, m) ==
  CASE kind \in {"NWK_addr", "IEEE_addr"} -> ParseAddrRsp(m)
    [] kind = "Node_Desc" -> ParseNodeDescRsp(m)
    [] kind = "Power_Desc" -> ParsePowerDescRsp(m)
    [] kind = "Simple_Desc" -> ParseSimpleDescRsp(m)
    [] kind \in {"Active_EP", "Match_Desc"} -> ParseEPListRsp(m)
    [] kind = "User_Desc" -> ParseUserDescRsp(m)
    [] kind = "Server_Discovery" -> ParseServerDiscRsp(m)
    [] kind = "Mgmt_Lqi" -> ParseMgmtLqiRsp(m)
    [] kind = "Mgmt_Rtg" -> ParseMgmtRtgRsp(m)
    [] kind = "Mgmt_Bind" -> ParseMgmtBindRsp(m)
    [] kind = "Mgmt_NWK_Disc" -> ParseMgmNwkDiscRsp(m)
    [] kind = "Mgmt_NWK_Update" -> ParseMgmtNwkUpdateNotify(m)
    [] OTHER -> [status |-> At(m, 0)]

Receive ==
  LET r == Response(wire.kind, M)
      got == walk.got \o r.items
  IN /\ wire.to = "client"
     /\ answer' = r
     /\ wire' = [wire EXCEPT !.to = "none"]
     /\ walk' = IF wire.kind \notin Tables THEN walk
                ELSE [walk EXCEPT !.got = got,
                                  !.done = starved \/ r.items = <<>> \/ Len(got) >= r.total]
     /\ UNCHANGED <<node, told, asked, seen, said, scan, starved>>

Next ==
  \/ \E q \in Requests : Ask(q)
  \/ zdpProcessAddrReq \/ ZDO_ProcessNodeDescReq \/ ZDO_ProcessPowerDescReq
  \/ ZDO_ProcessSimpleDescReq \/ ZDO_ProcessActiveEPReq
  \/ ZDO_ProcessBindUnbindReq \/ ZDO_ProcessMgmtPermitJoinReq
  \/ ZDO_ProcessUserDescReq \/ ZDO_ProcessUserDescSet \/ ZDO_ProcessServerDiscReq
  \/ ZDO_ParseMgmtNwkUpdateReq
  \/ \E b, c \in BOOLEAN : ZDO_ProcessMgmtLeaveReq(b, c) \/ ZDO_ProcessDeviceAnnce(b, c)
  \/ \E status \in {0, 1} : ZDO_ProcessMgmtDirectJoinReq(status)
  \/ \E memory \in BOOLEAN :
       \/ ZDO_ProcessMatchDescReq(memory) \/ ZDO_ParseEndDeviceBindReq(memory)
       \/ ZDO_ProcessMgmtLqiReq(memory) \/ ZDO_ProcessMgmtRtgReq(memory)
       \/ ZDO_ProcessMgmtBindReq(memory) \/ ZDO_FinishProcessingMgmtNwkDiscReq(memory)
  \/ \E accepted \in BOOLEAN : ZDO_ProcessMgmtNwkDiscReq(accepted)
  \/ Receive \/ Forget

Spec == Init /\ [][Next]_vars

----------------------------------------------------------------------------
(* Properties.                                                             *)

(* Two readings of one message agree on every field both of them name.     *)
SameFields(r, s) == \A f \in (DOMAIN r \cap DOMAIN s) \ {"items", "kind"} : r[f] = s[f]
Same(r, s) ==
  /\ SameFields(r, s)
  /\ "items" \in DOMAIN r =>
       /\ Len(r.items) = Len(s.items)
       /\ \A i \in 1..Len(r.items) : SameFields(r.items[i], s.items[i])

(* Every request is understood by the router as the client meant it and    *)
(* every answer by the client as the router meant it, field by field, in   *)
(* whatever order the bits were packed; a router short of memory may       *)
(* misread the two cluster lists (ZDObject.c:398-406, 811-819).            *)
Understood ==
  /\ seen # NoMsg /\ ~starved => Same(seen, asked)
  /\ answer # NoMsg => /\ answer.status = said.status
                       /\ answer.status = ZDP_SUCCESS => Same(answer, said)

(* The length handed to the application framework is the number of octets  *)
(* written, and they fit the buffer they were written to.                  *)
LengthsRight ==
  /\ wire.frame.len = Len(wire.frame.octets)
  /\ wire.frame.len <= wire.frame.room

(* The table as it stands, in the terms of the answer's items. *)
Whole(kind) ==
  CASE kind = "Mgmt_Lqi" -> [i \in 1..Len(node.assoc) + Len(node.neighbours) |->
         LET n == IF i <= Len(node.assoc) THEN node.assoc[i] ELSE node.neighbours[i - Len(node.assoc)]
         IN [extPan |-> node.extPan, nwkAddr |-> n.addr, lqi |-> n.lqi]]
    [] kind = "Mgmt_Rtg" -> node.routes
    [] kind = "Mgmt_Bind" -> node.binds
    [] kind = "Mgmt_NWK_Disc" ->
         IF \E i \in 1..Len(node.networks) : node.networks[i].extPan = node.own.extPan
         THEN node.networks ELSE <<node.own>> \o node.networks

(* A client that reads a table page by page, each time from where the last *)
(* page ended, has read a beginning of the table at any time and the whole *)
(* table at the end: no entry twice, none left out, none of another table, *)
(* however the page boundary falls between the two tables the neighbour    *)
(* answer is made of.                                                      *)
PagesAreTheTable ==
  LET all == Whole(walk.kind)
      n == Len(walk.got)
  IN walk.kind \in Tables /\ ~starved =>
       /\ n <= Len(all)
       /\ \A i \in 1..n : SameFields([f \in DOMAIN walk.got[i] \ {"status"} |-> walk.got[i][f]], all[i])
       /\ walk.done => n = Len(all)
=============================================================================
