----------------------------- MODULE MCServices -----------------------------
(***************************************************************************)
(* What a device does for others in the network: the ZDO's requests and    *)
(* answers, the pairing of two devices by their buttons, the application   *)
(* framework with the inter-PAN stub, the foundation of the cluster        *)
(* library, and the network manager.  A behaviour is one of these          *)
(* components against all that may happen to it; the others stay as they   *)
(* were initialised.                                                       *)
(***************************************************************************)
EXTENDS ZdoServices, ZdBindMatch, AfData, ZclFoundation, ZdNwkMgr

-----------------------------------------------------------------------------
(* Four routers, with tables below, at and over the size of a page, and a  *)
(* request of each kind, for them, for a neighbour and for nobody.         *)

Dev(a, e, r, l) == [addr |-> a, ext |-> e, relation |-> r, lqi |-> l]
Net(p) == [extPan |-> p, channel |-> 11 + p, profile |-> 2, version |-> 3, beacon |-> 15,
           superframe |-> p, permit |-> p % 2]
Ep(n, m) == [ep |-> n, profile |-> 260, device |-> 513, ver |-> 3, match |-> m,
             in |-> <<3, 1281>>, out |-> <<n>>]
To(e) == [src |-> 1, srcEp |-> 2, cluster |-> 770, mode |-> Addr64Bit, dst |-> e, dstEp |-> 3]
Group(g) == [src |-> 1, srcEp |-> 2, cluster |-> 770, mode |-> AddrGroup, dst |-> g, dstEp |-> 0]

Router == [addr |-> 258, ext |-> 1, extPan |-> 9, depth |-> 2,
           assoc |-> <<>>, neighbours |-> <<>>, routes |-> <<>>, binds |-> <<>>, eps |-> <<>>,
           networks |-> <<>>, own |-> Net(9), userDesc |-> <<>>, userAvail |-> 0,
           descriptor |-> [logical |-> 1, complex |-> 0, band |-> 8, aps |-> 5, cap |-> 142,
                           manufacturer |-> 515, maxBuf |-> 80, maxIn |-> 160, mask |-> 2,
                           maxOut |-> 161, descCap |-> 7],
           power |-> [sources |-> 5, mode |-> 1, level |-> 12, source |-> 4]]

MCNodes ==
  {Router,
   [Router EXCEPT !.assoc = <<Dev(0, 2, "PARENT", 200), Dev(772, 3, "CHILD_RFD", 90),
                              Dev(773, 4, "CHILD_FFD_RX_IDLE", 91)>>,
                  !.neighbours = <<[addr |-> 0, lqi |-> 31], [addr |-> 1030, lqi |-> 32]>>,
                  !.eps = <<Ep(2, TRUE), Ep(8, FALSE)>>, !.binds = <<To(3), Group(513), To(4)>>,
                  !.networks = <<Net(3), Net(9)>>],
   [Router EXCEPT !.assoc = <<Dev(772, 3, "CHILD_RFD", 90), Dev(770, 0, "CHILD_RFD", 5)>>,
                  !.neighbours = <<[addr |-> 1030, lqi |-> 32]>>,
                  !.routes = [i \in 1..12 |-> [dst |-> 700 + i, next |-> 258 + i,
                                               status |-> IF i = 2 THEN "RT_DISC" ELSE "RT_ACTIVE"]],
                  !.binds = <<Group(513), To(3), Group(514), To(4)>>,
                  !.networks = [i \in 1..6 |-> Net(i)],
                  !.userDesc = <<70, 71>>, !.userAvail = 1],
   [Router EXCEPT !.assoc = [i \in 1..20 |-> Dev(512 + i, 0, "CHILD_RFD_RX_IDLE", i)]]}

Bind(k, ieee, mode, dst, ep) == [kind |-> k, ieee |-> ieee, ep |-> 2, cluster |-> 770,
                                 mode |-> mode, dst |-> dst, dstEp |-> ep]
MCRequests ==
  {[kind |-> k, aoi |-> a] : k \in {"Node_Desc", "Power_Desc", "Active_EP", "User_Desc"}, a \in {258, 4}}
  \cup {[kind |-> "NWK_addr", ieee |-> e, type |-> t, start |-> s] : e \in {1, 3, 4}, t \in 0..2, s \in 0..3}
  \cup {[kind |-> "IEEE_addr", aoi |-> a, type |-> t, start |-> s] :
          a \in {258, 770, 772}, t \in 0..1, s \in {0, 1, 3}}
  \cup {[kind |-> "Match_Desc", aoi |-> a, profile |-> p, in |-> i, out |-> o] :
          a \in {258, DEVRXON, 5}, p \in {260, 261}, i \in {<<>>, <<1281, 4>>}, o \in {<<2>>, <<9, 8>>}}
  \cup {[kind |-> "Simple_Desc", aoi |-> a, ep |-> e] : a \in {258, 4}, e \in {0, 2, 3, 241}}
  \cup {[kind |-> "User_Desc_set", aoi |-> a, desc |-> d] :
          a \in {258, 4}, d \in {<<>>, <<65>>, [i \in 1..16 |-> 64 + i]}}
  \cup {[kind |-> "Server_Discovery", mask |-> m] : m \in 1..3}
  \cup {[kind |-> "Device_annce", aoi |-> a, ieee |-> 3, cap |-> 128] : a \in {772, 774}}
  \cup {[kind |-> "End_Device_Bind", aoi |-> 0, ieee |-> 3, ep |-> 2, profile |-> 260, in |-> i, out |-> o] :
          i \in {<<>>, <<1281, 4>>, [n \in 1..16 |-> 1000 + n]}, o \in {<<>>, [n \in 1..16 |-> n]}}
  \cup {Bind(k, 1, Addr64Bit, e, p) : k \in {"Bind", "Unbind"}, e \in {3, 5}, p \in {0, 3}}
  \cup {Bind(k, 1, AddrGroup, 513, 0) : k \in {"Bind", "Unbind"}} \cup {Bind("Bind", 2, Addr64Bit, 3, 3)}
  \cup {[kind |-> "Mgmt_NWK_Disc", channels |-> 134215680, duration |-> 3, start |-> 0]}
  \cup {[kind |-> k, start |-> 0] : k \in {"Mgmt_Lqi", "Mgmt_Rtg", "Mgmt_Bind"}}
  \cup {[kind |-> "Mgmt_Direct_Join", ieee |-> 6, cap |-> 142]}
  \cup {[kind |-> "Mgmt_Leave", ieee |-> e, removeChildren |-> r, rejoin |-> j] :
          e \in {1, 3}, r \in BOOLEAN, j \in BOOLEAN}
  \cup {[kind |-> "Mgmt_Permit_Join", duration |-> 60, tcSig |-> t] : t \in 0..1}
  \cup {[kind |-> "Mgmt_NWK_Update", channels |-> 2048, duration |-> d, count |-> IF d <= 5 THEN 2 ELSE 0,
         id |-> IF d \in {254, 255} THEN 7 ELSE 0, manager |-> IF d = 255 THEN 258 ELSE 0] :
          d \in {3, 6, 254, 255}}

-----------------------------------------------------------------------------
(* Devices that pair: each serves what the other asks, and some of the     *)
(* bindings between them are there already.                                *)

MCPressed == {[in |-> <<1>>, out |-> <<2>>], [in |-> <<2>>, out |-> <<1, 2>>]}
MCTables == {{<<"a", 2, "b">>, <<"b", 1, "a">>}}

-----------------------------------------------------------------------------
(* Endpoints, a group with a member that is not registered, and addresses  *)
(* near, far, everywhere and in another PAN.  What is sent and what comes  *)
(* in share only the list of endpoints and the stub's application: each    *)
(* has a part of its own, and what is sent is two applications' and does   *)
(* not ask for a match.                                                    *)

Desc(ep, profile, cb) == [ep |-> ep, task |-> "app", profile |-> profile, cb |-> cb, match |-> TRUE]
MCDescriptors == {Desc(ZDO_EP, ZDO_PROFILE_ID, FALSE), Desc(1, 260, FALSE), Desc(2, 260, TRUE)}
MCGroups == <<<<7, 2>>, <<8, 1>>, <<7, 1>>>>
Afar(mode, to, ep, pan) == [mode |-> mode, to |-> to, ep |-> ep, pan |-> pan]
MCAddresses == {Afar("16Bit", "routed", 1, "none"), Afar("16Bit", "all", 255, "none"), Afar("kept", Own, 1, "none"),
                Afar("16Bit", Own, STUBAPS_INTER_PAN_EP, NwkPan), Afar("64Bit", "x", 1, "other pan")}
MCAsks == {<<10, {}>>, <<80, {"security", "concentrator"}>>}
Up(mode, ep, group, profile) == [mode |-> mode, ep |-> ep, group |-> group, profile |-> profile]
Sent(mode, group, profile) ==
  LET q == [mode |-> mode, group |-> group, cluster |-> 1281, profile |-> profile, data |-> <<9, 8>>]
  IN q @@ [octets |-> StubAPS_BuildMsg(q)]
MCFrames ==
  {Up("Unicast", e, 0, p) : e \in {0, 1, 2, AF_BROADCAST_ENDPOINT}, p \in {0, 260}}
  \cup {Up("Group", 0, g, 260) : g \in 7..9} \cup {Up("Unicast", 1, 0, 261)}
  \cup {Sent("Unicast", 0, 260), Sent("Group", 7, 260), Sent("Broadcast", 0, 260)}

-----------------------------------------------------------------------------
(* A server with two lists of attributes on its endpoint, in the ascending *)
(* order zcl_registerAttrList asks for, and requests for every command,    *)
(* and for every way a command can be refused.                             *)

Attr(cluster, id, type, write, value) ==
    [cluster |-> cluster, id |-> id, type |-> type, write |-> write, value |-> value]

MCLists ==
    <<[ep |-> 1, recs |-> <<Attr(0, 4, "CHAR_STR", FALSE, <<2, 65, 66>>),
                            Attr(0, 18, "UINT8", TRUE, <<1>>),
                            Attr(3, 0, "UINT16", TRUE, <<5, 0>>),
                            Attr(6, 0, "UINT8", TRUE, <<1>>),
                            Attr(6, 1, "UINT16", FALSE, <<7, 1>>)>>],
      [ep |-> 1, recs |-> <<Attr(6, 2, "UINT16", TRUE, <<8, 2>>),
                            Attr(6, 4, "INT24", TRUE, <<9, 3, 4>>),
                            Attr(6, 5, "IEEE_ADDR", TRUE, <<1, 2, 3, 4, 5, 6, 7, 8>>)>>]>>

MCOptions == 3 :> TRUE @@ 6 :> FALSE
MCPlugins == {[first |-> 3, last |-> 6]}

ZclTo(cluster, command, body) ==
    [command |-> command, body |-> body, ep |-> 1, cluster |-> cluster, specific |-> 0, direction |-> 0,
     disable |-> 0, manu |-> 0, seq |-> 7, unicast |-> TRUE, secured |-> cluster = 3]

W(id, type, octets) == [id |-> id, type |-> type, data |-> octets]
Enable(x) == ZclTo(0, "WRITE", <<W(18, "UINT8", <<x>>)>>)
Switch == W(0, "UINT8", <<2>>)
Level == W(2, "UINT16", <<6, 1>>)
BadLevel == W(2, "UINT16", <<Bad, 1>>)
Large == W(4, "INT24", <<5, 5, 5>>)

Writes == {<<Switch>>, <<Switch, Level>>, <<Level, Large, Switch>>, <<Switch, BadLevel>>,
           <<BadLevel, Switch>>, <<Switch, Large, BadLevel>>,
           <<Switch, W(1, "UINT16", <<1, 1>>)>>,                        \* read only
           <<W(9, "UINT8", <<1>>), Level>>,                             \* no such attribute
           <<W(4, "UINT16", <<1, 1>>), Switch>>,                        \* not its type
           <<W(5, "IEEE_ADDR", <<8, 7, 6, 5, 4, 3, 2, 1>>), Switch>>}

Cfg(type, change) ==
    [direction |-> 0, id |-> 1, type |-> type, min |-> 10, max |-> 300, change |-> change]
Discrete == [direction |-> 0, id |-> 3, type |-> "ENUM8", min |-> 1, max |-> 2]
Incoming == [direction |-> 1, id |-> 2, timeout |-> 600]

MCZclRequests ==
    {ZclTo(6, "READ", ids) : ids \in {<<0>>, <<0, 9, 5>>, <<1, 2, 4>>}}
        \cup {ZclTo(0, "READ", <<4, 18>>), Enable(0), Enable(1), ZclTo(3, "READ", <<0>>)}
        \cup {ZclTo(6, c, w) : c \in {"WRITE", "WRITE_UNDIVIDED"}, w \in Writes}
        \cup {ZclTo(6, "WRITE_NO_RSP", <<Switch, Level>>),
              ZclTo(6, "CONFIG_REPORT", <<Cfg("UINT16", <<1, 0>>), Discrete, Incoming>>),
              ZclTo(6, "CONFIG_REPORT", <<Incoming, Cfg("UINT32", <<1, 2, 3, 4>>)>>),
              ZclTo(6, "READ_REPORT_CFG", <<[direction |-> 0, id |-> 1], [direction |-> 1, id |-> 2]>>),
              ZclTo(6, "REPORT", <<Level, W(8, "CHAR_STR", <<1, 70>>)>>),
              ZclTo(6, "DISCOVER", [start |-> 1, max |-> 0]),
              ZclTo(6, "DEFAULT_RSP", [command |-> 10, status |-> FAILURE]),
              ZclTo(6, "other", <<>>)}
        \cup {[ZclTo(c, "other", <<>>) EXCEPT !.specific = 1] : c \in {3, 6, 9}}
        \cup {[ZclTo(6, "READ", <<0>>) EXCEPT !.manu = 4660],
              [ZclTo(6, "READ", <<0>>) EXCEPT !.unicast = FALSE],
              [ZclTo(6, "REPORT", <<Level>>) EXCEPT !.disable = 1],
              [ZclTo(6, "READ", <<0>>) EXCEPT !.secured = TRUE],
              [ZclTo(3, "other", <<>>) EXCEPT !.secured = FALSE, !.specific = 1]}

MCReports ==
    [CONFIG_REPORT |-> {<<[status |-> SUCCESS, direction |-> 0, id |-> Junk]>>,
                        <<[status |-> UNSUPPORTED_ATTRIBUTE, direction |-> 1, id |-> 4]>>},
     READ_REPORT_CFG |-> {<<Cfg("UINT16", <<1, 0>>) @@ [status |-> SUCCESS],
                            [status |-> FAILURE, direction |-> 0, id |-> 9],
                            Incoming @@ [status |-> SUCCESS]>>}]

-----------------------------------------------------------------------------
VARIABLE part    \* the component that runs

MCvars == <<part, vars, bindVars, afVars, zclVars, nwkMgrVars>>

Zdo(A)     == part = "zdo" /\ A /\ UNCHANGED <<part, bindVars, afVars, zclVars, nwkMgrVars>>
Pairing(A) == part = "bind" /\ A /\ UNCHANGED <<part, vars, afVars, zclVars, nwkMgrVars>>
Af(A)      == /\ part \in {"afOut", "afIn"} /\ A
              /\ IF part = "afOut"
                 THEN heard' = Nothing /\ \A i \in DOMAIN epList' : epList'[i].match /\ epList'[i].ep # ZDO_EP
                 ELSE UNCHANGED requests /\ stub'.channel = NwkChannel /\ ~stub'.changing
              /\ UNCHANGED <<part, vars, bindVars, zclVars, nwkMgrVars>>
Zcl(A)     == part = "zcl" /\ A /\ UNCHANGED <<part, vars, bindVars, afVars, nwkMgrVars>>
NwkMgr(A)  == part = "nwkmgr" /\ A /\ UNCHANGED <<part, vars, bindVars, afVars, zclVars>>

\* The router and the PAN id are open only for the component they belong to.
MCInit ==
    /\ part \in {"zdo", "bind", "afOut", "afIn", "zcl", "nwkmgr"}
    /\ Init /\ BindInit /\ AfInit /\ ZclInit /\ NwkMgrInit
    /\ part # "zdo" => node = Router
    /\ part # "nwkmgr" => panInUse = 1

MCNext == Zdo(Next) \/ Pairing(BindNext) \/ Af(AfNext) \/ Zcl(ZclNext) \/ NwkMgr(NwkMgrNext)

MCSpec == MCInit /\ [][MCNext]_MCvars

-----------------------------------------------------------------------------
\* Messages: what the ZDO says is understood as it was meant, in as many
\* octets as counted, and the pages of a table are the table; a frame of the
\* cluster library is understood and answered, its writes truly told and its
\* discovery complete; and data are heard by all they are meant for.
MessagesSound ==
    /\ part = "zdo" => Understood /\ LengthsRight /\ PagesAreTheTable
    /\ part = "zcl" => ZclUnderstood /\ ZclAnswered /\ WritesTold /\ DiscoveryComplete
    /\ part \in {"afOut", "afIn"} => HeardByAll
=============================================================================
