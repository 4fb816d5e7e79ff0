-------------------------------- MODULE MCZcl --------------------------------
(***************************************************************************)
(* What speaks the cluster library and serves the host: the clusters with  *)
(* their callbacks, the scenes, groups and alarms, the key establishment   *)
(* cluster, and the monitor and test task.  A behaviour is one of these    *)
(* components against all that may happen to it; the others stay as they   *)
(* were initialised.                                                       *)
(*                                                                         *)
(* Every command of every cluster is sent with three styles of values.     *)
(* There are a group and two scenes in a table of two, and power fails at  *)
(* most once; the alarms share no table with them and go by themselves.    *)
(* Devices devA, devB and hub share an issuer, other has its own; of their *)
(* exchanges three cross at one device, two cross at both, or one is       *)
(* repeated.  The host sends each request there is, or up to four that use *)
(* the store of long messages.                                             *)
(***************************************************************************)
EXTENDS ZclClusters, ZclScenes, ZclKeyEstablish, MtTask

CONSTANTS devA, devB, hub, other

\* Octets that differ from field to field and within a field, lists of two, one and no element.
Octets(style, i, n) == [j \in 1 .. n |-> IF style = "high" THEN 255 ELSE IF style = "mid" THEN 200
                                         ELSE IF j = 1 THEN i - 1 ELSE j]
SampleLength(f, style) ==
    IF f.kind = "fixed" THEN f.size
    ELSE (IF f.size = 0 THEN 1 ELSE f.size) * (CASE style = "low" -> 2 [] style = "mid" -> 1 [] OTHER -> 0)
Plainly(c, style) ==
    [f \in {c.layout[i].name : i \in DOMAIN c.layout} |->
        LET i == CHOOSE k \in DOMAIN c.layout : c.layout[k].name = f
        IN  Octets(style, i, SampleLength(c.layout[i], style))]

\* Fields whose value the layout of the command depends on, and the kinds of zones.
Fixed(name) ==
    CASE name \in {"GroupViewFailed", "SceneViewFailed", "SceneMembershipFailed", "AlarmGetFailed",
                   "DevCfgFailed", "LocationDataFailed"} -> {[status |-> <<139>>]}
      [] name \in {"GroupViewRsp", "SceneViewRsp", "SceneMembershipRsp", "AlarmGetRsp", "DevCfgRsp"} ->
            {[status |-> <<0>>]}
      [] name = "LocationDataRsp" -> {[status |-> <<0>>] @@ [type |-> <<0>>]}
      [] name = "LocationDataNotif" -> {[type |-> <<1>>]}
      [] name \in {"LocationDataNotifFlat", "LocationCompactNotif"} -> {[type |-> <<2>>]}
      [] name = "LocationCompactNotifAbsolute" -> {[type |-> <<1>>]}
      [] name = "GetLocationData" -> {[bitmap |-> <<3>>]}
      [] name = "GetLocationDataBroadcast" -> {[bitmap |-> <<12>>]}
      [] name = "EnrollRequest" -> {[zoneType |-> <<13, 0>>], [zoneType |-> <<21, 2>>]}
      [] name = "MoveHue" -> {<<>>, [rate |-> <<0>>]}
      [] OTHER -> {<<>>}

MCSamples == [name \in DOMAIN Commands |->
    {fixed @@ Plainly(Commands[name], style) : fixed \in Fixed(name), style \in {"low", "mid", "high"}}]
MCFiles == {"se", "lighting", "hvac", "pi", "ss", "closures", "ms", "general"}
MCCallbackSets == [f \in MCFiles |->
    {{}, {MeantFor(n) : n \in {n \in DOMAIN Commands : FileOf(Commands[n].cluster) = f}}}
    \cup (IF f = "se" THEN {{"GetScheduledPrice"}} ELSE {})]

MCLinks == {<<devA, hub>>, <<hub, devA>>, <<devB, hub>>, <<hub, other>>}
MCIssuer == [n \in Nodes |-> IF n = other THEN "another" ELSE "issuer"]
Plan(S, again) == [l \in Links |-> IF l \in again THEN 2 ELSE IF l \in S THEN 1 ELSE 0]
Three == Plan({<<devA, hub>>, <<devB, hub>>, <<hub, other>>}, {})
MCPlans == {Three, Plan({<<devA, hub>>, <<hub, devA>>}, {}), Plan({}, {<<devA, hub>>})}

VARIABLE part    \* the component that runs

MCvars == <<part, vars, scenesVars, cbkeVars, hostVars>>

Clusters(A) == part = "clusters" /\ A /\ UNCHANGED <<part, scenesVars, cbkeVars, hostVars>>
Scenes(A)   == /\ part \in {"scenes", "alarms"} /\ A
               /\ part = "scenes" => UNCHANGED alarms
               /\ part = "alarms" => UNCHANGED scenes
               /\ UNCHANGED <<part, vars, cbkeVars, hostVars>>
Cbke(A)     == part = "cbke" /\ A /\ UNCHANGED <<part, vars, scenesVars, hostVars>>
Host(A)     == part = "mt" /\ A /\ UNCHANGED <<part, vars, scenesVars, cbkeVars>>

\* The file, the plan and the host's aim are open only for the component they
\* belong to.
MCInit ==
    /\ part \in {"clusters", "scenes", "alarms", "cbke", "mt"}
    /\ Init /\ ScenesInit /\ CbkeInit /\ HostInit
    /\ part # "clusters" => file = "se"
    /\ part # "cbke" => plan = Three
    /\ part # "mt" => which = "store"

MCNext == Clusters(Next) \/ Scenes(ScenesNext) \/ Cbke(CbkeNext) \/ Host(HostNext)

\* The fairness of the component that runs.
MCSpec ==
    /\ MCInit /\ [][MCNext]_MCvars
    /\ WF_queue(part = "mt" /\ Takes)
    /\ WF_MCvars(Cbke(CbkeReceive) \/ Host(Ticks))
    /\ WF_MCvars(Cbke(Event) \/ Host(Tells))
    /\ WF_MCvars(Cbke(Age) \/ Host(Elapses(MT_AF_EXEC_EVT)))

-----------------------------------------------------------------------------
\* Commands: heard as they were said, told to the callback registered for
\* them, answered as the cluster asks, and an enrolled zone is kept.
ClustersSound == part = "clusters" => HeardAsSaid /\ ReachesItsCallback /\ Answered /\ EnrolmentKept

\* The host's requests: answered once and in whole, carried out as meant, the
\* pieces of long ones put together; and the store is emptied.
MtSound ==
    /\ [](part = "mt" => AnsweredOnce /\ WholeAnswers /\ PeerHears /\ PiecesMakeTheMessage)
    /\ StoreDrains
=============================================================================
