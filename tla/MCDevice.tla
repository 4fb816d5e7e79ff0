------------------------------ MODULE MCDevice ------------------------------
(***************************************************************************)
(* The applications and the ZDO task of a device: the coordinator's bridge *)
(* to the host, the nodes, the device application through joining,         *)
(* leaving and restarts, and the trust centre.  A behaviour is one of      *)
(* these components against all that may happen to it; the others stay as  *)
(* they were initialised.                                                  *)
(*                                                                         *)
(* The bridge has three slots, one more than a scan can pass in one call.  *)
(* Each kind of node gets the commands that reach its branches, a few      *)
(* commands and presses, and a shade whose third takes two ticks instead   *)
(* of fifty.  The device is a coordinator, a router or an end device, with *)
(* and without NV and security.  Of the trust centre's three devices one   *)
(* may have been in the network before the restart.                        *)
(***************************************************************************)
EXTENDS CoordBridge, NodeApp, ZdApp, ZdSecMgr

(* A command of the octets l from the ninth on, then the address.          *)
Frm(l) == [i \in 1 .. 60 |-> IF i = 1 THEN 11 + Len(l) ELSE IF i \in 9 .. 8 + Len(l) THEN l[i - 8] ELSE 0]
Pairs(x, S, T) == {<<x, a, b>> : a \in S, b \in T}
MCLists(k) ==
  CASE k = "S" -> {<<\HAB, \HA1, 7>>, <<CC, 0, 0>>, <<0, 0, 0>>}
    [] k = "Q" -> {<<\HAB, \HA1, 60>>, <<\HAB, \HA1, 1>>}
    [] k = "H" -> Pairs(DD, {1, \HC0}, {AA, BB}) \cup {<<CC, 0, 0>>}
    [] k = "P" -> {<<1, 2>>}
    [] k = "K" -> Pairs(DD, {1, 2}, {AA, BB, CC}) \cup Pairs(\HEF, {1, 2}, {1, 3}) \cup {<<CC, 0, 0>>}
    [] k = "02" -> {<<\HDC, 9>>, <<0, 0>>}
    [] k = "05" -> Pairs(DD, {\HA3}, {AA, BB, CC, \HA1, \HA2})
    [] k = "06" -> {<<DD, 0>>, <<\HEA, 2, \HEA>>}
    [] k = "07" -> {<<\HA1, 1, 5>>}
    [] k = "09" -> {<<\HEB, 1, 2>>}
    [] k = "12" -> Pairs(DD, {1, 2}, {AA, DD}) \cup {<<0, 0, 0>>}
    [] k = "13" -> {<<\H43, \HC3, \H6F>>}
    [] k = "14" -> {<<1, 3, \H0C>>}
    [] k = "15" -> {<<DD, 3>>}
    [] k = "18" -> {<<DD, 1, AA>>, <<DD, 1, BB>>}
    [] k = "23" -> {<<AA, 1, 2>>, <<BB, 0, 0>>}
    [] k = "28" -> {<<\HA1, 0, 0, 5>>, <<0, 0, 0, 0>>}
    [] k = "29" -> {<<\HAF, 2, 1, 1>>, <<\HAD>>}
    [] k = "30" -> {<<AA, \HAB, 3, 0>>, <<\HAF, \HBA, 0, 0>>, <<\HB0, AA, 1, BB>>, <<\HB0, AA, 2, BB>>}
    [] k = "31" -> {<<\HB4, 1, 2, 3>>, <<\HED, 1, 1>>, <<\HEA, 0, \HEA>>}
    [] k = "40" -> Pairs(DD, {\HA1, \HA2, \HA3, \HA4, \HA5, \HB1}, {AA, BB})
    [] k \in {"65", "66", "6C"} -> {<<3, 4>>}
    [] k = "67" -> {<<AA, 1, 2>>, <<BB, 1, 2>>, <<CC, 0, 0>>}
    [] k \in {"6E", "6F", "27"} -> {<<1, 2, 3, 4>>, <<2, \H2F, 3, 4>>}
    [] k = "6B" -> {<<DD, 1, 0, 0, 0>>, <<\HDE, 1, 2, 0, 0>>, <<\HDC, 0, 0, 1, 2, 3, 4>>}
    [] k = "6A" -> {<<4>>}
    [] k = "6D" -> {<<1, 2, 3>>}
    [] k \in {"0A", "25", "26", "70", "7B"} -> {<<1, \HF7, 1, 4>>, <<1, 0, 1, 4>>}
    [] k = "71" -> {<<1, \HF7, 2, AA, 5>>, <<1, \HF7, 4, 1, 5, 6, 7>>}
    [] k = "7C" -> {<<1, 1, \HF7, 2, 5>>}
    [] k = "73" -> {<<0, \HA8, 1, 1, 1>>, <<0, \HA1, \HBA, 0, 5>>}
    [] k = "74" -> {<<1, 0, 2, 7, 8>>, <<1, 0, 17, 7, 8>>}
    [] k = "79" -> {<<0, DD, m, x>> : m \in 1 .. 3, x \in 0 .. 3} \cup {<<0, \HD1, 0, 0>>}
    [] k = "83" -> {<<0, DD, m, x>> : m \in {1, 3}, x \in 0 .. 3} \cup {<<0, 0, 0, 0>>}
    [] k = "86" -> {<<1, 3, \HF7, 9, 9>>}
    [] k = "87" -> {<<1, 1, 3, \H7B, 9, 9>>}
    [] k = "A3" -> {<<\HB5, 1, 2, 3, 4, 5>>, <<\HAD, 0>>}
    [] k = "F0" -> {<<3>>}
    [] OTHER -> {}
MCCommands(k) == {Frm(l) : l \in MCLists(k)}


MCKinds == DOMAIN Type

b(y, s, n, i) == [type |-> y, secure |-> s, nvRestore |-> n, insecureJoin |-> i]
MCBuilds == {b("coordinator", FALSE, TRUE, FALSE), b("coordinator", TRUE, TRUE, FALSE),
             b("router", FALSE, FALSE, FALSE), b("router", TRUE, TRUE, FALSE),
             b("device", FALSE, FALSE, TRUE), b("device", TRUE, TRUE, FALSE)}

CONSTANTS d1, d2, d3
MCRestores == {<<>>, <<d3>>}

VARIABLE part    \* the component that runs

MCvars == <<part, vars, nodeVars, zdAppVars, secVars>>

Bridge(A) == part = "bridge" /\ A /\ UNCHANGED <<part, nodeVars, zdAppVars, secVars>>
Node(A)   == part = "node" /\ A /\ UNCHANGED <<part, vars, zdAppVars, secVars>>
Joiner(A) == part = "joiner" /\ A /\ UNCHANGED <<part, vars, nodeVars, secVars>>
Trust(A)  == part = "trust" /\ A /\ UNCHANGED <<part, vars, nodeVars, zdAppVars>>

\* The kind of node, the build and the modes are open only for the component
\* they belong to.
MCInit ==
    /\ part \in {"bridge", "node", "joiner", "trust"}
    /\ Init /\ NodeInit /\ ZdAppInit /\ SecMgrInit
    /\ part # "node" => kind = "U"
    /\ part # "joiner" => build = b("coordinator", FALSE, TRUE, FALSE)
    /\ part # "trust" => secMode = "high" /\ ~preconfigured /\ \A i \in Indices : t.ami[i] = Nobody

MCNext == Bridge(Next) \/ Node(NodeNext) \/ Joiner(ZdAppNext) \/ Trust(SecNext)

\* The fairness of the component that runs.
MCSpec ==
    /\ MCInit /\ [][MCNext]_MCvars
    /\ WF_MCvars(Bridge(GenericAppCoordEB) \/ Node(Tick) \/ Joiner(Task)
                  \/ Trust(Established \/ SKA_TimerExpired))
    /\ WF_MCvars(Node(Collect) \/ Joiner(Library))
    /\ WF_MCvars(Joiner(KeyArrives))
    /\ \A e \in Bits : WF_MCvars(Joiner(Expire(e)))
    /\ \A e \in SecBits : WF_MCvars(Trust(SecExpire(e)))
    /\ TaskFairness

-----------------------------------------------------------------------------
\* It gets into its network in the end (InNetworkInTheEnd).
JoinsInTheEnd == []<>(part = "joiner" => Arrived)
============================================================================
