--------------------------- MODULE ZclKeyEstablish ---------------------------
(***************************************************************************)
(* The key establishment cluster (zcl_key_establish.c): two devices agree  *)
(* on a link key from their certificates and from a fresh key pair each.   *)
(* Every device has a table of exchanges, and may be the initiator of one  *)
(* and the responder of another at once.  The frames travel through a      *)
(* network that may lose, repeat and reorder them.                         *)
(*                                                                         *)
(* A key pair is a token <<device, number>>; the key that the two ends of  *)
(* an exchange compute is the set of the two tokens, and a MAC is the      *)
(* tuple of what is hashed.                                                *)
(***************************************************************************)
EXTENDS Integers, FiniteSets

CONSTANTS
    Nodes,
    Links,          \* the pairs <<initiator, responder>> that applications ask for
    Issuer,         \* of each device's certificate
    MaxRecs,        \* MAX_KEY_ESTABLISHMENT_REC_ENTRY
    NoKey,
    Plans,          \* bound: how often each link may be asked for, [Links -> Nat]
    MaxTrouble      \* bound: frames lost or repeated, failures, restarts

VARIABLES
    recs,           \* each device's keyEstablishRec
    events,         \* of each device's key establishment task: "cmd", "rsp"
    poll, saved,    \* zgPollRate and zclSavedPollRate: "usual" or "fast"
    pairs,          \* how many key pairs each device has made
    installed,      \* history: link keys added, [at, with, key, role]
    told,           \* history: statuses of ZCL_KEY_ESTABLISH_IND
    net,            \* frames under way
    plan, begun,    \* how often each link may be, and has been, asked for
    trouble

cbkeVars == <<recs, events, poll, saved, pairs, installed, told, net, plan, begun, trouble>>

NoNode == "none"

\* Devices ask for keys of devices, and nobody is not one of them.
ASSUME CbkeAssumption == Links \subseteq Nodes \X Nodes /\ NoNode \notin Nodes /\ MaxRecs \in Nat

Slots == 1 .. MaxRecs
States == {"Idle", "InitiatePending", "EDataPending", "KeyCalculatePending",
           "ConfirmPending", "TerminationPending"}

\* zclGeneral_ResetKeyEstablishRec; and what osal_memset leaves has the
\* initiator's role.
Free == [partner |-> NoNode, role |-> "initiator", state |-> "Idle", app |-> FALSE,
         local |-> NoKey, remote |-> NoKey, key |-> NoKey]

CbkeFrame(from, to, cmd, val) == [from |-> from, to |-> to, cmd |-> cmd, val |-> val]
Terminate(from, to, status) == CbkeFrame(from, to, "Terminate", status)
Pair(n) == <<n, pairs[n] + 1>>

\* zclGeneral_KeyEstablishment_GenerateMAC, of the initiator (TRUE) or the
\* responder.
GenerateMAC(n, r, ifMACu) ==
    IF (r.role = "initiator") = ifMACu
       THEN [u |-> ifMACu, id |-> <<n, r.partner>>, eph |-> <<r.local, r.remote>>, key |-> r.key]
       ELSE [u |-> ifMACu, id |-> <<r.partner, n>>, eph |-> <<r.remote, r.local>>, key |-> r.key]

\* zclGeneral_GetKeyEstablishRecIndex.
RecIndex(n, p) == {i \in Slots : recs[n][i].partner = p}
HasRec(n, p) == RecIndex(n, p) /= {}
FirstFrame(S) == CHOOSE i \in S : \A j \in S : i <= j

\* Mutant: the entry is free again, but what it held is not wiped.
RemovedInPart(n, p) ==
    [recs EXCEPT ![n] =
        [i \in Slots |-> IF @[i].partner = p THEN [@[i] EXCEPT !.partner = NoNode] ELSE @[i]]]

\* zclGeneral_RemoveKeyEstablishRec.
Removed(n, p) ==
    [recs EXCEPT ![n] = [i \in Slots |-> IF @[i].partner = p THEN Free ELSE @[i]]]

\* zclGeneral_AddKeyEstablishRec: the exchange that there is with this partner
\* gives way.  The entries that may be taken, lowest first:
Room(n, p) == {i \in Slots : Removed(n, p)[n][i].partner = NoNode}
Added(n, p, rec) == [Removed(n, p) EXCEPT ![n][FirstFrame(Room(n, p))] = rec]

\* NLME_SetPollRate, at the start of an exchange and at its end.
PollFast(n) == poll' = [poll EXCEPT ![n] = "fast"] /\ saved' = [saved EXCEPT ![n] = poll[n]]
PollRestored(n) == poll' = [poll EXCEPT ![n] = saved[n]] /\ UNCHANGED saved
PollKept == UNCHANGED <<poll, saved>>

\* The frame m has been taken from the network, and those in out are sent;
\* a repeated frame stays there.
CbkeSend(m, out) ==
    \/ net' = (net \ {m}) \cup out /\ UNCHANGED trouble
    \/ trouble > 0 /\ trouble' = trouble - 1 /\ net' = net \cup out

-----------------------------------------------------------------------------
(* The application's call and the three requests of an initiator           *)

\* zclGeneral_KeyEstablish_InitiateKeyEstablishment.  Without memory for the
\* certificate nothing is sent, and the record stays.
InitiateKeyEstablishment(n, p) ==
    LET rec == [Free EXCEPT !.partner = p, !.app = TRUE, !.state = "InitiatePending",
                            !.local = Pair(n)] IN
    /\ begun[<<n, p>>] < plan[<<n, p>>] /\ begun' = [begun EXCEPT ![<<n, p>>] = @ + 1]
    /\ IF Room(n, p) = {}
          THEN recs' = Removed(n, p) /\ PollKept /\ UNCHANGED <<pairs, net, trouble>>
          ELSE /\ recs' = Added(n, p, rec) /\ pairs' = [pairs EXCEPT ![n] = @ + 1]
               /\ \/ /\ net' = net \cup {CbkeFrame(n, p, "Initiate", Issuer[n])}
                     /\ PollFast(n) /\ UNCHANGED trouble
                  \/ trouble > 0 /\ trouble' = trouble - 1 /\ PollKept /\ UNCHANGED net
    /\ UNCHANGED <<events, installed, told, plan>>

\* zclGeneral_ProcessInCmd_InitiateKeyEstablish.
ProcessInitiate(m) ==
    LET n == m.to  p == m.from
        rec == [Free EXCEPT !.partner = p] IN
    /\ m.cmd = "Initiate"
    /\ IF Room(n, p) = {}
          THEN /\ recs' = Removed(n, p) /\ PollKept
               /\ CbkeSend(m, {Terminate(n, p, "NoResources")})
       ELSE IF m.val /= Issuer[n]
          THEN /\ recs' = Added(n, p, rec) /\ PollKept
               /\ CbkeSend(m, {Terminate(n, p, "UnknowIssuer")})
       ELSE /\ recs' = Added(n, p, [rec EXCEPT !.state = "EDataPending", !.role = "responder"])
            /\ PollFast(n)
            /\ CbkeSend(m, {CbkeFrame(n, p, "InitiateRsp", Issuer[n])})
    /\ UNCHANGED <<events, pairs, installed, told, plan, begun>>

\* The record for the sender of m, if the frame is due: the others are answered
\* with a Terminate, and the record is removed.
Due(m, role, state) ==
    \E i \in RecIndex(m.to, m.from) :
        recs[m.to][i].role = role /\ recs[m.to][i].state = state
Rec(m) == recs[m.to][FirstFrame(RecIndex(m.to, m.from))]
With(m, rec) == [recs EXCEPT ![m.to][FirstFrame(RecIndex(m.to, m.from))] = rec]

BadMessage(m) ==
    /\ recs' = Removed(m.to, m.from) /\ PollRestored(m.to)
    /\ CbkeSend(m, {Terminate(m.to, m.from, "BadMessage")})

\* Mutant: the timer for the key's calculation is not started.
ProcessEphemeralDataReqOnly(m) ==
    /\ m.cmd = "EphemeralDataReq"
    /\ IF Due(m, "responder", "EDataPending")
          THEN /\ recs' = With(m, [Rec(m) EXCEPT !.remote = m.val, !.local = Pair(m.to),
                                                 !.state = "KeyCalculatePending"])
               /\ pairs' = [pairs EXCEPT ![m.to] = @ + 1]
               /\ PollKept /\ CbkeSend(m, {}) /\ UNCHANGED events
          ELSE BadMessage(m) /\ UNCHANGED <<pairs, events>>
    /\ UNCHANGED <<installed, told, plan, begun>>

\* zclGeneral_ProcessInCmd_EphemeralDataReq.
ProcessEphemeralDataReq(m) ==
    /\ m.cmd = "EphemeralDataReq"
    /\ IF Due(m, "responder", "EDataPending")
          THEN /\ recs' = With(m, [Rec(m) EXCEPT !.remote = m.val, !.local = Pair(m.to),
                                                 !.state = "KeyCalculatePending"])
               /\ pairs' = [pairs EXCEPT ![m.to] = @ + 1]
               /\ events' = [events EXCEPT ![m.to] = @ \cup {"cmd"}]
               /\ PollKept /\ CbkeSend(m, {})
          ELSE BadMessage(m) /\ UNCHANGED <<pairs, events>>
    /\ UNCHANGED <<installed, told, plan, begun>>

\* zclGeneral_ProcessInCmd_ConfirmKey: if the MAC is right the key is added.
ProcessConfirmKey(m) ==
    LET n == m.to  p == m.from IN
    /\ m.cmd = "ConfirmKey"
    /\ IF ~Due(m, "responder", "ConfirmPending") THEN BadMessage(m) /\ UNCHANGED installed
       ELSE IF m.val /= GenerateMAC(n, Rec(m), TRUE)
          THEN /\ CbkeSend(m, {Terminate(n, p, "BadKeyConfirm")}) /\ PollRestored(n)
               /\ UNCHANGED <<recs, installed>>
       ELSE /\ recs' = With(m, [Rec(m) EXCEPT !.state = "TerminationPending"])
            /\ installed' = installed \cup
                   {[at |-> n, with |-> p, key |-> Rec(m).key, role |-> "responder"]}
            /\ CbkeSend(m, {CbkeFrame(n, p, "ConfirmKeyRsp", GenerateMAC(n, Rec(m), FALSE))})
            /\ PollRestored(n)
    /\ UNCHANGED <<events, pairs, told, plan, begun>>

-----------------------------------------------------------------------------
(* The three responses                                                     *)

\* zclGeneral_ProcessInCmd_InitiateKeyEstablishRsp: a wrong issuer leaves the
\* record as it is.
ProcessInitiateRsp(m) ==
    /\ m.cmd = "InitiateRsp"
    /\ IF ~Due(m, "initiator", "InitiatePending") THEN BadMessage(m)
       ELSE IF m.val /= Issuer[m.to]
          THEN /\ CbkeSend(m, {Terminate(m.to, m.from, "UnknowIssuer")}) /\ PollRestored(m.to)
               /\ UNCHANGED recs
       ELSE /\ recs' = With(m, [Rec(m) EXCEPT !.state = "EDataPending"])
            /\ CbkeSend(m, {CbkeFrame(m.to, m.from, "EphemeralDataReq", Rec(m).local)}) /\ PollKept
    /\ UNCHANGED <<events, pairs, installed, told, plan, begun>>

\* zclGeneral_ProcessInCmd_EphemeralDataRsp.
ProcessEphemeralDataRsp(m) ==
    /\ m.cmd = "EphemeralDataRsp"
    /\ IF Due(m, "initiator", "EDataPending")
          THEN /\ recs' = With(m, [Rec(m) EXCEPT !.remote = m.val, !.state = "KeyCalculatePending"])
               /\ events' = [events EXCEPT ![m.to] = @ \cup {"rsp"}]
               /\ CbkeSend(m, {}) /\ PollKept
          ELSE BadMessage(m) /\ UNCHANGED events
    /\ UNCHANGED <<pairs, installed, told, plan, begun>>

\* Mutant: the confirmation's MAC is not compared.
ProcessConfirmKeyRspTrusting(m) ==
    /\ m.cmd = "ConfirmKeyRsp"
    /\ IF ~Due(m, "initiator", "ConfirmPending") THEN BadMessage(m) /\ UNCHANGED <<installed, told>>
       ELSE /\ recs' = Removed(m.to, m.from) /\ PollRestored(m.to) /\ CbkeSend(m, {})
            /\ told' = told \cup {<<m.to, "Success">>}
            /\ installed' = installed \cup
                   {[at |-> m.to, with |-> m.from, key |-> Rec(m).key, role |-> "initiator"]}
    /\ UNCHANGED <<events, pairs, plan, begun>>

\* zclGeneral_ProcessInCmd_ConfirmKeyRsp.  Without a record of the sender the
\* task to tell is read from behind the table, so that anyone may be told.
ProcessConfirmKeyRsp(m) ==
    LET n == m.to  p == m.from
        due == Due(m, "initiator", "ConfirmPending")
        right == due /\ m.val = GenerateMAC(n, Rec(m), FALSE)
        status == IF right THEN "Success" ELSE IF due THEN "BadKeyConfirm" ELSE "BadMessage" IN
    /\ m.cmd = "ConfirmKeyRsp"
    /\ recs' = Removed(n, p) /\ PollRestored(n)
    /\ CbkeSend(m, IF right THEN {} ELSE {Terminate(n, p, status)})
    /\ installed' = IF right
                    THEN installed \cup
                           {[at |-> n, with |-> p, key |-> Rec(m).key, role |-> "initiator"]}
                    ELSE installed
    /\ \E tell \in IF HasRec(n, p) THEN {Rec(m).app} ELSE BOOLEAN :
          told' = IF tell THEN told \cup {<<n, status>>} ELSE told
    /\ UNCHANGED <<events, pairs, plan, begun>>

\* zclGeneral_ProcessInCmd_TerminateKeyEstablish.  A responder's record names
\* task 0, to which the indication goes then.
ProcessTerminate(m) ==
    /\ m.cmd = "Terminate" /\ CbkeSend(m, {})
    /\ IF HasRec(m.to, m.from)
          THEN /\ recs' = Removed(m.to, m.from) /\ PollRestored(m.to)
               /\ told' = IF Rec(m).app THEN told \cup {<<m.to, m.val>>} ELSE told
          ELSE PollKept /\ UNCHANGED <<recs, told>>
    /\ UNCHANGED <<events, pairs, installed, plan, begun>>

CbkeReceive ==
    \E m \in net :
        \/ ProcessInitiate(m) \/ ProcessEphemeralDataReq(m) \/ ProcessConfirmKey(m)
        \/ ProcessInitiateRsp(m) \/ ProcessEphemeralDataRsp(m) \/ ProcessConfirmKeyRsp(m)
        \/ ProcessTerminate(m)

-----------------------------------------------------------------------------
(* The task's events                                                       *)

\* ZSE_ECCKeyBitGenerate.
KeyBit(r) == {r.local, r.remote}

\* zclGeneral_InitiateKeyEstablish_Cmd_CalculateKey and ..._Rsp_CalculateKey:
\* the first record that waits for its key is taken, whichever event it was.
\* Without memory it goes on waiting; a calculation that fails ends in a
\* Terminate, and it goes on waiting too.
CalculateKey(n, e) ==
    LET waiting == {i \in Slots : recs[n][i].state = "KeyCalculatePending"}
        i == FirstFrame(waiting)
        r == [recs[n][i] EXCEPT !.key = KeyBit(recs[n][i]), !.state = "ConfirmPending"] IN
    /\ e \in events[n] /\ events' = [events EXCEPT ![n] = @ \ {e}]
    /\ IF waiting = {} THEN PollKept /\ UNCHANGED <<recs, net, trouble>>
       ELSE \/ /\ recs' = [recs EXCEPT ![n][i] = r]
               /\ net' = net \cup
                     {IF e = "cmd" THEN CbkeFrame(n, r.partner, "EphemeralDataRsp", r.local)
                                   ELSE CbkeFrame(n, r.partner, "ConfirmKey", GenerateMAC(n, r, TRUE))}
               /\ PollKept /\ UNCHANGED trouble
            \/ /\ trouble > 0 /\ trouble' = trouble - 1 /\ UNCHANGED recs
               /\ \/ PollKept /\ UNCHANGED net
                  \/ PollRestored(n) /\ net' = net \cup {Terminate(n, r.partner, "BadKeyConfirm")}
    /\ UNCHANGED <<pairs, installed, told, plan, begun>>

\* zclGeneral_AgeKeyEstablishRec: an exchange ends after 255 s.  Frames and
\* events take a few seconds at most.
AgeKeyEstablishRec(n, i) ==
    /\ recs[n][i].partner /= NoNode
    /\ events[n] = {} /\ events[recs[n][i].partner] = {}
    /\ ~\E m \in net : n \in {m.from, m.to}
    /\ recs' = [recs EXCEPT ![n][i] = Free]
    /\ UNCHANGED <<events, poll, saved, pairs, installed, told, net, plan, begun, trouble>>

-----------------------------------------------------------------------------
(* The network, and restarts                                               *)

Lose(m) ==
    /\ trouble > 0 /\ trouble' = trouble - 1 /\ net' = net \ {m}
    /\ UNCHANGED <<recs, events, poll, saved, pairs, installed, told, plan, begun>>

\* zclGeneral_KeyEstablish_Init; the application gets no more indications.
Restart(n) ==
    /\ trouble > 0 /\ trouble' = trouble - 1
    /\ \E i \in Slots : recs[n][i] /= Free
    /\ recs' = [recs EXCEPT ![n] = [i \in Slots |-> Free]]
    /\ events' = [events EXCEPT ![n] = {}]
    /\ poll' = [poll EXCEPT ![n] = "usual"] /\ saved' = [saved EXCEPT ![n] = "usual"]
    /\ UNCHANGED <<pairs, installed, told, net, plan, begun>>

CbkeInit ==
    /\ recs = [n \in Nodes |-> [i \in Slots |-> Free]]
    /\ events = [n \in Nodes |-> {}]
    /\ poll = [n \in Nodes |-> "usual"] /\ saved = [n \in Nodes |-> "usual"]
    /\ pairs = [n \in Nodes |-> 0]
    /\ installed = {} /\ told = {} /\ net = {}
    /\ plan \in Plans /\ begun = [l \in Links |-> 0] /\ trouble = MaxTrouble

Event == \E n \in Nodes : \E e \in events[n] : CalculateKey(n, e)
Age == \E n \in Nodes, i \in Slots : AgeKeyEstablishRec(n, i)

CbkeNext ==
    \/ \E l \in Links : InitiateKeyEstablishment(l[1], l[2])
    \/ CbkeReceive \/ Event \/ Age
    \/ \E m \in net : Lose(m)
    \/ \E n \in Nodes : Restart(n)

\* A frame that is not lost arrives, and the tasks run.
Fairness == WF_cbkeVars(CbkeReceive) /\ WF_cbkeVars(Event) /\ WF_cbkeVars(Age)

CbkeSpec == CbkeInit /\ [][CbkeNext]_cbkeVars /\ Fairness

-----------------------------------------------------------------------------
(* Properties                                                              *)

Tokens == Nodes \X Nat

TypeOK ==
    /\ \A n \in Nodes, i \in Slots :
          LET r == recs[n][i] IN
          /\ r.partner \in Nodes \cup {NoNode} /\ r.role \in {"initiator", "responder"}
          /\ r.state \in States /\ r.app \in BOOLEAN
          /\ r.local = NoKey \/ r.local \in Tokens
          /\ r.remote = NoKey \/ r.remote \in Tokens
          /\ r.key = NoKey \/ r.key \subseteq Tokens
    /\ \A n \in Nodes : events[n] \subseteq {"cmd", "rsp"}
    /\ \A m \in net : m.from \in Nodes /\ m.to \in Nodes

\* The table never has two exchanges with one partner, and an exchange has of
\* the secret just what belongs to its state: its own pair and the partner's
\* before it waits for the key, the key before it waits for a confirmation,
\* and nothing is left in an entry that is free.
RecordsSound ==
    /\ TypeOK
    /\ \A n \in Nodes, i \in Slots :
          LET r == recs[n][i] IN
          /\ \A j \in Slots : i /= j /\ r.partner = recs[n][j].partner => r.partner = NoNode
          /\ r.partner = NoNode => r = Free
          /\ r.state \in {"KeyCalculatePending", "ConfirmPending", "TerminationPending"} =>
                 r.local[1] = n /\ r.remote[1] = r.partner
          /\ r.key = IF r.state \in {"ConfirmPending", "TerminationPending"} THEN KeyBit(r) ELSE NoKey
          /\ r.state = "TerminationPending" => r.role = "responder"

\* Key agreement: an initiator adds a link key, and tells its application of
\* success, only when its partner has added the same key for it; the key comes
\* from a pair of each; and no two exchanges have the same key.
KeysAgree ==
    /\ \A k \in installed :
          /\ {t[1] : t \in k.key} = {k.at, k.with}
          /\ k.role = "initiator" =>
                [at |-> k.with, with |-> k.at, key |-> k.key, role |-> "responder"] \in installed
          /\ \A j \in installed : j.key = k.key => {j.at, j.with} = {k.at, k.with}
    /\ \A n \in Nodes :
          <<n, "Success">> \in told => \E k \in installed : k.at = n /\ k.role = "initiator"

\* Key establishment: records apart, never different keys.
CbkeSound == RecordsSound /\ KeysAgree

Alone(l) == trouble = MaxTrouble /\ \A k \in Links : begun[k] = IF k = l THEN 1 ELSE 0

\* An exchange that is alone, and that nothing disturbs, comes to its end:
\* the two have the key if one issuer has signed for both, the initiator's
\* application is told of the outcome, and both poll at the usual rate again.
AloneSucceeds ==
    <>[](\A l \in Links : Alone(l) =>
            /\ \E s \in {"Success", "UnknowIssuer"} :
                 <<l[1], s>> \in told /\ (s = "Success" <=> Issuer[l[1]] = Issuer[l[2]])
            /\ \A n \in Nodes : poll[n] = "usual" /\ recs[n] = [i \in Slots |-> Free])
=============================================================================
