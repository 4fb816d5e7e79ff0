--------------------------- MODULE ProtocolProofs ---------------------------
(***************************************************************************)
(* Proofs about two protocols between devices that lose, repeat or reorder *)
(* messages, ZdNwkMgr and ZclKeyEstablish, and about ZclScenes, whose      *)
(* saves and restores a power failure may cut short.                       *)
(*                                                                         *)
(* The network manager, for any routers, channels, PAN ids and counts.     *)
(* Each device keeps its own scans in order: unless a request crossed a    *)
(* confirmation, one scan at most runs or is to be confirmed, and what is  *)
(* still to do is not more than what was asked for.  Between the devices,  *)
(* a change of channel is over before the first minute of its period is,   *)
(* so there is one change at most; a device the broadcast has not reached  *)
(* is one update behind, and every other one has the channel of the change *)
(* or waits for its timer to take it.                                      *)
(*                                                                         *)
(* Key establishment, for any devices and sizes of the table.  A frame     *)
(* with a key pair has its sender's, so what an exchange has of the secret *)
(* comes from its two ends, whichever frames of whichever attempt they     *)
(* were; and a confirmation's MAC, which is made only when the responder   *)
(* adds the key, contains the key, so that an initiator that finds its own *)
(* in it has a responder with the same key.                                *)
(*                                                                         *)
(* Scenes, for any groups, scenes and size of the table.  While a save is  *)
(* under way the records up to its next write are the new table's and the  *)
(* others the old one's, and as the two differ in one record at most, or   *)
(* one at the end, the number in the header makes either of them whole.    *)
(***************************************************************************)
EXTENDS ZdNwkMgr, ZclKeyEstablish, ZclScenes, SequenceTheorems, FiniteSetTheorems, WellFoundedInduction, TLAPS

-----------------------------------------------------------------------------
(* The network manager: the inductive invariant                            *)

Who == NwkDevices \cup {Tool, NoDevice}

DeviceRec ==
    [channel : Channels, id : 0 .. IdSize - 1, manager : NwkDevices,
     newChannel : Channels \cup {0}, due : BOOLEAN, scanning : Who, confirm : Who,
     count : 0 .. FF, scanEvt : BOOLEAN, addr : Who \cup {"other"}, asker : Who,
     left : Int, wrong : BOOLEAN, crossed : BOOLEAN, sent : 0 .. ReportMax,
     timer : 0 .. Period, runs : BOOLEAN]

\* For whom the scan is made that runs, or whose confirmation waits.
ScanFor(s) == IF s.scanning # NoDevice THEN s.scanning ELSE s.confirm

\* As long as nothing has crossed: there is one scan at most; one for a request is for
\* the device the results go to, and with those still to do it was asked for.
Counts(s) ==
    /\ s.left >= 0 /\ ~s.wrong
    /\ s.scanning = NoDevice \/ s.confirm = NoDevice
    /\ s.count = FF => ScanFor(s) # NoDevice
    /\ s.count # FF /\ s.count > 0 /\ ScanFor(s) = NoDevice =>
          s.left >= s.count /\ s.addr = s.asker /\ s.asker # NoDevice
    /\ s.count # FF /\ ScanFor(s) # NoDevice =>
          s.left >= s.count + 1 /\ s.addr = s.asker /\ s.asker = ScanFor(s)

DeviceOK(s) ==
    /\ s \in DeviceRec
    /\ s.due => s.newChannel \in Channels
    /\ s.count = FF => s.sent < ReportMax
    /\ ~s.crossed => Counts(s)

Copy == [to : NwkDevices, from : {Manager, Tool}, id : 0 .. IdSize - 1,
         channel : Channels \cup {0}, manager : NwkDevices \cup {NoDevice}]

NwkTypeInv ==
    /\ dev \in [NwkDevices -> DeviceRec]
    /\ \A d \in NwkDevices : DeviceOK(dev[d])
    /\ nwkAir \subseteq Copy
    /\ \A p \in nwkAir : /\ p.from = Manager => p.channel \in Channels
                         /\ p.from = Tool => p.manager \in NwkDevices
    /\ reqTimer \in 0 .. Period /\ since \in 0 .. Period + 1 /\ notes \in 0 .. 2
    /\ panInUse \in PanIds /\ missed \in BOOLEAN

\* A change is over before the first minute of its period is.
PeriodInv ==
    /\ since + reqTimer >= Period
    /\ (\E p \in nwkAir : p.from = Manager) => reqTimer = Period
    /\ \A d \in NwkDevices : dev[d].due => reqTimer = Period

Pending(d) == \E p \in nwkAir : p.to = d
Final(s) == IF s.due THEN s.newChannel ELSE s.channel

\* What is on its way ...
AirInv ==
    /\ \A p, q \in nwkAir : /\ p.to = q.to => p = q
                            /\ p.id = q.id /\ p.from = q.from /\ p.channel = q.channel
    /\ \A p \in nwkAir :
          /\ dev[p.to].id + 1 = p.id /\ ~dev[p.to].due
          /\ dev[p.to].channel = dev[Manager].channel
          /\ p.from = Manager =>
                /\ p.to # Manager /\ dev[Manager].id = p.id
                /\ dev[Manager].due /\ dev[Manager].newChannel = p.channel
                /\ p.channel # dev[Manager].channel

\* ... and those it is not on its way to: they have it, or there is none.
DoneInv ==
    /\ \A p \in nwkAir : \A d \in NwkDevices : ~Pending(d) =>
          /\ dev[d].id = p.id
          /\ p.from = Manager => Final(dev[d]) = p.channel
          /\ p.from = Tool => ~dev[d].due /\ dev[d].channel = dev[Manager].channel
    /\ nwkAir = {} => \A d \in NwkDevices :
          dev[d].id = dev[Manager].id /\ Final(dev[d]) = Final(dev[Manager])

NwkMgrInv == NwkTypeInv /\ PeriodInv /\ (~missed => AirInv /\ DoneInv)

-----------------------------------------------------------------------------
(* What a step does to one device                                          *)

SameNet(s, t) ==
    /\ t.channel = s.channel /\ t.id = s.id
    /\ t.due = s.due /\ t.newChannel = s.newChannel

LEMMA StartOK == DeviceOK(Start) /\ Start.due = FALSE /\ Start.id = FirstId
<1>1. Start.channel \in Channels
  BY NwkMgrAssumption DEF Start
<1>2. Start.count = 0 /\ 0 # FF /\ ScanFor(Start) = NoDevice
  BY NwkMgrAssumption DEF Start, ScanFor
<1>3. DeviceOK(Start)
  BY <1>1, <1>2, NwkMgrAssumption DEF DeviceOK, DeviceRec, Who, Start, Counts, ScanFor
<1> QED
  BY <1>3 DEF Start

\* ChannelInterference
Noticing(s, d) == [s EXCEPT !.scanning = d, !.count = FF, !.crossed = Crossing(s)]

LEMMA NoticingOK ==
    ASSUME NEW s, DeviceOK(s), NEW d \in NwkDevices,
           s.sent < ReportMax, s.scanning = NoDevice
    PROVE  DeviceOK(Noticing(s, d)) /\ SameNet(s, Noticing(s, d))
<1> DEFINE t == Noticing(s, d)
<1>0. s \in DeviceRec /\ d \in Who /\ d # NoDevice /\ FF \in 0 .. FF
  BY NwkMgrAssumption DEF DeviceOK, Who
<1>1. t \in DeviceRec
  BY <1>0, NwkMgrAssumption DEF DeviceRec, Noticing, Crossing
<1>2. /\ SameNet(s, t)
      /\ t.scanning = d /\ t.count = FF /\ t.sent = s.sent /\ t.confirm = s.confirm
      /\ t.left = s.left /\ t.wrong = s.wrong
      /\ t.crossed = (s.crossed \/ s.confirm # NoDevice)
  BY <1>0 DEF DeviceRec, Noticing, Crossing, SameNet
<1>3. ~t.crossed => Counts(t)
  <2> SUFFICES ASSUME ~t.crossed PROVE Counts(t)
    OBVIOUS
  <2>1. ~s.crossed /\ s.confirm = NoDevice /\ Counts(s)
    BY <1>2 DEF DeviceOK
  <2> HIDE DEF t
  <2> QED
    BY <2>1, <1>0, <1>2 DEF Counts, ScanFor
<1> HIDE DEF t
<1>4. DeviceOK(t)
  BY <1>1, <1>2, <1>3 DEF DeviceOK, SameNet
<1> QED
  BY <1>2, <1>4 DEF t

\* ScanRequest
Asked(s, n, from) ==
    [s EXCEPT !.scanning = from, !.addr = from, !.count = ScansToDo(n),
              !.asker = from, !.left = n, !.crossed = Crossing(s)]

LEMMA AskedOK ==
    ASSUME NEW s, DeviceOK(s), NEW n \in 1 .. ScanMax, NEW from \in Who,
           from # NoDevice, s.scanning = NoDevice
    PROVE  DeviceOK(Asked(s, n, from)) /\ SameNet(s, Asked(s, n, from))
<1> DEFINE t == Asked(s, n, from)
<1>0. s \in DeviceRec /\ n - 1 \in 0 .. FF /\ n - 1 # FF /\ n \in Int
  BY NwkMgrAssumption DEF DeviceOK
<1>1. t \in DeviceRec
  BY <1>0 DEF DeviceRec, Asked, Crossing, ScansToDo
<1>2. /\ SameNet(s, t)
      /\ t.scanning = from /\ t.count = n - 1 /\ t.addr = from /\ t.asker = from
      /\ t.left = n /\ t.wrong = s.wrong /\ t.confirm = s.confirm
      /\ t.crossed = (s.crossed \/ s.confirm # NoDevice)
  BY <1>0 DEF DeviceRec, Asked, Crossing, SameNet, ScansToDo
<1>3. ~t.crossed => Counts(t)
  <2> SUFFICES ASSUME ~t.crossed PROVE Counts(t)
    OBVIOUS
  <2>1. ~s.crossed /\ s.confirm = NoDevice /\ Counts(s)
    BY <1>2 DEF DeviceOK
  <2> HIDE DEF t
  <2> QED
    BY <2>1, <1>0, <1>2 DEF Counts, ScanFor
<1> HIDE DEF t
<1>4. DeviceOK(t)
  BY <1>0, <1>1, <1>2, <1>3 DEF DeviceOK, SameNet
<1> QED
  BY <1>2, <1>4 DEF t

\* BadRequest
TurnedAway(s, from) == [s EXCEPT !.addr = from, !.crossed = TRUE]

LEMMA RefusedOK ==
    ASSUME NEW s, DeviceOK(s), NEW from \in Who \cup {"other"}
    PROVE  DeviceOK(TurnedAway(s, from)) /\ SameNet(s, TurnedAway(s, from))
  BY DEF DeviceOK, DeviceRec, TurnedAway, SameNet

\* ScanEnds: confirmed, or the confirmation lost
Confirmed(s) == [s EXCEPT !.scanning = NoDevice, !.confirm = s.scanning]
Unconfirmed(s) == [s EXCEPT !.scanning = NoDevice, !.crossed = TRUE]

LEMMA ScanEndsOK ==
    ASSUME NEW s, DeviceOK(s), s.scanning # NoDevice
    PROVE  /\ s.confirm = NoDevice =>
                DeviceOK(Confirmed(s)) /\ SameNet(s, Confirmed(s))
           /\ DeviceOK(Unconfirmed(s)) /\ SameNet(s, Unconfirmed(s))
<1>0. s \in DeviceRec /\ NoDevice \in Who
  BY DEF DeviceOK, Who
<1>1. Confirmed(s) \in DeviceRec /\ Unconfirmed(s) \in DeviceRec
  BY <1>0 DEF DeviceRec, Confirmed, Unconfirmed
<1>2. /\ SameNet(s, Unconfirmed(s)) /\ Unconfirmed(s).crossed
      /\ Unconfirmed(s).count = s.count /\ Unconfirmed(s).sent = s.sent
  BY <1>0 DEF DeviceRec, Unconfirmed, SameNet
<1>3. DeviceOK(Unconfirmed(s))
  BY <1>1, <1>2 DEF DeviceOK, SameNet
<1> DEFINE t == Confirmed(s)
<1>4. /\ SameNet(s, t)
      /\ t.scanning = NoDevice /\ t.confirm = s.scanning
      /\ t.count = s.count /\ t.addr = s.addr /\ t.asker = s.asker /\ t.left = s.left
      /\ t.wrong = s.wrong /\ t.crossed = s.crossed /\ t.sent = s.sent
  BY <1>0 DEF DeviceRec, Confirmed, SameNet
<1> HIDE DEF t
<1>5. ScanFor(t) = ScanFor(s)
  BY <1>4 DEF ScanFor
<1>6. Counts(s) => Counts(t)
  BY <1>4, <1>5 DEF Counts
<1>7. DeviceOK(t)
  BY <1>1, <1>4, <1>6 DEF DeviceOK, SameNet, t
<1> QED
  BY <1>2, <1>3, <1>4, <1>7 DEF t

\* ProcessEDScanConfirm, with interference and without, and for a request
Interfered(s) ==
    [[s EXCEPT !.confirm = NoDevice] EXCEPT
        !.addr = s.manager, !.sent = s.sent + 1, !.count = 0,
        !.timer = IF s.sent = 0 THEN Period ELSE s.timer,
        !.runs = s.runs \/ s.sent = 0]
Stilled(s) == [[s EXCEPT !.confirm = NoDevice] EXCEPT !.count = 0]
Answered(s) ==
    [[s EXCEPT !.confirm = NoDevice] EXCEPT
        !.left = IF s.left > -1 /\ s.addr = s.asker THEN s.left - 1 ELSE s.left,
        !.wrong = s.wrong \/ s.confirm # s.addr,
        !.scanEvt = s.scanEvt \/ s.count > 0]

LEMMA InterferedOK ==
    ASSUME NEW s, DeviceOK(s), s.confirm # NoDevice, s.count = FF
    PROVE  /\ DeviceOK(Interfered(s)) /\ SameNet(s, Interfered(s))
           /\ DeviceOK(Stilled(s)) /\ SameNet(s, Stilled(s))
<1>0. /\ s \in DeviceRec /\ NoDevice \in Who /\ 0 \in 0 .. FF /\ 0 # FF
      /\ s.sent + 1 \in 0 .. ReportMax /\ Period \in 0 .. Period
      /\ s.manager \in Who \cup {"other"}
  BY NwkMgrAssumption DEF DeviceOK, Who, DeviceRec
<1>1. Interfered(s) \in DeviceRec
  BY ZenonT(60), <1>0 DEF DeviceRec, Interfered
<1>2. Stilled(s) \in DeviceRec
  BY <1>0 DEF DeviceRec, Stilled
<1>3. ASSUME NEW t \in DeviceRec, SameNet(s, t), t.count = 0,
             t.confirm = NoDevice, t.scanning = s.scanning, t.left = s.left,
             t.wrong = s.wrong, t.crossed = s.crossed
      PROVE  DeviceOK(t)
  <2>1. ~s.crossed => s.scanning = NoDevice /\ s.left >= 0 /\ ~s.wrong
    BY DEF DeviceOK, Counts
  <2>2. ~t.crossed => Counts(t)
    BY <1>0, <1>3, <2>1 DEF Counts, ScanFor
  <2> QED
    BY <1>0, <1>3, <2>2 DEF DeviceOK, SameNet
<1>4. /\ SameNet(s, Interfered(s)) /\ Interfered(s).count = 0
      /\ Interfered(s).confirm = NoDevice /\ Interfered(s).scanning = s.scanning
      /\ Interfered(s).left = s.left /\ Interfered(s).wrong = s.wrong
      /\ Interfered(s).crossed = s.crossed
  BY <1>0 DEF DeviceRec, Interfered, SameNet
<1>5. /\ SameNet(s, Stilled(s)) /\ Stilled(s).count = 0
      /\ Stilled(s).confirm = NoDevice /\ Stilled(s).scanning = s.scanning
      /\ Stilled(s).left = s.left /\ Stilled(s).wrong = s.wrong
      /\ Stilled(s).crossed = s.crossed
  BY <1>0 DEF DeviceRec, Stilled, SameNet
<1>6. DeviceOK(Interfered(s))
  BY <1>1, <1>3, <1>4
<1>7. DeviceOK(Stilled(s))
  BY <1>2, <1>3, <1>5
<1> QED
  BY <1>4, <1>5, <1>6, <1>7

LEMMA AnsweredOK ==
    ASSUME NEW s, DeviceOK(s), s.confirm # NoDevice, s.count # FF
    PROVE  DeviceOK(Answered(s)) /\ SameNet(s, Answered(s))
<1> DEFINE t == Answered(s)
<1>0. s \in DeviceRec /\ NoDevice \in Who
  BY DEF DeviceOK, Who
<1>1. s.left \in Int /\ s.wrong \in BOOLEAN /\ s.scanEvt \in BOOLEAN /\ s.count \in 0 .. FF
  BY <1>0 DEF DeviceRec
<1> DEFINE l == IF s.left > -1 /\ s.addr = s.asker THEN s.left - 1 ELSE s.left
           w == s.wrong \/ s.confirm # s.addr
           v == s.scanEvt \/ s.count > 0
<1>2. t \in DeviceRec
  <2>1. l \in Int /\ w \in BOOLEAN /\ v \in BOOLEAN
    BY <1>1
  <2>2. t = [[s EXCEPT !.confirm = NoDevice] EXCEPT !.left = l, !.wrong = w, !.scanEvt = v]
    BY DEF Answered
  <2> HIDE DEF t, l, w, v
  <2> QED
    BY <1>0, <2>1, <2>2 DEF DeviceRec
<1>3. /\ SameNet(s, t)
      /\ t.scanning = s.scanning /\ t.confirm = NoDevice
      /\ t.count = s.count /\ t.addr = s.addr /\ t.asker = s.asker
      /\ t.left = (IF s.left > -1 /\ s.addr = s.asker THEN s.left - 1 ELSE s.left)
      /\ t.wrong = (s.wrong \/ s.confirm # s.addr)
      /\ t.crossed = s.crossed
  BY <1>0 DEF DeviceRec, Answered, SameNet
<1> HIDE DEF t
<1>4. ~t.crossed => Counts(t)
  <2> SUFFICES ASSUME ~t.crossed PROVE Counts(t)
    OBVIOUS
  <2>1. /\ Counts(s) /\ s.scanning = NoDevice /\ ScanFor(s) = s.confirm
        /\ s.left >= s.count + 1 /\ s.addr = s.asker /\ s.asker = s.confirm
    BY <1>3 DEF DeviceOK, Counts, ScanFor
  <2>2. /\ t.left = s.left - 1 /\ ~t.wrong /\ ScanFor(t) = NoDevice
    BY <2>1, <1>1, <1>3 DEF ScanFor, Counts
  <2> QED
    BY <2>1, <2>2, <1>1, <1>3 DEF Counts, NoDevice
<1>5. DeviceOK(t)
  BY <1>2, <1>3, <1>4 DEF DeviceOK, SameNet
<1> QED
  BY <1>3, <1>5 DEF t

\* ZDNWKMGR_SCAN_REQUEST_EVT
Again(s) ==
    [[s EXCEPT !.scanEvt = FALSE] EXCEPT !.scanning = s.asker, !.count = s.count - 1]
NotAgain(s) == [s EXCEPT !.scanEvt = FALSE]

LEMMA ScanRequestEvtOK ==
    ASSUME NEW s, DeviceOK(s), s.confirm = NoDevice
    PROVE  /\ s.count > 0 /\ s.scanning = NoDevice =>
                DeviceOK(Again(s)) /\ SameNet(s, Again(s))
           /\ DeviceOK(NotAgain(s)) /\ SameNet(s, NotAgain(s))
<1>0. s \in DeviceRec /\ s.count \in 0 .. FF /\ s.left \in Int
  BY DEF DeviceOK, DeviceRec
<1>1. DeviceOK(NotAgain(s)) /\ SameNet(s, NotAgain(s))
  BY DEF DeviceOK, DeviceRec, NotAgain, SameNet, Counts, ScanFor
<1>2. ASSUME s.count > 0, s.scanning = NoDevice
      PROVE  DeviceOK(Again(s)) /\ SameNet(s, Again(s))
  <2> DEFINE t == Again(s)
  <2>0. s.count - 1 \in 0 .. FF /\ s.count - 1 # FF
    BY <1>0, <1>2, NwkMgrAssumption
  <2>1. t \in DeviceRec
    BY <1>0, <2>0 DEF DeviceRec, Again
  <2>2. /\ SameNet(s, t)
        /\ t.scanning = s.asker /\ t.confirm = s.confirm
        /\ t.count = s.count - 1 /\ t.addr = s.addr /\ t.asker = s.asker
        /\ t.left = s.left /\ t.wrong = s.wrong /\ t.crossed = s.crossed /\ t.sent = s.sent
    BY <1>0 DEF DeviceRec, Again, SameNet
  <2> HIDE DEF t
  <2>3. ~t.crossed => Counts(t)
    <3> SUFFICES ASSUME ~t.crossed PROVE Counts(t)
      OBVIOUS
    <3>1. Counts(s) /\ ScanFor(s) = NoDevice
      BY <2>2, <1>2 DEF DeviceOK, ScanFor
    <3>2. /\ s.count # FF /\ s.left >= s.count /\ s.addr = s.asker
          /\ s.asker # NoDevice /\ ~s.wrong /\ s.left >= 0
      BY <3>1, <1>2 DEF Counts
    <3>3. ScanFor(t) = s.asker
      BY <2>2, <3>2 DEF ScanFor
    <3> QED
      BY <3>2, <3>3, <2>0, <2>2, <1>0 DEF Counts
  <2>4. DeviceOK(t)
    BY <2>0, <2>1, <2>2, <2>3 DEF DeviceOK, SameNet
  <2> QED
    BY <2>2, <2>4 DEF t
<1> QED
  BY <1>1, <1>2

LEMMA NotifyEvtOK ==
    ASSUME NEW s, DeviceOK(s)
    PROVE  DeviceOK(NotifyEvt(s)) /\ SameNet(s, NotifyEvt(s))
<1>0. s \in DeviceRec /\ s.timer \in 0 .. Period /\ s.sent \in 0 .. ReportMax
  BY DEF DeviceOK, DeviceRec
<1>1. CASE ~s.runs
  BY <1>1 DEF NotifyEvt, SameNet
<1>2. CASE s.runs /\ s.timer > 0
  <2> DEFINE t == NotifyEvt(s)
  <2>1. t = [s EXCEPT !.timer = s.timer - 1] /\ s.timer - 1 \in 0 .. Period
    BY <1>0, <1>2, NwkMgrAssumption DEF NotifyEvt
  <2> HIDE DEF t
  <2>2. DeviceOK(t) /\ SameNet(s, t)
    BY <2>1 DEF DeviceOK, DeviceRec, SameNet, Counts, ScanFor
  <2> QED
    BY <2>2 DEF t
<1>3. CASE s.runs /\ ~(s.timer > 0)
  <2> DEFINE t == NotifyEvt(s)
  <2>1. /\ t = [s EXCEPT !.sent = 0, !.runs = FALSE] /\ 0 \in 0 .. ReportMax
        /\ s.count = FF => 0 < ReportMax
    BY <1>0, <1>3, NwkMgrAssumption DEF NotifyEvt, DeviceOK
  <2> HIDE DEF t
  <2>2. DeviceOK(t) /\ SameNet(s, t)
    BY <2>1 DEF DeviceOK, DeviceRec, SameNet, Counts, ScanFor
  <2> QED
    BY <2>2 DEF t
<1> QED
  BY <1>1, <1>2, <1>3

LEMMA ManagerSetOK ==
    ASSUME NEW s, DeviceOK(s), NEW e \in NwkDevices
    PROVE  DeviceOK(SetNwkManagerAddr(s, e)) /\ SameNet(s, SetNwkManagerAddr(s, e))
  BY DEF DeviceOK, DeviceRec, SetNwkManagerAddr, SameNet, Counts, ScanFor
-----------------------------------------------------------------------------
(* Every step keeps the invariant                                          *)

\* The channels, the ids and what is on its way stay as they are.
LEMMA NetKept ==
    ASSUME NwkTypeInv, AirInv, DoneInv, nwkAir' = nwkAir,
           \A d \in NwkDevices : SameNet(dev[d], dev'[d])
    PROVE  AirInv' /\ DoneInv'
<1>1. \A p \in nwkAir : p.to \in NwkDevices
  BY DEF NwkTypeInv, Copy
<1>2. Manager \in NwkDevices
  BY NwkMgrAssumption
<1>3. AirInv'
  BY <1>1, <1>2 DEF AirInv, SameNet
<1>4. \A d \in NwkDevices : Final(dev[d])' = Final(dev[d]) /\ Pending(d)' = Pending(d)
  BY DEF SameNet, Final, Pending
<1>5. DoneInv'
  BY <1>2, <1>4 DEF DoneInv, SameNet
<1> QED
  BY <1>3, <1>5

LEMMA Quietly ==
    ASSUME NwkMgrInv, dev' \in [NwkDevices -> DeviceRec],
           \A d \in NwkDevices : DeviceOK(dev'[d]) /\ SameNet(dev[d], dev'[d]),
           UNCHANGED <<nwkAir, reqTimer, since, missed>>,
           notes' \in 0 .. 2, panInUse' \in PanIds
    PROVE  NwkMgrInv'
<1>1. NwkTypeInv'
  BY DEF NwkMgrInv, NwkTypeInv
<1>2. PeriodInv'
  BY DEF NwkMgrInv, PeriodInv, SameNet
<1>3. ~missed => (AirInv /\ DoneInv)'
  BY NetKept DEF NwkMgrInv
<1> QED
  BY <1>1, <1>2, <1>3 DEF NwkMgrInv

LEMMA OneQuietly ==
    ASSUME NwkMgrInv, NEW d \in NwkDevices, NEW t,
           dev' = [dev EXCEPT ![d] = t], DeviceOK(t), SameNet(dev[d], t),
           UNCHANGED <<nwkAir, reqTimer, since, missed>>,
           notes' \in 0 .. 2, panInUse' \in PanIds
    PROVE  NwkMgrInv'
<1>1. dev \in [NwkDevices -> DeviceRec] /\ \A e \in NwkDevices : DeviceOK(dev[e])
  BY DEF NwkMgrInv, NwkTypeInv
<1>2. t \in DeviceRec
  BY DEF DeviceOK
<1>3. /\ dev' \in [NwkDevices -> DeviceRec]
      /\ \A e \in NwkDevices : dev'[e] = IF e = d THEN t ELSE dev[e]
  BY <1>1, <1>2
<1>4. \A e \in NwkDevices : DeviceOK(dev'[e]) /\ SameNet(dev[e], dev'[e])
  BY <1>1, <1>3 DEF SameNet
<1> QED
  BY <1>3, <1>4, Quietly

LEMMA TypeFacts ==
    ASSUME NwkMgrInv
    PROVE  /\ dev \in [NwkDevices -> DeviceRec]
           /\ \A d \in NwkDevices : DeviceOK(dev[d]) /\ dev[d] \in DeviceRec
           /\ notes \in 0 .. 2 /\ panInUse \in PanIds
           /\ reqTimer \in 0 .. Period /\ since \in 0 .. Period + 1
           /\ missed \in BOOLEAN /\ nwkAir \subseteq Copy
  BY DEF NwkMgrInv, NwkTypeInv

LEMMA InterferenceStep ==
    ASSUME NwkMgrInv, NEW d \in NwkDevices, ChannelInterference(d)
    PROVE  NwkMgrInv'
<1>1. /\ UNCHANGED <<nwkAir, reqTimer, since, missed>>
      /\ notes' \in 0 .. 2 /\ panInUse' \in PanIds /\ DeviceOK(dev[d])
  BY TypeFacts DEF ChannelInterference, mgr, panVars, histories
<1>2. CASE dev[d].sent < ReportMax /\ ~Scans(d)
  <2>1. dev' = [dev EXCEPT ![d] = Noticing(dev[d], d)]
    BY <1>2 DEF ChannelInterference, Noticing
  <2>2. dev[d].scanning = NoDevice
    BY <1>2 DEF Scans
  <2> QED
    BY <1>1, <1>2, <2>1, <2>2, NoticingOK, OneQuietly
<1>3. CASE ~(dev[d].sent < ReportMax /\ ~Scans(d))
  <2>1. dev' = [dev EXCEPT ![d] = dev[d]]
    BY <1>3 DEF ChannelInterference
  <2> QED
    BY <1>1, <2>1, OneQuietly DEF SameNet
<1> QED
  BY <1>2, <1>3

LEMMA ScanRequestStep ==
    ASSUME NwkMgrInv, NEW d \in NwkDevices, NEW n \in Int, NEW from \in Who,
           from # NoDevice, ScanRequest(d, n, from)
    PROVE  NwkMgrInv'
<1>1. /\ UNCHANGED <<nwkAir, reqTimer, since, missed>>
      /\ notes' \in 0 .. 2 /\ panInUse' \in PanIds /\ DeviceOK(dev[d])
  BY TypeFacts DEF ScanRequest, mgr, panVars, histories
<1>2. CASE n > 0 /\ n <= ScanMax /\ ~Scans(d)
  <2>1. dev' = [dev EXCEPT ![d] = Asked(dev[d], n, from)]
    BY <1>2 DEF ScanRequest, Asked
  <2>2. dev[d].scanning = NoDevice /\ n \in 1 .. ScanMax
    BY <1>2, NwkMgrAssumption DEF Scans
  <2> QED
    BY <1>1, <2>1, <2>2, AskedOK, OneQuietly
<1>3. CASE ~(n > 0 /\ n <= ScanMax /\ ~Scans(d))
  <2>1. dev' = [dev EXCEPT ![d] = dev[d]]
    BY <1>3 DEF ScanRequest
  <2> QED
    BY <1>1, <2>1, OneQuietly DEF SameNet
<1> QED
  BY <1>2, <1>3

LEMMA BadRequestStep ==
    ASSUME NwkMgrInv, NEW d \in NwkDevices, NEW from \in Who \cup {"other"},
           BadRequest(d, from)
    PROVE  NwkMgrInv'
<1>1. /\ UNCHANGED <<nwkAir, reqTimer, since, missed>>
      /\ notes' \in 0 .. 2 /\ panInUse' \in PanIds
      /\ DeviceOK(dev[d]) /\ dev \in [NwkDevices -> DeviceRec] /\ dev[d] \in DeviceRec
  BY TypeFacts DEF BadRequest, mgr, panVars, histories
<1>2. dev' = [dev EXCEPT ![d] = TurnedAway(dev[d], from)]
  BY <1>1 DEF BadRequest, TurnedAway, DeviceRec
<1> QED
  BY <1>1, <1>2, RefusedOK, OneQuietly

LEMMA ScanEndsStep ==
    ASSUME NwkMgrInv, NEW d \in NwkDevices, ScanEnds(d)
    PROVE  NwkMgrInv'
<1>1. /\ UNCHANGED <<nwkAir, reqTimer, since, missed>>
      /\ notes' \in 0 .. 2 /\ panInUse' \in PanIds
      /\ DeviceOK(dev[d]) /\ dev \in [NwkDevices -> DeviceRec] /\ dev[d] \in DeviceRec
  BY TypeFacts DEF ScanEnds, mgr, panVars, histories
<1>2. dev[d].scanning # NoDevice
  BY DEF ScanEnds, Scans
<1>3. \/ dev[d].confirm = NoDevice /\ dev' = [dev EXCEPT ![d] = Confirmed(dev[d])]
      \/ dev' = [dev EXCEPT ![d] = Unconfirmed(dev[d])]
  BY <1>1 DEF ScanEnds, Confirmed, Unconfirmed, DeviceRec
<1> QED
  BY <1>1, <1>2, <1>3, ScanEndsOK, OneQuietly

LEMMA ScanConfirmStep ==
    ASSUME NwkMgrInv, NEW d \in NwkDevices, ScanConfirm(d)
    PROVE  NwkMgrInv'
<1>1. /\ UNCHANGED <<nwkAir, reqTimer, since, missed>>
      /\ panInUse' \in PanIds /\ notes \in 0 .. 2
      /\ DeviceOK(dev[d]) /\ dev \in [NwkDevices -> DeviceRec] /\ dev[d] \in DeviceRec
  BY TypeFacts DEF ScanConfirm, mgr, panVars, histories
<1>2. dev[d].confirm # NoDevice
  BY DEF ScanConfirm
<1> DEFINE s == [dev[d] EXCEPT !.confirm = NoDevice]
<1>3. /\ s.count = dev[d].count /\ s.manager = dev[d].manager /\ s.sent = dev[d].sent
      /\ s.timer = dev[d].timer /\ s.runs = dev[d].runs /\ s.left = dev[d].left
      /\ s.addr = dev[d].addr /\ s.asker = dev[d].asker /\ s.wrong = dev[d].wrong
      /\ s.scanEvt = dev[d].scanEvt
  BY <1>1 DEF DeviceRec
<1>4. CASE s.count = FF /\ InterferenceChecked(d, s)
  <2>1. /\ \/ dev' = [dev EXCEPT ![d] = Interfered(dev[d])]
           \/ dev' = [dev EXCEPT ![d] = Stilled(dev[d])]
        /\ notes' \in 0 .. 2
    BY <1>1, <1>3, <1>4 DEF InterferenceChecked, Interfered, Stilled, Notify
  <2> QED
    BY <1>1, <1>2, <1>3, <1>4, <2>1, InterferedOK, OneQuietly
<1>5. CASE s.count # FF
  <2>1. /\ dev' = [dev EXCEPT ![d] = Answered(dev[d])]
        /\ notes' \in 0 .. 2
    BY <1>1, <1>3, <1>5 DEF ScanConfirm, Answered, Notify
  <2> QED
    BY <1>1, <1>2, <1>3, <1>5, <2>1, AnsweredOK, OneQuietly
<1> QED
  BY <1>4, <1>5 DEF ScanConfirm

LEMMA ScanRequestEvtStep ==
    ASSUME NwkMgrInv, NEW d \in NwkDevices, ScanRequestEvt(d)
    PROVE  NwkMgrInv'
<1>1. /\ UNCHANGED <<nwkAir, reqTimer, since, missed>>
      /\ panInUse' \in PanIds /\ notes' \in 0 .. 2
      /\ DeviceOK(dev[d]) /\ dev \in [NwkDevices -> DeviceRec] /\ dev[d] \in DeviceRec
  BY TypeFacts DEF ScanRequestEvt, mgr, panVars, histories
<1>2. dev[d].confirm = NoDevice
  BY DEF ScanRequestEvt
<1> DEFINE s == [dev[d] EXCEPT !.scanEvt = FALSE]
<1>3. s.count = dev[d].count /\ s.asker = dev[d].asker
  BY <1>1 DEF DeviceRec
<1>4. CASE dev[d].count > 0 /\ ~Scans(d)
  <2>1. dev' = [dev EXCEPT ![d] = Again(dev[d])]
    BY <1>3, <1>4 DEF ScanRequestEvt, Again
  <2> QED
    BY <1>1, <1>2, <1>4, <2>1, ScanRequestEvtOK, OneQuietly DEF Scans
<1>5. CASE ~(dev[d].count > 0 /\ ~Scans(d))
  <2>1. dev' = [dev EXCEPT ![d] = NotAgain(dev[d])]
    BY <1>3, <1>5 DEF ScanRequestEvt, NotAgain
  <2> QED
    BY <1>1, <1>2, <2>1, ScanRequestEvtOK, OneQuietly
<1> QED
  BY <1>4, <1>5

LEMMA ManagerAnswersStep ==
    ASSUME NwkMgrInv, NEW d \in NwkDevices, NEW e \in NwkDevices, ManagerAnswers(d, e)
    PROVE  NwkMgrInv'
<1>1. /\ UNCHANGED <<nwkAir, reqTimer, since, missed>>
      /\ notes' \in 0 .. 2 /\ panInUse' \in PanIds /\ DeviceOK(dev[d])
  BY TypeFacts DEF ManagerAnswers, mgr, panVars, histories
<1>2. dev' = [dev EXCEPT ![d] = SetNwkManagerAddr(dev[d], e)]
  BY DEF ManagerAnswers
<1> QED
  BY <1>1, <1>2, ManagerSetOK, OneQuietly

LEMMA MinuteStep == ASSUME NwkMgrInv, Minute PROVE NwkMgrInv'
<1>1. /\ UNCHANGED <<nwkAir, missed>>
      /\ notes' \in 0 .. 2 /\ panInUse' \in PanIds
      /\ \A d \in NwkDevices : DeviceOK(dev[d])
      /\ reqTimer \in 0 .. Period /\ since \in 0 .. Period + 1
  BY TypeFacts DEF Minute, panVars
<1>2. \A d \in NwkDevices : DeviceOK(dev'[d]) /\ SameNet(dev[d], dev'[d])
  BY <1>1, NotifyEvtOK DEF Minute, SameNet
<1>3. dev' \in [NwkDevices -> DeviceRec]
  <2>1. dev' = [d \in NwkDevices |-> dev'[d]]
    BY DEF Minute
  <2> QED
    BY <1>2, <2>1 DEF DeviceOK
<1>4. /\ reqTimer' \in 0 .. Period /\ since' \in 0 .. Period + 1
      /\ since + reqTimer >= Period => since' + reqTimer' >= Period
  BY <1>1, NwkMgrAssumption DEF Minute, RequestEvt
<1>5. NwkTypeInv'
  BY <1>1, <1>2, <1>3, <1>4 DEF NwkMgrInv, NwkTypeInv
<1>6. PeriodInv'
  BY <1>1, <1>2, <1>4 DEF NwkMgrInv, PeriodInv, Minute, NobodyBusy, SameNet
<1>7. ~missed => (AirInv /\ DoneInv)'
  BY <1>1, <1>2, NetKept DEF NwkMgrInv
<1> QED
  BY <1>1, <1>5, <1>6, <1>7 DEF NwkMgrInv
\* CheckForChannelChange broadcasts nothing before the period is over.
LEMMA ChangeStep ==
    ASSUME NwkMgrInv, UpdateNotify
    PROVE  NwkMgrInv' /\ (nwkAir' # nwkAir => since >= Period)
<1>0. /\ dev \in [NwkDevices -> DeviceRec] /\ Manager \in NwkDevices
      /\ \A d \in NwkDevices : DeviceOK(dev[d])
      /\ notes' \in 0 .. 2 /\ panInUse' \in PanIds
      /\ reqTimer \in 0 .. Period /\ since \in 0 .. Period + 1 /\ missed \in BOOLEAN
      /\ nwkAir \subseteq Copy
  BY TypeFacts, NwkMgrAssumption DEF UpdateNotify, panVars
<1>1. PICK rate \in Rates, c \in Channels, ok \in BOOLEAN : ChannelChange(rate, c, ok)
  BY DEF UpdateNotify
<1> DEFINE s == dev[Manager]
           id == NextId(s.id)
           t == [s EXCEPT !.newChannel = c, !.id = id, !.due = TRUE]
           change == /\ rate >= 1 /\ rate >= lastRate /\ ok
                     /\ c # s.channel /\ ReqTimerFree
<1>2. CASE ~change
  <2>1. UNCHANGED <<dev, mgr, nwkAir, since, missed>>
    BY <1>1, <1>2 DEF ChannelChange
  <2> QED
    BY <1>0, <2>1, Quietly DEF mgr, SameNet
<1>3. CASE change
  <2>1. /\ dev' = [dev EXCEPT ![Manager].newChannel = c, ![Manager].id = id,
                              ![Manager].due = TRUE]
        /\ nwkAir' = nwkAir \cup Copies(Manager, id, c, NoDevice)
        /\ reqTimer' = Period /\ since' = 0
        /\ missed' = (missed \/ id = 0 \/ nwkAir # {})
        /\ reqTimer = 0 /\ c # s.channel
    BY <1>1, <1>3 DEF ChannelChange, ReqTimerFree
  <2>2. s \in DeviceRec /\ DeviceOK(s)
    BY <1>0
  <2>3. id \in 0 .. IdSize - 1 /\ (id # 0 => id = s.id + 1)
    <3>1. s.id \in 0 .. IdSize - 1 /\ IdSize \in Nat
      BY <2>2, NwkMgrAssumption DEF DeviceRec
    <3>2. CASE s.id + 1 < IdSize
      <4>1. (s.id + 1) % IdSize = s.id + 1
        BY <3>1, <3>2
      <4> QED
        BY <3>1, <3>2, <4>1 DEF NextId
    <3>3. CASE ~(s.id + 1 < IdSize)
      <4>1. s.id + 1 = IdSize /\ IdSize % IdSize = 0
        BY <3>1, <3>3
      <4> QED
        BY <3>1, <4>1 DEF NextId
    <3> QED
      BY <3>2, <3>3
  <2> HIDE DEF id
  <2>4. /\ t \in DeviceRec
        /\ t.newChannel = c /\ t.id = id /\ t.due = TRUE /\ t.channel = s.channel
        /\ t.count = s.count /\ t.sent = s.sent /\ t.crossed = s.crossed
        /\ ScanFor(t) = ScanFor(s) /\ (Counts(s) => Counts(t))
    BY <2>2, <2>3 DEF DeviceRec, ScanFor, Counts
  <2>5. dev' = [dev EXCEPT ![Manager] = t]
    BY <1>0, <2>1, <2>2 DEF DeviceRec
  <2> HIDE DEF t
  <2>6. /\ dev' \in [NwkDevices -> DeviceRec]
        /\ \A e \in NwkDevices : dev'[e] = IF e = Manager THEN t ELSE dev[e]
    BY <1>0, <2>4, <2>5
  <2>7. \A e \in NwkDevices : DeviceOK(dev'[e])
    <3>1. DeviceOK(t)
      BY <2>2, <2>4 DEF DeviceOK
    <3> QED
      BY <1>0, <2>6, <3>1
  <2>8. \A p : p \in Copies(Manager, id, c, NoDevice) <=>
           \E d \in NwkDevices \ {Manager} :
              p = [to |-> d, from |-> Manager, id |-> id, channel |-> c, manager |-> NoDevice]
    BY DEF Copies
  <2>9. \A p \in Copies(Manager, id, c, NoDevice) :
           /\ p \in Copy /\ p.from = Manager /\ p.channel = c /\ p.id = id
           /\ p.to \in NwkDevices \ {Manager}
    BY <2>3, <2>8 DEF Copy
  <2>10. Manager # Tool
    BY NwkMgrAssumption
  <2>11. NwkTypeInv'
    <3>1. nwkAir' \subseteq Copy
      BY <1>0, <2>1, <2>9
    <3>2. \A p \in nwkAir' : /\ p.from = Manager => p.channel \in Channels
                             /\ p.from = Tool => p.manager \in NwkDevices
      BY <2>1, <2>9, <2>10 DEF NwkMgrInv, NwkTypeInv
    <3>3. reqTimer' \in 0 .. Period /\ since' \in 0 .. Period + 1 /\ missed' \in BOOLEAN
      BY <2>1, NwkMgrAssumption
    <3> QED
      BY <1>0, <2>6, <2>7, <3>1, <3>2, <3>3 DEF NwkTypeInv
  <2>12. PeriodInv'
    BY <2>1, NwkMgrAssumption DEF PeriodInv
  <2>13. ASSUME ~missed' PROVE (AirInv /\ DoneInv)'
    <3>1. nwkAir = {} /\ ~missed /\ id = s.id + 1
      BY <2>1, <2>3, <2>13
    <3>2. nwkAir' = Copies(Manager, id, c, NoDevice)
      BY <2>1, <3>1
    <3>3. \A d \in NwkDevices : ~dev[d].due /\ dev[d].id = s.id /\ dev[d].channel = s.channel
      BY <1>0, <2>1, <3>1, NwkMgrAssumption DEF NwkMgrInv, PeriodInv, DoneInv, Final
    <3>4. dev'[Manager] = t /\ \A d \in NwkDevices \ {Manager} : dev'[d] = dev[d]
      BY <1>0, <2>6
    <3>5. \A p, q \in nwkAir' : p.to = q.to => p = q
      BY <3>2, <2>8
    <3>6. AirInv'
      BY <1>0, <2>1, <2>4, <2>9, <3>1, <3>2, <3>3, <3>4, <3>5 DEF AirInv
    <3>7. ASSUME NEW d \in NwkDevices \ {Manager} PROVE Pending(d)'
      <4> DEFINE p == [to |-> d, from |-> Manager, id |-> id, channel |-> c, manager |-> NoDevice]
      <4>1. p \in nwkAir' /\ p.to = d
        BY <2>8, <3>2
      <4> QED
        BY <4>1 DEF Pending
    <3>8. \A p \in nwkAir' : \A d \in NwkDevices : ~Pending(d)' =>
             /\ dev'[d].id = p.id
             /\ p.from = Manager => Final(dev'[d]) = p.channel
             /\ p.from # Tool
      BY <2>4, <2>9, <2>10, <3>2, <3>4, <3>7 DEF Final
    <3>9. nwkAir' = {} => \A d \in NwkDevices : d = Manager
      BY <3>7 DEF Pending
    <3> QED
      BY <3>6, <3>8, <3>9 DEF DoneInv
  <2>14. since >= Period
    BY <1>0, <2>1, NwkMgrAssumption DEF NwkMgrInv, PeriodInv
  <2> QED
    BY <2>11, <2>12, <2>13, <2>14 DEF NwkMgrInv
<1> QED
  BY <1>2, <1>3

LEMMA UpdatedOK ==
    ASSUME NEW s, DeviceOK(s), NEW p \in Copy,
           p.from = Manager => p.channel \in Channels,
           p.from = Tool => p.manager \in NwkDevices
    PROVE  /\ DeviceOK(Updated(s, p))
           /\ Updated(s, p).due => s.due \/ p.from = Manager
           /\ p.id = s.id + 1 /\ ~s.due =>
                LET t == Updated(s, p) IN
                /\ t.id = p.id /\ t.channel = s.channel
                /\ p.from = Tool => ~t.due
                /\ p.from = Manager => Final(t) = p.channel
<1> DEFINE t == Updated(s, p)
<1>0. /\ s \in DeviceRec /\ p.id \in 0 .. IdSize - 1 /\ s.id \in Int
      /\ p.from \in {Manager, Tool} /\ Manager # Tool
  BY NwkMgrAssumption DEF DeviceOK, Copy, DeviceRec
<1>a. p.id = s.id + 1 => Newer(p.id, s.id)
  BY <1>0 DEF Newer
<1>1. CASE ~Newer(p.id, s.id)
  BY <1>1, <1>a DEF Updated
<1>2. CASE Newer(p.id, s.id) /\ p.from = Tool
  <2>1. t = [s EXCEPT !.id = p.id, !.manager = p.manager]
    BY <1>0, <1>2 DEF Updated, SetNwkManagerAddr, DeviceRec
  <2> HIDE DEF t
  <2>2. /\ t \in DeviceRec /\ t.id = p.id /\ t.due = s.due /\ t.channel = s.channel
        /\ t.newChannel = s.newChannel /\ t.count = s.count /\ t.sent = s.sent
        /\ t.crossed = s.crossed /\ (Counts(s) => Counts(t))
    BY <1>0, <1>2, <2>1 DEF DeviceRec, Counts, ScanFor
  <2> QED
    BY <1>0, <1>2, <2>2 DEF DeviceOK, t
<1>3. CASE Newer(p.id, s.id) /\ p.from = Manager /\ s.channel = p.channel
  <2>1. t = [s EXCEPT !.id = p.id]
    BY <1>0, <1>3 DEF Updated
  <2> HIDE DEF t
  <2>2. /\ t \in DeviceRec /\ t.id = p.id /\ t.due = s.due /\ t.channel = s.channel
        /\ t.newChannel = s.newChannel /\ t.count = s.count /\ t.sent = s.sent
        /\ t.crossed = s.crossed /\ (Counts(s) => Counts(t))
    BY <1>0, <1>3, <2>1 DEF DeviceRec, Counts, ScanFor
  <2> QED
    BY <1>0, <1>3, <2>2 DEF DeviceOK, t, Final
<1>4. CASE Newer(p.id, s.id) /\ p.from = Manager /\ s.channel # p.channel
  <2>1. t = [s EXCEPT !.id = p.id, !.newChannel = p.channel, !.due = TRUE]
    BY <1>0, <1>4 DEF Updated
  <2> HIDE DEF t
  <2>2. /\ t \in DeviceRec /\ t.id = p.id /\ t.due = TRUE /\ t.channel = s.channel
        /\ t.newChannel = p.channel /\ t.count = s.count /\ t.sent = s.sent
        /\ t.crossed = s.crossed /\ (Counts(s) => Counts(t))
    BY <1>0, <1>4, <2>1 DEF DeviceRec, Counts, ScanFor
  <2> QED
    BY <1>0, <1>4, <2>2 DEF DeviceOK, t, Final
<1> QED
  BY <1>0, <1>1, <1>2, <1>3, <1>4
LEMMA UpdateReqStep ==
    ASSUME NwkMgrInv, NEW p \in nwkAir, UpdateReq(p)
    PROVE  NwkMgrInv'
<1> DEFINE d == p.to
           t == Updated(dev[d], p)
<1>0. /\ dev \in [NwkDevices -> DeviceRec] /\ Manager \in NwkDevices
      /\ \A e \in NwkDevices : DeviceOK(dev[e])
      /\ p \in Copy /\ d \in NwkDevices /\ nwkAir \subseteq Copy
      /\ p.from \in {Manager, Tool} /\ Manager # Tool /\ p.id \in Int
  BY TypeFacts, NwkMgrAssumption DEF Copy
<1>1. /\ nwkAir' = nwkAir \ {p} /\ dev' = [dev EXCEPT ![d] = t]
      /\ UNCHANGED <<reqTimer, since, missed, notes, panInUse>>
  BY DEF UpdateReq, mgr, panVars, histories
<1>2. (p.from = Manager => p.channel \in Channels) /\ (p.from = Tool => p.manager \in NwkDevices)
  BY DEF NwkMgrInv, NwkTypeInv
<1>3. DeviceOK(t) /\ (t.due => dev[d].due \/ p.from = Manager)
  BY <1>0, <1>2, UpdatedOK
<1>4. p.id = dev[d].id + 1 /\ ~dev[d].due =>
         /\ t.id = p.id /\ t.channel = dev[d].channel
         /\ p.from = Tool => ~t.due
         /\ p.from = Manager => Final(t) = p.channel
  BY <1>0, <1>2, UpdatedOK
<1> HIDE DEF d, t
<1>5. /\ dev' \in [NwkDevices -> DeviceRec]
      /\ \A e \in NwkDevices : dev'[e] = IF e = d THEN t ELSE dev[e]
  BY <1>0, <1>1, <1>3 DEF DeviceOK
<1>6. NwkTypeInv'
  <2>1. \A e \in NwkDevices : DeviceOK(dev'[e])
    BY <1>0, <1>3, <1>5
  <2>2. nwkAir' \subseteq nwkAir
    BY <1>1
  <2> QED
    BY <1>1, <1>5, <2>1, <2>2 DEF NwkMgrInv, NwkTypeInv
<1>7. PeriodInv'
  BY <1>0, <1>1, <1>3, <1>5 DEF NwkMgrInv, PeriodInv
<1>8. ASSUME ~missed PROVE (AirInv /\ DoneInv)'
  <2>1. AirInv /\ DoneInv
    BY <1>8 DEF NwkMgrInv
  <2>2. /\ dev[d].id + 1 = p.id /\ ~dev[d].due /\ dev[d].channel = dev[Manager].channel
        /\ p.from = Manager => d # Manager
    BY <2>1 DEF AirInv, d
  <2>3. /\ t.id = p.id /\ t.channel = dev[Manager].channel
        /\ p.from = Tool => ~t.due
        /\ p.from = Manager => Final(t) = p.channel
    BY <1>4, <2>2
  <2>4. dev'[Manager].channel = dev[Manager].channel
    BY <1>0, <1>5, <2>3
  <2>5. p.from = Manager => dev'[Manager] = dev[Manager]
    BY <1>0, <1>5, <2>2
  <2>6. \A q \in nwkAir' : /\ q \in nwkAir /\ q.to # d /\ q.to \in NwkDevices
                           /\ q.from = p.from /\ q.id = p.id /\ q.channel = p.channel
                           /\ dev'[q.to] = dev[q.to]
    BY <1>0, <1>1, <1>5, <2>1 DEF AirInv, d, Copy
  <2>7. AirInv'
    BY <1>0, <2>1, <2>4, <2>5, <2>6 DEF AirInv
  <2>8. \A e \in NwkDevices : e # d => Pending(e)' = Pending(e) /\ dev'[e] = dev[e]
    BY <1>1, <1>5 DEF Pending, d
  <2>9. \A e \in NwkDevices : ~Pending(e)' =>
           /\ dev'[e].id = p.id
           /\ p.from = Manager => Final(dev'[e]) = p.channel
           /\ p.from = Tool => ~dev'[e].due /\ dev'[e].channel = dev[Manager].channel
    BY <1>5, <2>1, <2>3, <2>8 DEF DoneInv
  <2>10. \A q \in nwkAir' : \A e \in NwkDevices : ~Pending(e)' =>
            /\ dev'[e].id = q.id
            /\ q.from = Manager => Final(dev'[e]) = q.channel
            /\ q.from = Tool => ~dev'[e].due /\ dev'[e].channel = dev'[Manager].channel
    BY <2>4, <2>6, <2>9
  <2>11. ASSUME nwkAir' = {}, NEW e \in NwkDevices
         PROVE  dev'[e].id = dev'[Manager].id /\ Final(dev'[e]) = Final(dev'[Manager])
    <3>1. ~Pending(e)' /\ ~Pending(Manager)'
      BY <2>11 DEF Pending
    <3> QED
      BY <1>0, <2>9, <3>1 DEF Final
  <2>12. DoneInv'
    BY <2>10, <2>11 DEF DoneInv
  <2> QED
    BY <2>7, <2>12
<1> QED
  BY <1>1, <1>6, <1>7, <1>8 DEF NwkMgrInv

LEMMA UpdateReqLostStep ==
    ASSUME NwkMgrInv, NEW p \in nwkAir, UpdateReqLost(p)
    PROVE  NwkMgrInv'
<1>1. /\ nwkAir' = nwkAir \ {p} /\ missed' = TRUE
      /\ UNCHANGED <<dev, reqTimer, since, notes, panInUse>>
  BY DEF UpdateReqLost, mgr, panVars
<1>2. NwkTypeInv'
  BY <1>1 DEF NwkMgrInv, NwkTypeInv
<1>3. PeriodInv'
  BY <1>1 DEF NwkMgrInv, PeriodInv
<1> QED
  BY <1>1, <1>2, <1>3 DEF NwkMgrInv

LEMMA MoveStep ==
    ASSUME NwkMgrInv, NEW d \in NwkDevices, MoveChannelEvt(d)
    PROVE  NwkMgrInv'
<1> DEFINE s == dev[d]
           t == [s EXCEPT !.due = FALSE, !.channel = s.newChannel]
<1>0. /\ dev \in [NwkDevices -> DeviceRec] /\ Manager \in NwkDevices
      /\ \A e \in NwkDevices : DeviceOK(dev[e])
      /\ s \in DeviceRec /\ s.newChannel \in Channels
      /\ s.due /\ nwkAir = {}
      /\ UNCHANGED <<reqTimer, since, missed, nwkAir, notes, panInUse>>
  BY TypeFacts, NwkMgrAssumption DEF MoveChannelEvt, mgr, panVars, histories, DeviceOK
<1>1. dev' = [dev EXCEPT ![d] = t]
  BY <1>0 DEF MoveChannelEvt, DeviceRec
<1>2. /\ t \in DeviceRec /\ t.id = s.id /\ t.due = FALSE /\ t.channel = s.newChannel
      /\ t.count = s.count /\ t.sent = s.sent
      /\ t.crossed = s.crossed /\ (Counts(s) => Counts(t))
  BY <1>0 DEF DeviceRec, Counts, ScanFor
<1> HIDE DEF t
<1>3. Final(t) = Final(s)
  BY <1>0, <1>2 DEF Final
<1>4. DeviceOK(t)
  BY <1>0, <1>2 DEF DeviceOK
<1>5. /\ dev' \in [NwkDevices -> DeviceRec]
      /\ \A e \in NwkDevices : dev'[e] = IF e = d THEN t ELSE dev[e]
  BY <1>0, <1>1, <1>2
<1>6. NwkTypeInv'
  <2>1. \A e \in NwkDevices : DeviceOK(dev'[e])
    BY <1>0, <1>4, <1>5
  <2> QED
    BY <1>0, <1>5, <2>1 DEF NwkMgrInv, NwkTypeInv
<1>7. PeriodInv'
  BY <1>0, <1>2, <1>5 DEF NwkMgrInv, PeriodInv
<1>8. ~missed => (AirInv /\ DoneInv)'
  <2>1. \A e \in NwkDevices : dev'[e].id = dev[e].id /\ Final(dev'[e]) = Final(dev[e])
    BY <1>2, <1>3, <1>5
  <2> QED
    BY <1>0, <2>1 DEF NwkMgrInv, AirInv, DoneInv
<1> QED
  BY <1>0, <1>6, <1>7, <1>8 DEF NwkMgrInv

LEMMA NameManagerStep ==
    ASSUME NwkMgrInv, NEW d \in NwkDevices, NameManager(d)
    PROVE  NwkMgrInv' /\ \A p \in nwkAir' : p.from # Manager
<1> DEFINE id == dev[Manager].id + 1
<1>0. /\ dev \in [NwkDevices -> DeviceRec] /\ Manager \in NwkDevices
      /\ nwkAir = {} /\ nwkAir' = Copies(Tool, id, 0, d)
      /\ \A e \in NwkDevices : ~dev[e].due
      /\ UNCHANGED <<dev, reqTimer, since, missed, notes, panInUse>>
      /\ Tool # Manager
  BY TypeFacts, NwkMgrAssumption DEF NameManager, mgr, panVars, histories, NobodyBusy
<1>1. id \in 0 .. IdSize - 1
  <2>1. dev[Manager].id \in 0 .. IdSize - 1 /\ IdSize \in Nat
    BY <1>0, NwkMgrAssumption DEF DeviceRec
  <2> QED
    BY <2>1 DEF NameManager
<1> HIDE DEF id
<1>2. \A p : p \in nwkAir' <=>
         \E e \in NwkDevices \ {Tool} :
            p = [to |-> e, from |-> Tool, id |-> id, channel |-> 0, manager |-> d]
  BY <1>0 DEF Copies
<1>3. \A p \in nwkAir' :
         /\ p \in Copy /\ p.from = Tool /\ p.channel = 0 /\ p.id = id
         /\ p.to \in NwkDevices /\ p.manager \in NwkDevices
  BY <1>1, <1>2 DEF Copy
<1>4. NwkTypeInv'
  BY <1>0, <1>3 DEF NwkMgrInv, NwkTypeInv
<1>5. PeriodInv'
  BY <1>0, <1>3 DEF NwkMgrInv, PeriodInv
<1>6. ASSUME ~missed PROVE (AirInv /\ DoneInv)'
  <2>1. \A e \in NwkDevices : dev[e].id = dev[Manager].id /\ dev[e].channel = dev[Manager].channel
    BY <1>0, <1>6 DEF NwkMgrInv, DoneInv, Final
  <2>2. \A p, q \in nwkAir' : p.to = q.to => p = q
    BY <1>2
  <2>3. AirInv'
    BY <1>0, <1>3, <2>1, <2>2 DEF AirInv, id
  <2>4. ASSUME NEW e \in NwkDevices PROVE Pending(e)'
    <3> DEFINE p == [to |-> e, from |-> Tool, id |-> id, channel |-> 0, manager |-> d]
    <3>1. p \in nwkAir'
      BY <1>2, NwkMgrAssumption
    <3>2. p.to = e
      OBVIOUS
    <3> QED
      BY <3>1, <3>2 DEF Pending
  <2>5. nwkAir' # {}
    BY <1>0, <2>4 DEF Pending
  <2> QED
    BY <2>3, <2>4, <2>5 DEF DoneInv
<1> QED
  BY <1>0, <1>3, <1>4, <1>5, <1>6 DEF NwkMgrInv

LEMMA PanStep ==
    ASSUME NwkMgrInv, UNCHANGED <<dev, mgr, nwkAir, notes, histories>>, panInUse' \in PanIds
    PROVE  NwkMgrInv'
  BY TypeFacts, Quietly DEF mgr, histories, SameNet

-----------------------------------------------------------------------------
(* The theorem                                                             *)

LEMMA NwkMgrInitInv == NwkMgrInit => NwkMgrInv
<1> SUFFICES ASSUME NwkMgrInit PROVE NwkMgrInv
  OBVIOUS
<1>1. /\ dev \in [NwkDevices -> DeviceRec]
      /\ \A d \in NwkDevices : dev[d] = Start /\ DeviceOK(dev[d])
  BY StartOK DEF NwkMgrInit, DeviceOK
<1>2. NwkTypeInv
  <2>1. Period \in Nat /\ reqTimer = 0 /\ since = Period + 1 /\ notes = 0 /\ nwkAir = {}
        /\ missed = FALSE /\ panInUse \in PanIds
    BY NwkMgrAssumption DEF NwkMgrInit
  <2>2. reqTimer \in 0 .. Period /\ since \in 0 .. Period + 1 /\ notes \in 0 .. 2
    BY <2>1
  <2>3. nwkAir \subseteq Copy
    BY <2>1
  <2> QED
    BY <1>1, <2>1, <2>2, <2>3 DEF NwkTypeInv
<1>3. PeriodInv
  BY <1>1, StartOK, NwkMgrAssumption DEF PeriodInv, NwkMgrInit
<1>4. AirInv /\ DoneInv
  BY <1>1, NwkMgrAssumption DEF AirInv, DoneInv, NwkMgrInit
<1> QED
  BY <1>2, <1>3, <1>4 DEF NwkMgrInv

\* A step that broadcasts for the manager comes when the period is over.
InTime == (\E p \in nwkAir' \ nwkAir : p.from = Manager) => since >= Period

LEMMA NwkMgrNextInv == NwkMgrInv /\ [NwkMgrNext]_nwkMgrVars => NwkMgrInv' /\ InTime
<1> SUFFICES ASSUME NwkMgrInv, [NwkMgrNext]_nwkMgrVars PROVE NwkMgrInv' /\ InTime
  OBVIOUS
<1> USE DEF InTime
<1>1. ASSUME NEW d \in NwkDevices, DeviceStep(d) PROVE NwkMgrInv' /\ InTime
  <2>0. /\ Tool \in Who /\ Manager \in Who /\ Tool # NoDevice /\ Manager # NoDevice
        /\ ScanMax \in Nat /\ "other" \in Who \cup {"other"}
    BY NwkMgrAssumption DEF Who, Tool, NoDevice
  <2>1. CASE ChannelInterference(d)
    BY <2>1, InterferenceStep DEF ChannelInterference
  <2>2. CASE ScanEnds(d)
    BY <2>2, ScanEndsStep DEF ScanEnds
  <2>3. CASE ScanConfirm(d)
    BY <2>3, ScanConfirmStep DEF ScanConfirm
  <2>4. CASE ScanRequestEvt(d)
    BY <2>4, ScanRequestEvtStep DEF ScanRequestEvt
  <2>5. CASE MoveChannelEvt(d)
    BY <2>5, MoveStep DEF MoveChannelEvt
  <2>6. CASE NameManager(d)
    BY <2>6, NameManagerStep
  <2>7. ASSUME NEW n \in 1 .. ScanMax + 1, ScanRequest(d, n, Tool) PROVE NwkMgrInv' /\ InTime
    <3>1. n \in Int /\ Tool \in Who /\ Tool # NoDevice
      BY <2>0
    <3>2. NwkMgrInv'
      BY <2>7, <3>1, ScanRequestStep
    <3> QED
      BY <2>7, <3>2 DEF ScanRequest
  <2>8. ASSUME NEW n \in 1 .. 2, ScanRequest(d, n, Manager) PROVE NwkMgrInv' /\ InTime
    <3>1. n \in Int /\ Manager \in Who /\ Manager # NoDevice
      BY <2>0
    <3>2. NwkMgrInv'
      BY <2>8, <3>1, ScanRequestStep
    <3> QED
      BY <2>8, <3>2 DEF ScanRequest
  <2>9. CASE BadRequest(d, "other")
    BY <2>0, <2>9, BadRequestStep DEF BadRequest
  <2>10. ASSUME NEW e \in NwkDevices, ManagerAnswers(d, e) PROVE NwkMgrInv' /\ InTime
    BY <2>10, ManagerAnswersStep DEF ManagerAnswers
  <2> QED
    BY <1>1, <2>1, <2>2, <2>3, <2>4, <2>5, <2>6, <2>7, <2>8, <2>9, <2>10 DEF DeviceStep
<1>2. CASE UpdateNotify
  BY <1>2, ChangeStep
<1>3. CASE Minute
  BY <1>3, MinuteStep DEF Minute
<1>4. ASSUME NEW p \in nwkAir, UpdateReq(p) \/ UpdateReqLost(p) PROVE NwkMgrInv' /\ InTime
  BY <1>4, UpdateReqStep, UpdateReqLostStep DEF UpdateReq, UpdateReqLost
<1>5. ASSUME NEW heard \in SUBSET PanIds, NetworkReport(heard) PROVE NwkMgrInv' /\ InTime
  BY <1>5, TypeFacts, PanStep DEF NetworkReport
<1>6. ASSUME NEW p \in PanIds, ProcessNetworkReport(p) PROVE NwkMgrInv' /\ InTime
  BY <1>6, TypeFacts, PanStep DEF ProcessNetworkReport
<1>7. CASE NetworkUpdate
  BY <1>7, TypeFacts, PanStep DEF NetworkUpdate
<1>8. CASE UNCHANGED nwkMgrVars
  BY <1>8, TypeFacts, PanStep DEF nwkMgrVars, panVars
<1> QED
  BY <1>1, <1>2, <1>3, <1>4, <1>5, <1>6, <1>7, <1>8 DEF NwkMgrNext

LEMMA NwkMgrInvImplies == NwkMgrInv => OneChannel /\ CountKept
<1> SUFFICES ASSUME NwkMgrInv PROVE OneChannel /\ CountKept
  OBVIOUS
<1>0. Manager \in NwkDevices
  BY NwkMgrAssumption
<1>1. NwkMgrTypeOK
  BY TypeFacts DEF NwkMgrTypeOK, DeviceRec
<1>2. NobodyBusy /\ ~missed => \A d \in NwkDevices :
         dev[d].channel = dev[Manager].channel /\ dev[d].id = dev[Manager].id
  BY <1>0 DEF NwkMgrInv, DoneInv, NobodyBusy, Final
<1>3. CountKept
  BY TypeFacts DEF CountKept, DeviceOK, Counts
<1> QED
  BY <1>1, <1>2, <1>3 DEF OneChannel

\* The network manager (ZDNwkMgr.c), for any routers, channels, periods and counts: a
\* change of channel that nothing was lost of ends with every device on the manager's
\* channel, results of scans go to who asked and are no more than asked for, and the
\* manager's changes are a whole period apart.
THEOREM ManagerIsSound == NwkMgrSpec => ManagerSound
<1>1. NwkMgrInit => NwkMgrInv
  BY NwkMgrInitInv
<1>2. NwkMgrInv /\ [NwkMgrNext]_nwkMgrVars => NwkMgrInv'
  BY NwkMgrNextInv
<1>3. NwkMgrInv => OneChannel /\ CountKept
  BY NwkMgrInvImplies
<1>4. NwkMgrInv /\ [NwkMgrNext]_nwkMgrVars =>
         [(\E p \in nwkAir' \ nwkAir : p.from = Manager) => since >= Period]_nwkMgrVars
  BY NwkMgrNextInv DEF InTime
<1> QED
  BY <1>1, <1>2, <1>3, <1>4, PTL DEF NwkMgrSpec, ManagerSound, ChangesApart

-----------------------------------------------------------------------------
(* Key establishment: the inductive invariant                              *)

Keyed == {"ConfirmPending", "TerminationPending"}

KeyRec ==
    [partner : Nodes \cup {NoNode}, role : {"initiator", "responder"}, state : States,
     app : BOOLEAN, local : Tokens \cup {NoKey}, remote : Tokens \cup {NoKey},
     key : (SUBSET Tokens) \cup {NoKey}]

\* An exchange has what belongs to its state; an initiator has its own key pair before
\* it sends it.
RecOK(n, r) ==
    /\ r \in KeyRec
    /\ r.partner = NoNode => r = Free
    /\ r.role = "initiator" /\ r.state \in {"InitiatePending", "EDataPending"} =>
          r.local \in Tokens /\ r.local[1] = n
    /\ r.state \in {"KeyCalculatePending"} \cup Keyed =>
          /\ r.local \in Tokens /\ r.local[1] = n
          /\ r.remote \in Tokens /\ r.remote[1] = r.partner
    /\ r.key = IF r.state \in Keyed THEN KeyBit(r) ELSE NoKey
    /\ r.state = "TerminationPending" => r.role = "responder"

Apart(t) ==
    \A i, j \in Slots : i # j /\ t[i].partner = t[j].partner => t[i].partner = NoNode

TableOK(n, t) == t \in [Slots -> KeyRec] /\ Apart(t) /\ \A i \in Slots : RecOK(n, t[i])

\* A frame that carries a key pair carries its sender's, and one that confirms the key
\* was sent when the responder had added it.
FrameOK(m, added) ==
    /\ m.from \in Nodes /\ m.to \in Nodes
    /\ m.cmd \in {"EphemeralDataReq", "EphemeralDataRsp"} => m.val \in Tokens /\ m.val[1] = m.from
    /\ m.cmd = "Terminate" => m.val # "Success"
    /\ m.cmd = "ConfirmKeyRsp" =>
          [at |-> m.from, with |-> m.to, key |-> m.val.key, role |-> "responder"] \in added

KeyOK(k, added) ==
    /\ {t[1] : t \in k.key} = {k.at, k.with}
    /\ k.role = "initiator" =>
          [at |-> k.with, with |-> k.at, key |-> k.key, role |-> "responder"] \in added

ToldOK(what, added) ==
    \A n \in Nodes : <<n, "Success">> \in what => \E k \in added : k.at = n /\ k.role = "initiator"

Tables(t) == DOMAIN t = Nodes /\ \A n \in Nodes : TableOK(n, t[n])

CbkeInv ==
    /\ Tables(recs)
    /\ events \in [Nodes -> SUBSET {"cmd", "rsp"}]
    /\ pairs \in [Nodes -> Nat]
    /\ \A m \in net : FrameOK(m, installed)
    /\ \A k \in installed : KeyOK(k, installed)
    /\ ToldOK(told, installed)

-----------------------------------------------------------------------------
(* Tables                                                                  *)

LEMMA LeastOfSome ==
    ASSUME NEW n \in Nat, NEW S \in SUBSET (0 .. n), S # {}
    PROVE  \E x \in S : \A y \in S : x <= y
<1> DEFINE T == {0 .. x : x \in S}
<1>1. T \subseteq FiniteSubsetsOf(0 .. n) /\ T # {}
  <2>1. ASSUME NEW x \in S PROVE 0 .. x \subseteq 0 .. n /\ IsFiniteSet(0 .. x)
    BY FS_Interval
  <2>2. QED
    BY <2>1 DEF FiniteSubsetsOf
<1>2. PICK t \in T : \A u \in T : ~ (<<u, t>> \in StrictSubsetOrdering(0 .. n))
  <2> HIDE DEF T
  <2>1. QED
    BY <1>1, FS_StrictSubsetOrderingWellFounded, WFMin
<1>3. PICK x \in S : t = 0 .. x
  BY <1>2
<1>4. ASSUME NEW y \in S PROVE x <= y
  <2>1. 0 .. y \in T /\ 0 .. y \subseteq 0 .. n /\ 0 .. x \subseteq 0 .. n
    OBVIOUS
  <2>2. ~ (0 .. y \subseteq 0 .. x /\ 0 .. y # 0 .. x)
    BY <1>2, <1>3, <2>1 DEF StrictSubsetOrdering
  <2>3. x \in Nat /\ y \in Nat
    OBVIOUS
  <2>4. QED
    BY <2>2, <2>3
<1>5. QED
  BY <1>4

LEMMA FirstOfSome ==
    ASSUME NEW S \in SUBSET Slots, S # {}
    PROVE  FirstFrame(S) \in S
<1>1. MaxRecs \in Nat /\ S \in SUBSET (0 .. MaxRecs)
  BY CbkeAssumption DEF Slots
<1>2. \E x \in S : \A y \in S : x <= y
  BY <1>1, LeastOfSome
<1> QED
  BY <1>2 DEF FirstFrame

LEMMA FreeOK == ASSUME NEW n PROVE RecOK(n, Free) /\ Free.partner = NoNode
<1>1. Free \in KeyRec
  BY DEF KeyRec, Free, States
<1>2. Free.state = "Idle" /\ Free.key = NoKey /\ Free.partner = NoNode
  BY DEF Free
<1> QED
  BY <1>1, <1>2 DEF RecOK, Keyed

\* One entry of a table is written.
LEMMA EntryWritten ==
    ASSUME NEW n, NEW t, TableOK(n, t), NEW i \in Slots, NEW r, RecOK(n, r),
           \A j \in Slots : j # i /\ t[j].partner = r.partner => r.partner = NoNode
    PROVE  TableOK(n, [t EXCEPT ![i] = r])
<1> DEFINE u == [t EXCEPT ![i] = r]
<1>1. t \in [Slots -> KeyRec] /\ r \in KeyRec
  BY DEF TableOK, RecOK
<1>2. u \in [Slots -> KeyRec] /\ u[i] = r /\ \A j \in Slots : j # i => u[j] = t[j]
  BY <1>1
<1> HIDE DEF u
<1>3. \A j \in Slots : RecOK(n, u[j])
  BY <1>2 DEF TableOK
<1>4. Apart(u)
  BY <1>2 DEF TableOK, Apart
<1> QED
  BY <1>2, <1>3, <1>4 DEF TableOK, u

\* One table is changed.
LEMMA TableWritten ==
    ASSUME NEW t, Tables(t), NEW n \in Nodes, NEW u, TableOK(n, u)
    PROVE  Tables([t EXCEPT ![n] = u])
  BY DEF Tables

\* zclGeneral_RemoveKeyEstablishRec
LEMMA RemovedTables ==
    ASSUME CbkeInv, NEW n \in Nodes, NEW p \in Nodes
    PROVE  /\ Tables(Removed(n, p))
           /\ \A i \in Slots : Removed(n, p)[n][i].partner # p
<1> DEFINE t == recs[n]
           u == [i \in Slots |-> IF t[i].partner = p THEN Free ELSE t[i]]
<1>1. TableOK(n, t) /\ p # NoNode
  BY CbkeAssumption DEF CbkeInv, Tables
<1>2. \A i \in Slots : u[i] = IF t[i].partner = p THEN Free ELSE t[i]
  OBVIOUS
<1>3. u \in [Slots -> KeyRec] /\ \A i \in Slots : RecOK(n, u[i])
  <2>1. \A i \in Slots : RecOK(n, u[i])
    BY <1>1, <1>2, FreeOK DEF TableOK
  <2> QED
    BY <2>1 DEF RecOK
<1> HIDE DEF u, t
<1>4. Apart(u)
  BY <1>1, <1>2, FreeOK DEF TableOK, Apart
<1>5. TableOK(n, u)
  BY <1>3, <1>4 DEF TableOK
<1>6. Removed(n, p) = [recs EXCEPT ![n] = u]
  BY DEF Removed, u, t
<1>7. Tables([recs EXCEPT ![n] = u])
  BY <1>5, TableWritten DEF CbkeInv
<1>8. [recs EXCEPT ![n] = u][n] = u
  BY DEF CbkeInv, Tables
<1>9. \A i \in Slots : u[i].partner # p
  BY <1>1, <1>2, FreeOK
<1> QED
  BY <1>6, <1>7, <1>8, <1>9

\* zclGeneral_AddKeyEstablishRec
LEMMA AddedTables ==
    ASSUME CbkeInv, NEW n \in Nodes, NEW p \in Nodes, Room(n, p) # {},
           NEW rec, RecOK(n, rec), rec.partner = p
    PROVE  Tables(Added(n, p, rec))
<1> DEFINE t == Removed(n, p)
           i == FirstFrame(Room(n, p))
<1>1. Tables(t) /\ \A j \in Slots : t[n][j].partner # p
  BY RemovedTables
<1>2. i \in Slots
  <2>1. Room(n, p) \in SUBSET Slots
    BY DEF Room
  <2>2. i \in Room(n, p)
    BY <2>1, FirstOfSome
  <2> QED
    BY <2>1, <2>2
<1> DEFINE u == [t[n] EXCEPT ![i] = rec]
<1> HIDE DEF t, i
<1>3. TableOK(n, u)
  <2>1. TableOK(n, t[n])
    BY <1>1 DEF Tables
  <2> QED
    BY <1>1, <1>2, <2>1, EntryWritten
<1>4. Added(n, p, rec) = [t EXCEPT ![n] = u]
  BY DEF Added, t, i, Removed
<1> HIDE DEF u
<1>5. Tables([t EXCEPT ![n] = u])
  BY <1>1, <1>3, TableWritten
<1> QED
  BY <1>4, <1>5

LEMMA Indexed ==
    ASSUME CbkeInv, NEW m \in net, HasRec(m.to, m.from)
    PROVE  /\ FirstFrame(RecIndex(m.to, m.from)) \in Slots
           /\ RecOK(m.to, Rec(m)) /\ Rec(m).partner = m.from
           /\ \A j \in RecIndex(m.to, m.from) : recs[m.to][j] = Rec(m)
<1> DEFINE t == recs[m.to]
           i == FirstFrame(RecIndex(m.to, m.from))
<1>1. m.to \in Nodes /\ m.from \in Nodes /\ m.from # NoNode
  BY CbkeAssumption DEF CbkeInv, FrameOK
<1>2. TableOK(m.to, t)
  BY <1>1 DEF CbkeInv, Tables
<1>3. i \in RecIndex(m.to, m.from)
  <2>1. RecIndex(m.to, m.from) \in SUBSET Slots /\ RecIndex(m.to, m.from) # {}
    BY DEF RecIndex, HasRec
  <2> QED
    BY <2>1, FirstOfSome
<1>4. i \in Slots /\ t[i].partner = m.from /\ Rec(m) = t[i]
  BY <1>3 DEF RecIndex, Rec
<1>5. \A j \in RecIndex(m.to, m.from) : j = i
  BY <1>1, <1>2, <1>4 DEF TableOK, Apart, RecIndex
<1> QED
  BY <1>2, <1>4, <1>5 DEF TableOK

LEMMA DueRec ==
    ASSUME CbkeInv, NEW m \in net, NEW role, NEW state, Due(m, role, state)
    PROVE  /\ HasRec(m.to, m.from) /\ RecOK(m.to, Rec(m)) /\ Rec(m).partner = m.from
           /\ Rec(m).role = role /\ Rec(m).state = state
<1>1. PICK j \in RecIndex(m.to, m.from) :
         recs[m.to][j].role = role /\ recs[m.to][j].state = state
  BY DEF Due
<1>2. HasRec(m.to, m.from)
  BY <1>1 DEF HasRec
<1> QED
  BY <1>1, <1>2, Indexed

\* The record of a frame's sender is changed.
LEMMA WithTables ==
    ASSUME CbkeInv, NEW m \in net, HasRec(m.to, m.from),
           NEW rec, RecOK(m.to, rec), rec.partner = m.from
    PROVE  Tables(With(m, rec))
<1> DEFINE t == recs[m.to]
           i == FirstFrame(RecIndex(m.to, m.from))
           u == [t EXCEPT ![i] = rec]
<1>1. m.to \in Nodes /\ m.from \in Nodes /\ TableOK(m.to, t) /\ Tables(recs)
  BY DEF CbkeInv, FrameOK, Tables
<1>2. i \in Slots /\ t[i].partner = m.from
  BY Indexed DEF Rec
<1>3. With(m, rec) = [recs EXCEPT ![m.to] = u]
  BY DEF With
<1> HIDE DEF i
<1>4. \A j \in Slots : j # i /\ t[j].partner = rec.partner => rec.partner = NoNode
  BY <1>1, <1>2 DEF TableOK, Apart
<1>5. TableOK(m.to, u)
  BY <1>1, <1>2, <1>4, EntryWritten
<1> HIDE DEF t, u
<1>6. Tables([recs EXCEPT ![m.to] = u])
  BY <1>1, <1>5, TableWritten
<1> QED
  BY <1>3, <1>6

-----------------------------------------------------------------------------
(* Frames and keys                                                         *)

LEMMA FrameStays ==
    ASSUME NEW f, NEW A, NEW B, A \subseteq B, FrameOK(f, A)
    PROVE  FrameOK(f, B)
  BY DEF FrameOK

LEMMA KeyStays ==
    ASSUME NEW k, NEW A, NEW B, A \subseteq B, KeyOK(k, A)
    PROVE  KeyOK(k, B)
  BY DEF KeyOK

LEMMA TerminateOK ==
    ASSUME NEW n \in Nodes, NEW q \in Nodes, NEW A, NEW status, status # "Success"
    PROVE  FrameOK(Terminate(n, q, status), A)
  BY DEF FrameOK, Terminate, CbkeFrame

LEMMA PairFrameOK ==
    ASSUME NEW n \in Nodes, NEW q \in Nodes, NEW A, NEW cmd, NEW val,
           cmd \notin {"Terminate", "ConfirmKeyRsp"},
           cmd \in {"EphemeralDataReq", "EphemeralDataRsp"} => val \in Tokens /\ val[1] = n
    PROVE  FrameOK(CbkeFrame(n, q, cmd, val), A)
  BY DEF FrameOK, CbkeFrame

LEMMA PairOK ==
    ASSUME CbkeInv, NEW n \in Nodes
    PROVE  /\ Pair(n) \in Tokens /\ Pair(n)[1] = n
           /\ [pairs EXCEPT ![n] = @ + 1] \in [Nodes -> Nat]
  BY DEF CbkeInv, Pair, Tokens

LEMMA StepKeeps ==
    ASSUME CbkeInv, Tables(recs'), NEW out, net' \subseteq net \cup out,
           \A f \in out : FrameOK(f, installed'),
           installed \subseteq installed',
           \A k \in installed' : k \in installed \/ KeyOK(k, installed'),
           ToldOK(told', installed'),
           pairs' \in [Nodes -> Nat], events' \in [Nodes -> SUBSET {"cmd", "rsp"}]
    PROVE  CbkeInv'
<1>1. \A f \in net' : FrameOK(f, installed')
  BY FrameStays DEF CbkeInv
<1>2. \A k \in installed' : KeyOK(k, installed')
  BY KeyStays DEF CbkeInv
<1> QED
  BY <1>1, <1>2 DEF CbkeInv

\* A step that adds no key and tells nothing.
LEMMA QuietKeeps ==
    ASSUME CbkeInv, Tables(recs'), NEW out, net' \subseteq net \cup out,
           \A f \in out : FrameOK(f, installed), UNCHANGED <<installed, told>>,
           pairs' \in [Nodes -> Nat], events' \in [Nodes -> SUBSET {"cmd", "rsp"}]
    PROVE  CbkeInv'
<1>1. ToldOK(told', installed')
  BY DEF CbkeInv
<1> QED
  BY <1>1, StepKeeps

\* A step that sends one frame, or none, and changes one table.
LEMMA OneStarted ==
    ASSUME CbkeInv, Tables(recs'), NEW f, FrameOK(f, installed), net' \subseteq net \cup {f},
           UNCHANGED <<installed, told>>,
           pairs' \in [Nodes -> Nat], events' \in [Nodes -> SUBSET {"cmd", "rsp"}]
    PROVE  CbkeInv'
<1> DEFINE out == {f}
<1>2. \A g \in out : FrameOK(g, installed)
  OBVIOUS
<1>3. net' \subseteq net \cup out
  OBVIOUS
<1> HIDE DEF out
<1> QED
  BY <1>2, <1>3, QuietKeeps

LEMMA OneSent ==
    ASSUME CbkeInv, Tables(recs'), NEW f, FrameOK(f, installed), net' \subseteq net \cup {f},
           UNCHANGED <<events, pairs, installed, told>>
    PROVE  CbkeInv'
<1>1. pairs' \in [Nodes -> Nat] /\ events' \in [Nodes -> SUBSET {"cmd", "rsp"}]
  BY DEF CbkeInv
<1> QED
  BY <1>1, OneStarted

LEMMA NoneSent ==
    ASSUME CbkeInv, Tables(recs'), net' \subseteq net, UNCHANGED <<installed, told>>,
           pairs' \in [Nodes -> Nat], events' \in [Nodes -> SUBSET {"cmd", "rsp"}]
    PROVE  CbkeInv'
<1> DEFINE out == {}
<1>1. /\ \A g \in out : FrameOK(g, installed)
      /\ net' \subseteq net \cup out
  OBVIOUS
<1> HIDE DEF out
<1> QED
  BY <1>1, QuietKeeps

LEMMA Sent ==
    ASSUME NEW m, NEW out, CbkeSend(m, out)
    PROVE  net' \subseteq net \cup out
  BY DEF CbkeSend

\* A step that adds one key and sends one frame at most.
LEMMA OneAdded ==
    ASSUME CbkeInv, Tables(recs'), NEW f, NEW k,
           installed' = installed \cup {k}, KeyOK(k, installed'), ToldOK(told', installed'),
           \/ net' \subseteq net
           \/ net' \subseteq net \cup {f} /\ FrameOK(f, installed'),
           UNCHANGED <<events, pairs>>
    PROVE  CbkeInv'
<1> DEFINE out == {g \in {f} : FrameOK(g, installed')}
<1>1. (\A g \in out : FrameOK(g, installed')) /\ net' \subseteq net \cup out
  OBVIOUS
<1>2. installed \subseteq installed' /\ \A j \in installed' : j \in installed \/ KeyOK(j, installed')
  OBVIOUS
<1>3. pairs' \in [Nodes -> Nat] /\ events' \in [Nodes -> SUBSET {"cmd", "rsp"}]
  BY DEF CbkeInv
<1> HIDE DEF out
<1> QED
  BY <1>1, <1>2, <1>3, StepKeeps

LEMMA Ends == ASSUME CbkeInv, NEW m \in net PROVE m.from \in Nodes /\ m.to \in Nodes
  BY DEF CbkeInv, FrameOK

LEMMA Kept ==
    ASSUME CbkeInv
    PROVE  /\ pairs \in [Nodes -> Nat] /\ events \in [Nodes -> SUBSET {"cmd", "rsp"}]
           /\ Tables(recs)
  BY DEF CbkeInv

-----------------------------------------------------------------------------
(* The initiator's call, and what a responder is sent                      *)

LEMMA InitiateStep ==
    ASSUME CbkeInv, NEW n \in Nodes, NEW p \in Nodes, InitiateKeyEstablishment(n, p)
    PROVE  CbkeInv'
<1> DEFINE rec == [Free EXCEPT !.partner = p, !.app = TRUE, !.state = "InitiatePending",
                               !.local = Pair(n)]
           f == CbkeFrame(n, p, "Initiate", Issuer[n])
<1>1. UNCHANGED <<events, installed, told>>
  BY DEF InitiateKeyEstablishment
<1>2. FrameOK(f, installed)
  BY PairFrameOK
<1>3. CASE Room(n, p) = {}
  <2>1. recs' = Removed(n, p) /\ UNCHANGED <<pairs, net>>
    BY <1>3 DEF InitiateKeyEstablishment
  <2>2. Tables(recs') /\ net' \subseteq net
    BY <2>1, RemovedTables
  <2> QED
    BY <1>1, <2>1, <2>2, NoneSent, Kept
<1>4. CASE Room(n, p) # {}
  <2>1. /\ recs' = Added(n, p, rec) /\ pairs' = [pairs EXCEPT ![n] = @ + 1]
        /\ net' \subseteq net \cup {f}
    BY <1>4 DEF InitiateKeyEstablishment
  <2>2. Pair(n) \in Tokens /\ Pair(n)[1] = n /\ pairs' \in [Nodes -> Nat]
    BY <2>1, PairOK
  <2>3. /\ rec.partner = p /\ rec.state = "InitiatePending" /\ rec.role = "initiator"
        /\ rec.local = Pair(n) /\ rec.remote = NoKey /\ rec.key = NoKey /\ rec.app = TRUE
    BY DEF Free
  <2>4. rec \in KeyRec
    <3>1. Free \in KeyRec
      BY FreeOK DEF RecOK
    <3> QED
      BY <2>2, <3>1 DEF KeyRec, States
  <2>5. p # NoNode
    BY CbkeAssumption
  <2> HIDE DEF rec, f
  <2>6. RecOK(n, rec)
    BY <2>2, <2>3, <2>4, <2>5 DEF RecOK, Keyed
  <2>7. Tables(recs')
    BY <1>4, <2>1, <2>3, <2>6, AddedTables
  <2> QED
    BY <1>1, <1>2, <2>1, <2>2, <2>7, OneStarted, Kept
<1> QED
  BY <1>3, <1>4

LEMMA ProcessInitiateStep ==
    ASSUME CbkeInv, NEW m \in net, ProcessInitiate(m)
    PROVE  CbkeInv'
<1> DEFINE n == m.to
           p == m.from
           rec == [Free EXCEPT !.partner = p]
           answers == [Free EXCEPT !.partner = p, !.state = "EDataPending", !.role = "responder"]
<1>0. n \in Nodes /\ p \in Nodes /\ p # NoNode
  BY Ends, CbkeAssumption
<1>1. UNCHANGED <<events, pairs, installed, told>>
  BY DEF ProcessInitiate
<1>2. CASE Room(n, p) = {}
  <2>1. recs' = Removed(n, p) /\ CbkeSend(m, {Terminate(n, p, "NoResources")})
    BY <1>2 DEF ProcessInitiate
  <2>2. Tables(recs') /\ net' \subseteq net \cup {Terminate(n, p, "NoResources")}
    BY <1>0, <2>1, RemovedTables, Sent
  <2>3. FrameOK(Terminate(n, p, "NoResources"), installed)
    BY <1>0, TerminateOK
  <2> QED
    BY <1>1, <2>2, <2>3, OneSent, Kept
<1>3. CASE Room(n, p) # {} /\ m.val # Issuer[n]
  <2>1. recs' = Added(n, p, rec) /\ CbkeSend(m, {Terminate(n, p, "UnknowIssuer")})
    BY <1>3 DEF ProcessInitiate
  <2>2. /\ rec.partner = p /\ rec.key = NoKey /\ rec.state = "Idle"
    BY DEF Free
  <2>3. rec \in KeyRec
    <3>1. Free \in KeyRec
      BY FreeOK DEF RecOK
    <3> QED
      BY <1>0, <3>1 DEF KeyRec, States
  <2> HIDE DEF rec
  <2>4. RecOK(n, rec)
    BY <1>0, <2>2, <2>3 DEF RecOK, Keyed
  <2>5. Tables(recs')
    BY <1>0, <1>3, <2>1, <2>2, <2>4, AddedTables
  <2>6. net' \subseteq net \cup {Terminate(n, p, "UnknowIssuer")}
    BY <2>1, Sent
  <2>7. FrameOK(Terminate(n, p, "UnknowIssuer"), installed)
    BY <1>0, TerminateOK
  <2> QED
    BY <1>1, <2>5, <2>6, <2>7, OneSent, Kept
<1>4. CASE Room(n, p) # {} /\ m.val = Issuer[n]
  <2> DEFINE f == CbkeFrame(n, p, "InitiateRsp", Issuer[n])
  <2>1. recs' = Added(n, p, answers) /\ CbkeSend(m, {f})
    BY <1>4 DEF ProcessInitiate
  <2>2. /\ answers.partner = p /\ answers.key = NoKey
        /\ answers.state = "EDataPending" /\ answers.role = "responder"
    BY DEF Free
  <2>3. answers \in KeyRec
    <3>1. Free \in KeyRec
      BY FreeOK DEF RecOK
    <3> QED
      BY <1>0, <3>1 DEF KeyRec, States
  <2> HIDE DEF answers
  <2>4. RecOK(n, answers)
    BY <1>0, <2>2, <2>3 DEF RecOK, Keyed
  <2>5. Tables(recs')
    BY <1>0, <1>4, <2>1, <2>2, <2>4, AddedTables
  <2>7. FrameOK(f, installed)
    BY <1>0, PairFrameOK
  <2> HIDE DEF f
  <2>6. net' \subseteq net \cup {f}
    BY <2>1, Sent
  <2> QED
    BY <1>1, <2>5, <2>6, <2>7, OneSent, Kept
<1> QED
  BY <1>2, <1>3, <1>4

LEMMA BadMessageStep ==
    ASSUME CbkeInv, NEW m \in net, BadMessage(m), UNCHANGED <<events, pairs, installed, told>>
    PROVE  CbkeInv'
<1> DEFINE f == Terminate(m.to, m.from, "BadMessage")
<1>1. m.to \in Nodes /\ m.from \in Nodes
  BY Ends
<1>2. Tables(recs')
  BY <1>1, RemovedTables DEF BadMessage
<1>3. FrameOK(f, installed)
  BY <1>1, TerminateOK
<1>4. net' \subseteq net \cup {f}
  BY Sent DEF BadMessage
<1> HIDE DEF f
<1> QED
  BY <1>2, <1>3, <1>4, OneSent, Kept

LEMMA EphemeralDataReqStep ==
    ASSUME CbkeInv, NEW m \in net, ProcessEphemeralDataReq(m)
    PROVE  CbkeInv'
<1>0. UNCHANGED <<installed, told>> /\ m.cmd = "EphemeralDataReq"
  BY DEF ProcessEphemeralDataReq
<1>1. CASE ~Due(m, "responder", "EDataPending")
  BY <1>0, <1>1, BadMessageStep DEF ProcessEphemeralDataReq
<1>2. CASE Due(m, "responder", "EDataPending")
  <2> DEFINE old == Rec(m)
             rec == [old EXCEPT !.remote = m.val, !.local = Pair(m.to),
                                !.state = "KeyCalculatePending"]
  <2>1. /\ recs' = With(m, rec) /\ pairs' = [pairs EXCEPT ![m.to] = @ + 1]
        /\ events' = [events EXCEPT ![m.to] = @ \cup {"cmd"}] /\ CbkeSend(m, {})
    BY <1>2 DEF ProcessEphemeralDataReq
  <2>2. /\ HasRec(m.to, m.from) /\ RecOK(m.to, old) /\ old.partner = m.from
        /\ old.role = "responder" /\ old.state = "EDataPending"
    BY <1>2, DueRec
  <2>3. m.to \in Nodes /\ m.from \in Nodes /\ m.val \in Tokens /\ m.val[1] = m.from
    BY <1>0 DEF CbkeInv, FrameOK
  <2>4. Pair(m.to) \in Tokens /\ Pair(m.to)[1] = m.to /\ pairs' \in [Nodes -> Nat]
    BY <2>1, <2>3, PairOK
  <2> HIDE DEF old
  <2>5. old \in KeyRec /\ old.key = NoKey
    BY <2>2 DEF RecOK, Keyed
  <2>6. /\ rec \in KeyRec /\ rec.partner = m.from /\ rec.key = NoKey
        /\ rec.local = Pair(m.to) /\ rec.remote = m.val /\ rec.state = "KeyCalculatePending"
    BY <2>2, <2>3, <2>4, <2>5 DEF KeyRec, States
  <2> HIDE DEF rec
  <2>7. RecOK(m.to, rec)
    BY <2>3, <2>4, <2>6, CbkeAssumption DEF RecOK, Keyed
  <2>8. Tables(recs')
    BY <2>1, <2>2, <2>6, <2>7, WithTables
  <2>9. events' \in [Nodes -> SUBSET {"cmd", "rsp"}]
    BY <2>1, Kept
  <2>10. net' \subseteq net
    BY <2>1, Sent
  <2> QED
    BY <1>0, <2>4, <2>8, <2>9, <2>10, NoneSent
<1> QED
  BY <1>1, <1>2

LEMMA MacKey == ASSUME NEW n, NEW r, NEW b PROVE GenerateMAC(n, r, b).key = r.key
  BY DEF GenerateMAC

\* The two tokens of a key are those of the two ends.
LEMMA KeyTokens ==
    ASSUME NEW n, NEW r, RecOK(n, r), r.state \in Keyed
    PROVE  r.key = KeyBit(r) /\ {t[1] : t \in r.key} = {n, r.partner}
<1>1. r.key = KeyBit(r) /\ r.local[1] = n /\ r.remote[1] = r.partner
  BY DEF RecOK
<1> QED
  BY <1>1 DEF KeyBit

LEMMA ConfirmKeyStep ==
    ASSUME CbkeInv, NEW m \in net, ProcessConfirmKey(m)
    PROVE  CbkeInv'
<1> DEFINE n == m.to
           p == m.from
<1>0. UNCHANGED <<events, pairs, told>> /\ n \in Nodes /\ p \in Nodes
  BY Ends DEF ProcessConfirmKey
<1>1. CASE ~Due(m, "responder", "ConfirmPending")
  BY <1>0, <1>1, BadMessageStep DEF ProcessConfirmKey
<1>2. CASE CbkeSend(m, {Terminate(n, p, "BadKeyConfirm")}) /\ UNCHANGED <<recs, installed>>
  <2> DEFINE f == Terminate(n, p, "BadKeyConfirm")
  <2>1. FrameOK(f, installed)
    BY <1>0, TerminateOK
  <2>2. net' \subseteq net \cup {f}
    BY <1>2, Sent
  <2> HIDE DEF f
  <2> QED
    BY <1>0, <1>2, <2>1, <2>2, OneSent, Kept
<1>3. ASSUME Due(m, "responder", "ConfirmPending"),
             recs' = With(m, [Rec(m) EXCEPT !.state = "TerminationPending"]),
             installed' = installed \cup
                {[at |-> n, with |-> p, key |-> Rec(m).key, role |-> "responder"]},
             CbkeSend(m, {CbkeFrame(n, p, "ConfirmKeyRsp", GenerateMAC(n, Rec(m), FALSE))})
      PROVE  CbkeInv'
  <2> DEFINE old == Rec(m)
             rec == [old EXCEPT !.state = "TerminationPending"]
             k == [at |-> n, with |-> p, key |-> old.key, role |-> "responder"]
             f == CbkeFrame(n, p, "ConfirmKeyRsp", GenerateMAC(n, old, FALSE))
  <2>1. /\ HasRec(n, p) /\ RecOK(n, old) /\ old.partner = p
        /\ old.role = "responder" /\ old.state = "ConfirmPending"
    BY <1>3, DueRec
  <2>2. GenerateMAC(n, old, FALSE).key = old.key
    BY MacKey
  <2>3. f.from = n /\ f.to = p /\ f.cmd = "ConfirmKeyRsp" /\ f.val.key = old.key
    BY <2>2 DEF CbkeFrame
  <2>4. old.key = KeyBit(old) /\ {t[1] : t \in old.key} = {n, p}
    BY <2>1, KeyTokens DEF Keyed
  <2>5. net' \subseteq net \cup {f} /\ installed' = installed \cup {k} /\ recs' = With(m, rec)
    BY <1>3, Sent
  <2> HIDE DEF old, f
  <2>6. FrameOK(f, installed')
    BY <1>0, <2>3, <2>5 DEF FrameOK
  <2>7. KeyOK(k, installed')
    BY <2>4 DEF KeyOK
  <2>8. /\ rec \in KeyRec /\ rec.partner = p /\ rec.key = old.key /\ rec.role = "responder"
        /\ rec.local = old.local /\ rec.remote = old.remote /\ rec.state = "TerminationPending"
    BY <2>1 DEF RecOK, KeyRec, States
  <2> HIDE DEF k, rec
  <2>9. RecOK(n, rec)
    BY <1>0, <2>1, <2>4, <2>8, CbkeAssumption DEF RecOK, Keyed, KeyBit
  <2>10. Tables(recs')
    BY <2>1, <2>5, <2>8, <2>9, WithTables
  <2>11. ToldOK(told', installed')
    BY <1>0, <2>5 DEF CbkeInv, ToldOK
  <2> QED
    BY <1>0, <2>5, <2>6, <2>7, <2>10, <2>11, OneAdded
<1> QED
  BY <1>1, <1>2, <1>3 DEF ProcessConfirmKey

-----------------------------------------------------------------------------
(* What an initiator is sent, and the end of an exchange                   *)

LEMMA InitiateRspStep ==
    ASSUME CbkeInv, NEW m \in net, ProcessInitiateRsp(m)
    PROVE  CbkeInv'
<1>0. UNCHANGED <<events, pairs, installed, told>> /\ m.to \in Nodes /\ m.from \in Nodes
  BY Ends DEF ProcessInitiateRsp
<1>1. CASE BadMessage(m)
  BY <1>0, <1>1, BadMessageStep
<1>2. CASE CbkeSend(m, {Terminate(m.to, m.from, "UnknowIssuer")}) /\ UNCHANGED recs
  <2> DEFINE f == Terminate(m.to, m.from, "UnknowIssuer")
  <2>1. FrameOK(f, installed)
    BY <1>0, TerminateOK
  <2>2. net' \subseteq net \cup {f}
    BY <1>2, Sent
  <2> HIDE DEF f
  <2> QED
    BY <1>0, <1>2, <2>1, <2>2, OneSent, Kept
<1>3. ASSUME Due(m, "initiator", "InitiatePending"),
             recs' = With(m, [Rec(m) EXCEPT !.state = "EDataPending"]),
             CbkeSend(m, {CbkeFrame(m.to, m.from, "EphemeralDataReq", Rec(m).local)})
      PROVE  CbkeInv'
  <2> DEFINE old == Rec(m)
             rec == [old EXCEPT !.state = "EDataPending"]
             f == CbkeFrame(m.to, m.from, "EphemeralDataReq", old.local)
  <2>1. /\ HasRec(m.to, m.from) /\ RecOK(m.to, old) /\ old.partner = m.from
        /\ old.role = "initiator" /\ old.state = "InitiatePending"
    BY <1>3, DueRec
  <2>2. recs' = With(m, rec) /\ net' \subseteq net \cup {f}
    BY <1>3, Sent
  <2> HIDE DEF old
  <2>3. old \in KeyRec /\ old.local \in Tokens /\ old.local[1] = m.to /\ old.key = NoKey
    BY <2>1 DEF RecOK, Keyed
  <2>4. FrameOK(f, installed)
    BY <1>0, <2>3, PairFrameOK
  <2>5. /\ rec \in KeyRec /\ rec.partner = m.from /\ rec.key = NoKey
        /\ rec.local = old.local /\ rec.state = "EDataPending"
    BY <2>1, <2>3 DEF KeyRec, States
  <2> HIDE DEF rec, f
  <2>6. RecOK(m.to, rec)
    BY <1>0, <2>3, <2>5, CbkeAssumption DEF RecOK, Keyed
  <2>7. Tables(recs')
    BY <2>1, <2>2, <2>5, <2>6, WithTables
  <2> QED
    BY <1>0, <2>2, <2>4, <2>7, OneSent
<1> QED
  BY <1>1, <1>2, <1>3 DEF ProcessInitiateRsp

LEMMA EphemeralDataRspStep ==
    ASSUME CbkeInv, NEW m \in net, ProcessEphemeralDataRsp(m)
    PROVE  CbkeInv'
<1>0. UNCHANGED <<pairs, installed, told>> /\ m.cmd = "EphemeralDataRsp"
  BY DEF ProcessEphemeralDataRsp
<1>1. CASE ~Due(m, "initiator", "EDataPending")
  BY <1>0, <1>1, BadMessageStep DEF ProcessEphemeralDataRsp
<1>2. CASE Due(m, "initiator", "EDataPending")
  <2> DEFINE old == Rec(m)
             rec == [old EXCEPT !.remote = m.val, !.state = "KeyCalculatePending"]
  <2>1. /\ recs' = With(m, rec) /\ events' = [events EXCEPT ![m.to] = @ \cup {"rsp"}]
        /\ CbkeSend(m, {})
    BY <1>2 DEF ProcessEphemeralDataRsp
  <2>2. /\ HasRec(m.to, m.from) /\ RecOK(m.to, old) /\ old.partner = m.from
        /\ old.role = "initiator" /\ old.state = "EDataPending"
    BY <1>2, DueRec
  <2>3. m.to \in Nodes /\ m.from \in Nodes /\ m.val \in Tokens /\ m.val[1] = m.from
    BY <1>0 DEF CbkeInv, FrameOK
  <2> HIDE DEF old
  <2>4. old \in KeyRec /\ old.local \in Tokens /\ old.local[1] = m.to /\ old.key = NoKey
    BY <2>2 DEF RecOK, Keyed
  <2>5. /\ rec \in KeyRec /\ rec.partner = m.from /\ rec.key = NoKey
        /\ rec.local = old.local /\ rec.remote = m.val /\ rec.state = "KeyCalculatePending"
    BY <2>2, <2>3, <2>4 DEF KeyRec, States
  <2> HIDE DEF rec
  <2>6. RecOK(m.to, rec)
    BY <2>3, <2>4, <2>5, CbkeAssumption DEF RecOK, Keyed
  <2>7. Tables(recs')
    BY <2>1, <2>2, <2>5, <2>6, WithTables
  <2>8. events' \in [Nodes -> SUBSET {"cmd", "rsp"}]
    BY <2>1, Kept
  <2>9. net' \subseteq net
    BY <2>1, Sent
  <2> QED
    BY <1>0, <2>7, <2>8, <2>9, NoneSent, Kept
<1> QED
  BY <1>1, <1>2

LEMMA ConfirmKeyRspStep ==
    ASSUME CbkeInv, NEW m \in net, ProcessConfirmKeyRsp(m)
    PROVE  CbkeInv'
<1> DEFINE n == m.to
           p == m.from
           due == Due(m, "initiator", "ConfirmPending")
           right == due /\ m.val = GenerateMAC(n, Rec(m), FALSE)
           status == IF right THEN "Success" ELSE IF due THEN "BadKeyConfirm" ELSE "BadMessage"
<1>0. /\ UNCHANGED <<events, pairs>> /\ n \in Nodes /\ p \in Nodes
      /\ m.cmd = "ConfirmKeyRsp" /\ recs' = Removed(n, p)
  BY Ends DEF ProcessConfirmKeyRsp
<1>1. Tables(recs')
  BY <1>0, RemovedTables
<1>2. told' \subseteq told \cup {<<n, status>>}
  BY DEF ProcessConfirmKeyRsp
<1>3. CASE right
  <2> DEFINE k == [at |-> n, with |-> p, key |-> Rec(m).key, role |-> "initiator"]
             r == [at |-> p, with |-> n, key |-> Rec(m).key, role |-> "responder"]
  <2>1. /\ RecOK(n, Rec(m)) /\ Rec(m).partner = p /\ Rec(m).state = "ConfirmPending"
    BY <1>3, DueRec
  <2>2. m.val.key = Rec(m).key
    <3>1. m.val = GenerateMAC(n, Rec(m), FALSE)
      BY <1>3
    <3>2. GenerateMAC(n, Rec(m), FALSE).key = Rec(m).key
      BY MacKey
    <3> QED
      BY <3>1, <3>2
  <2>3. r \in installed
    BY <1>0, <2>2 DEF CbkeInv, FrameOK
  <2>4. {t[1] : t \in Rec(m).key} = {n, p}
    BY <2>1, KeyTokens DEF Keyed
  <2>5. installed' = installed \cup {k} /\ CbkeSend(m, {})
    BY <1>3 DEF ProcessConfirmKeyRsp
  <2>6. net' \subseteq net
    BY <2>5, Sent
  <2>7. KeyOK(k, installed')
    BY <2>3, <2>4, <2>5 DEF KeyOK
  <2>8. ToldOK(told', installed')
    <3>1. k \in installed' /\ k.at = n /\ k.role = "initiator" /\ installed \subseteq installed'
      BY <2>5
    <3>2. ToldOK(told, installed) /\ \A x \in told' : x \in told \/ x[1] = n
      <4>1. \A x \in told' : x \in told \/ x = <<n, status>>
        BY <1>2
      <4> HIDE DEF status
      <4>2. QED
        BY <4>1 DEF CbkeInv
    <3> HIDE DEF k
    <3>3. ASSUME NEW a \in Nodes, <<a, "Success">> \in told'
          PROVE  \E j \in installed' : j.at = a /\ j.role = "initiator"
      <4>1. CASE <<a, "Success">> \in told
        BY <3>1, <3>2, <4>1 DEF ToldOK
      <4>2. CASE a = n
        BY <3>1, <4>2
      <4> QED
        BY <3>2, <3>3, <4>1, <4>2
    <3> QED
      BY <3>3 DEF ToldOK
  <2> HIDE DEF k
  <2> QED
    BY <1>0, <1>1, <2>5, <2>6, <2>7, <2>8, OneAdded
<1>4. CASE ~right
  <2> DEFINE f == Terminate(n, p, status)
             out == {f}
  <2>1. status # "Success"
    BY <1>4
  <2>2. CbkeSend(m, {f}) /\ UNCHANGED installed
    BY <1>4 DEF ProcessConfirmKeyRsp
  <2> HIDE DEF status
  <2>3. FrameOK(f, installed')
    BY <1>0, <2>1, TerminateOK
  <2>4. ToldOK(told', installed')
    BY <1>2, <2>1, <2>2 DEF CbkeInv, ToldOK
  <2> HIDE DEF f
  <2>5. net' \subseteq net \cup out /\ \A g \in out : FrameOK(g, installed')
    BY <2>2, <2>3, Sent
  <2>6. pairs' \in [Nodes -> Nat] /\ events' \in [Nodes -> SUBSET {"cmd", "rsp"}]
    BY <1>0, Kept
  <2>7. installed \subseteq installed' /\ \A j \in installed' : j \in installed
    BY <2>2
  <2> HIDE DEF out
  <2> QED
    BY <1>1, <2>4, <2>5, <2>6, <2>7, StepKeeps
<1> QED
  BY <1>3, <1>4

LEMMA TerminateStep ==
    ASSUME CbkeInv, NEW m \in net, ProcessTerminate(m)
    PROVE  CbkeInv'
<1>0. /\ UNCHANGED <<events, pairs, installed>> /\ m.to \in Nodes /\ m.from \in Nodes
      /\ m.val # "Success" /\ CbkeSend(m, {})
  BY DEF ProcessTerminate, CbkeInv, FrameOK
<1>1. Tables(recs')
  BY <1>0, RemovedTables, Kept DEF ProcessTerminate
<1>2. told' \subseteq told \cup {<<m.to, m.val>>}
  BY DEF ProcessTerminate
<1>3. ToldOK(told', installed')
  BY <1>0, <1>2 DEF CbkeInv, ToldOK
<1> DEFINE out == {}
<1>4. net' \subseteq net \cup out /\ \A g \in out : FrameOK(g, installed')
  BY <1>0, Sent
<1>5. pairs' \in [Nodes -> Nat] /\ events' \in [Nodes -> SUBSET {"cmd", "rsp"}]
  BY <1>0, Kept
<1>6. installed \subseteq installed' /\ \A j \in installed' : j \in installed
  BY <1>0
<1> HIDE DEF out
<1> QED
  BY <1>1, <1>3, <1>4, <1>5, <1>6, StepKeeps

-----------------------------------------------------------------------------
(* The task's events, ageing, and restarts                                 *)

LEMMA CalculateStep ==
    ASSUME CbkeInv, NEW n \in Nodes, NEW e \in events[n], CalculateKey(n, e)
    PROVE  CbkeInv'
<1> DEFINE waiting == {i \in Slots : recs[n][i].state = "KeyCalculatePending"}
           i == FirstFrame(waiting)
           old == recs[n][i]
           r == [old EXCEPT !.key = KeyBit(old), !.state = "ConfirmPending"]
<1>0. /\ UNCHANGED <<pairs, installed, told>> /\ events' = [events EXCEPT ![n] = @ \ {e}]
  BY DEF CalculateKey
<1>1. events' \in [Nodes -> SUBSET {"cmd", "rsp"}]
  BY <1>0, Kept
<1>2. CASE waiting = {}
  <2>1. UNCHANGED <<recs, net>>
    BY <1>2 DEF CalculateKey
  <2>2. Tables(recs') /\ net' \subseteq net
    BY <2>1, Kept
  <2> QED
    BY <1>0, <1>1, <2>2, NoneSent, Kept
<1>3. CASE waiting # {}
  <2> DEFINE f == IF e = "cmd" THEN CbkeFrame(n, r.partner, "EphemeralDataRsp", r.local)
                  ELSE CbkeFrame(n, r.partner, "ConfirmKey", GenerateMAC(n, r, TRUE))
             g == Terminate(n, r.partner, "BadKeyConfirm")
  <2>1. i \in Slots /\ old.state = "KeyCalculatePending"
    <3>1. waiting \in SUBSET Slots
      OBVIOUS
    <3> HIDE DEF waiting
    <3>2. i \in waiting
      BY <1>3, <3>1, FirstOfSome
    <3> QED
      BY <3>2 DEF waiting
  <2>2. \/ recs' = [recs EXCEPT ![n][i] = r] /\ net' = net \cup {f}
        \/ UNCHANGED <<recs, net>>
        \/ UNCHANGED recs /\ net' = net \cup {g}
    BY <1>3 DEF CalculateKey
  <2> HIDE DEF waiting, i
  <2>3. TableOK(n, recs[n]) /\ RecOK(n, old)
    BY <2>1 DEF CbkeInv, Tables, TableOK
  <2>4. /\ old \in KeyRec /\ old.local \in Tokens /\ old.local[1] = n
        /\ old.remote \in Tokens /\ old.remote[1] = old.partner
        /\ old.partner \in Nodes
    <3>1. old.partner # NoNode
      BY <2>1, <2>3 DEF RecOK, Free
    <3> QED
      BY <2>1, <2>3, <3>1 DEF RecOK, KeyRec
  <2>5. \A j \in Slots : j # i /\ recs[n][j].partner = old.partner => old.partner = NoNode
    BY <2>1, <2>3 DEF TableOK, Apart
  <2>6. [recs EXCEPT ![n][i] = r] = [recs EXCEPT ![n] = [recs[n] EXCEPT ![i] = r]]
    OBVIOUS
  <2> HIDE DEF old
  <2>7. KeyBit(old) \in SUBSET Tokens
    BY <2>4 DEF KeyBit
  <2>8. /\ r \in KeyRec /\ r.partner = old.partner /\ r.key = KeyBit(old)
        /\ r.local = old.local /\ r.remote = old.remote /\ r.state = "ConfirmPending"
    BY <2>4, <2>7 DEF KeyRec, States
  <2> HIDE DEF r
  <2>9. RecOK(n, r)
    BY <2>4, <2>8, CbkeAssumption DEF RecOK, Keyed, KeyBit
  <2>10. FrameOK(f, installed)
    <3>1. r.partner \in Nodes /\ r.local \in Tokens /\ r.local[1] = n
      BY <2>4, <2>8
    <3>2. FrameOK(CbkeFrame(n, r.partner, "EphemeralDataRsp", r.local), installed)
      BY <3>1, PairFrameOK
    <3>3. FrameOK(CbkeFrame(n, r.partner, "ConfirmKey", GenerateMAC(n, r, TRUE)), installed)
      BY <3>1, PairFrameOK
    <3> QED
      BY <3>2, <3>3
  <2>11. FrameOK(g, installed)
    BY <2>4, <2>8, TerminateOK
  <2> HIDE DEF f, g
  <2>12. CASE recs' = [recs EXCEPT ![n][i] = r] /\ net' = net \cup {f}
    <3> DEFINE u == [recs[n] EXCEPT ![i] = r]
    <3>1. TableOK(n, u)
      BY <2>1, <2>3, <2>5, <2>8, <2>9, EntryWritten
    <3>2. recs' = [recs EXCEPT ![n] = u]
      BY <2>6, <2>12
    <3> HIDE DEF u
    <3>3. Tables(recs')
      BY <3>1, <3>2, TableWritten, Kept
    <3> QED
      BY <1>0, <1>1, <2>10, <2>12, <3>3, OneStarted, Kept
  <2>13. CASE UNCHANGED <<recs, net>>
    BY <1>0, <1>1, <2>13, NoneSent, Kept
  <2>14. CASE UNCHANGED recs /\ net' = net \cup {g}
    BY <1>0, <1>1, <2>11, <2>14, OneStarted, Kept
  <2> QED
    BY <2>2, <2>12, <2>13, <2>14
<1> QED
  BY <1>2, <1>3

LEMMA AgeStep ==
    ASSUME CbkeInv, NEW n \in Nodes, NEW i \in Slots, AgeKeyEstablishRec(n, i)
    PROVE  CbkeInv'
<1> DEFINE u == [recs[n] EXCEPT ![i] = Free]
<1>1. UNCHANGED <<events, pairs, installed, told, net>> /\ recs' = [recs EXCEPT ![n] = u]
  BY DEF AgeKeyEstablishRec
<1>2. TableOK(n, recs[n])
  BY DEF CbkeInv, Tables
<1>3. TableOK(n, u)
  BY <1>2, FreeOK, EntryWritten
<1> HIDE DEF u
<1>4. Tables(recs')
  BY <1>1, <1>3, TableWritten, Kept
<1> QED
  BY <1>1, <1>4, NoneSent, Kept

LEMMA EmptyTable == ASSUME NEW n PROVE TableOK(n, [i \in Slots |-> Free])
  BY FreeOK DEF TableOK, Apart, RecOK

LEMMA RestartStep ==
    ASSUME CbkeInv, NEW n \in Nodes, Restart(n)
    PROVE  CbkeInv'
<1> DEFINE u == [i \in Slots |-> Free]
<1>1. /\ UNCHANGED <<pairs, installed, told, net>> /\ recs' = [recs EXCEPT ![n] = u]
      /\ events' = [events EXCEPT ![n] = {}]
  BY DEF Restart
<1>2. TableOK(n, u)
  BY EmptyTable
<1> HIDE DEF u
<1>3. Tables(recs') /\ events' \in [Nodes -> SUBSET {"cmd", "rsp"}]
  BY <1>1, <1>2, TableWritten, Kept
<1> QED
  BY <1>1, <1>3, NoneSent, Kept

LEMMA CbkeStarts == CbkeInit => CbkeInv
<1> SUFFICES ASSUME CbkeInit PROVE CbkeInv
  OBVIOUS
<1> DEFINE u == [i \in Slots |-> Free]
<1>1. recs = [n \in Nodes |-> u] /\ \A n : TableOK(n, u)
  BY EmptyTable DEF CbkeInit
<1> HIDE DEF u
<1>2. Tables(recs)
  BY <1>1 DEF Tables
<1> QED
  BY <1>2 DEF CbkeInit, CbkeInv, ToldOK

LEMMA CbkeInductive == CbkeInv /\ [CbkeNext]_cbkeVars => CbkeInv'
<1> SUFFICES ASSUME CbkeInv, [CbkeNext]_cbkeVars PROVE CbkeInv'
  OBVIOUS
<1>1. ASSUME NEW l \in Links, InitiateKeyEstablishment(l[1], l[2]) PROVE CbkeInv'
  <2>1. l[1] \in Nodes /\ l[2] \in Nodes
    BY CbkeAssumption
  <2> QED
    BY <1>1, <2>1, InitiateStep
<1>2. ASSUME NEW m \in net, ProcessInitiate(m) PROVE CbkeInv'
  BY <1>2, ProcessInitiateStep
<1>3. ASSUME NEW m \in net, ProcessEphemeralDataReq(m) PROVE CbkeInv'
  BY <1>3, EphemeralDataReqStep
<1>4. ASSUME NEW m \in net, ProcessConfirmKey(m) PROVE CbkeInv'
  BY <1>4, ConfirmKeyStep
<1>5. ASSUME NEW m \in net, ProcessInitiateRsp(m) PROVE CbkeInv'
  BY <1>5, InitiateRspStep
<1>6. ASSUME NEW m \in net, ProcessEphemeralDataRsp(m) PROVE CbkeInv'
  BY <1>6, EphemeralDataRspStep
<1>7. ASSUME NEW m \in net, ProcessConfirmKeyRsp(m) PROVE CbkeInv'
  BY <1>7, ConfirmKeyRspStep
<1>8. ASSUME NEW m \in net, ProcessTerminate(m) PROVE CbkeInv'
  BY <1>8, TerminateStep
<1>9. ASSUME NEW n \in Nodes, NEW e \in events[n], CalculateKey(n, e) PROVE CbkeInv'
  BY <1>9, CalculateStep
<1>10. ASSUME NEW n \in Nodes, NEW i \in Slots, AgeKeyEstablishRec(n, i) PROVE CbkeInv'
  BY <1>10, AgeStep
<1>11. ASSUME NEW m \in net, Lose(m) PROVE CbkeInv'
  <2>1. net' \subseteq net /\ UNCHANGED <<recs, events, pairs, installed, told>>
    BY <1>11 DEF Lose
  <2> QED
    BY <2>1, NoneSent, Kept
<1>12. ASSUME NEW n \in Nodes, Restart(n) PROVE CbkeInv'
  BY <1>12, RestartStep
<1>13. CASE UNCHANGED cbkeVars
  BY <1>13, NoneSent, Kept DEF cbkeVars
<1> QED
  BY <1>1, <1>2, <1>3, <1>4, <1>5, <1>6, <1>7, <1>8, <1>9, <1>10, <1>11, <1>12, <1>13
     DEF CbkeNext, CbkeReceive, Event, Age

LEMMA InvKeys == ASSUME CbkeInv PROVE KeysAgree
<1>1. \A k \in installed : KeyOK(k, installed)
  BY DEF CbkeInv
<1>2. ASSUME NEW k \in installed, NEW j \in installed, j.key = k.key
      PROVE  {j.at, j.with} = {k.at, k.with}
  BY <1>1, <1>2 DEF KeyOK
<1> QED
  BY <1>1, <1>2 DEF CbkeInv, KeysAgree, KeyOK, ToldOK

LEMMA InvRecords == ASSUME CbkeInv PROVE RecordsSound
<1>1. ASSUME NEW n \in Nodes, NEW i \in Slots
      PROVE  RecOK(n, recs[n][i]) /\ recs[n][i] \in KeyRec
  BY DEF CbkeInv, Tables, TableOK
<1>2. \A n \in Nodes : Apart(recs[n])
  BY DEF CbkeInv, Tables, TableOK
<1>3. TypeOK
  <2>1. ASSUME NEW n \in Nodes, NEW i \in Slots, NEW r \in KeyRec
        PROVE  /\ r.partner \in Nodes \cup {NoNode} /\ r.role \in {"initiator", "responder"}
               /\ r.state \in States /\ r.app \in BOOLEAN
               /\ (r.local = NoKey \/ r.local \in Tokens)
               /\ (r.remote = NoKey \/ r.remote \in Tokens)
               /\ (r.key = NoKey \/ r.key \subseteq Tokens)
    BY DEF KeyRec
  <2>2. (\A n \in Nodes : events[n] \subseteq {"cmd", "rsp"})
        /\ \A m \in net : m.from \in Nodes /\ m.to \in Nodes
    BY DEF CbkeInv, FrameOK
  <2> QED
    BY <1>1, <2>1, <2>2 DEF TypeOK
<1> QED
  BY <1>1, <1>2, <1>3 DEF RecordsSound, RecOK, Apart, Keyed

\* Key establishment between any devices, with tables of any size and any number of
\* frames lost, repeated or late and of restarts: a table has one exchange with a partner
\* at most, an exchange has of the secret just what belongs to its state, and an
\* initiator adds a key, and reports success, only when the responder has added the
\* same one, made of a key pair of each.
THEOREM CbkeIsSound == CbkeSpec => []CbkeSound
<1>1. CbkeInv => CbkeSound
  BY InvKeys, InvRecords DEF CbkeSound
<1>2. CbkeSpec => CbkeInit /\ [][CbkeNext]_cbkeVars
  BY DEF CbkeSpec
<1> QED
  BY <1>1, <1>2, CbkeStarts, CbkeInductive, PTL

-----------------------------------------------------------------------------
(* Scenes: the inductive invariant                                         *)

SceneRec == [group : GroupIds \cup {0}, id : SceneIds, data : SceneData \cup {NoData}]

SceneTable(t) == t \in Seq(SceneRec) /\ Len(t) <= MAX_SCENES /\ OneEach(t)

\* What a change of the table makes of it: one record is changed or none, one
\* is added at the end, or some are gone.
Follows(old, new) ==
    \/ old = new
    \/ Len(old) = Len(new) /\ \E p \in 1 .. Len(new) : \A i \in 1 .. Len(new) : i # p => old[i] = new[i]
    \/ Len(new) = Len(old) + 1 /\ \A i \in 1 .. Len(old) : new[i] = old[i]
    \/ Len(new) < Len(old)

\* The writes that are done, while some are left: the first records.
Done == Len(scenes) + 1 - Len(writing)

WriteOf(table, k) == IF k <= Len(table) THEN [at |-> k, item |-> table[k]] ELSE [at |-> 0, item |-> Len(table)]

WritesOK ==
    /\ Len(writing) \in 0 .. Len(scenes) + 1
    /\ writing = [k \in 1 .. Len(writing) |-> WriteOf(scenes, Done + k)]

InNv(nv, table, S) == \A i \in S : nv.items[i] = table[i]

\* Nothing is under way.
SavedOK == sceneNv.num = Len(scenes) /\ InNv(sceneNv, scenes, 1 .. Len(scenes)) /\ scenes \in meant

\* The table is being saved: the records it had are there from the next write on.
SavingOK ==
    \E old \in meant :
        /\ meant = {old, scenes} /\ SceneTable(old) /\ Follows(old, scenes)
        /\ sceneNv.num = Len(old)
        /\ InNv(sceneNv, scenes, 1 .. Done) /\ InNv(sceneNv, old, Done + 1 .. Len(old))

\* The table is being restored: the records are there, and the first are back.
RestoringOK ==
    \E table \in meant :
        /\ SceneTable(table) /\ Len(table) # 0
        /\ restoring.at \in 1 .. Len(table) + 1 /\ restoring.of = Len(table)
        /\ Len(scenes) = restoring.at - 1 /\ \A i \in 1 .. Len(scenes) : scenes[i] = table[i]
        /\ InNv(sceneNv, table, 1 .. Len(table))
        /\ restoring.at = 1 => writing = <<>> /\ sceneNv.num = Len(table)
        /\ writing = <<>> /\ restoring.at > 1 => sceneNv.num = restoring.at - 1
        /\ lastAnswer = NoAnswer

\* An answer speaks of the table as it is now.
TellsTrue ==
    lastAnswer.op \in {"SceneAdd", "SceneStore", "SceneView", "SceneRemove"} =>
        LET there == FindScene(lastAnswer.key[1], lastAnswer.key[2])
            memory == lastAnswer.op \in {"SceneAdd", "SceneStore"} => lastAnswer.key[Len(lastAnswer.key)]
        IN  CASE lastAnswer.status = SUCCESS -> memory => (there <=> lastAnswer.op # "SceneRemove")
              [] lastAnswer.status \in {NOT_FOUND, INSUFFICIENT_SPACE} -> ~there
              [] OTHER -> ~FindGroup(lastAnswer.key[1])

NvShape == sceneNv \in [num : Nat, items : [1 .. MAX_SCENES -> SceneRec \cup {Blank}]]

TablesOK ==
    /\ SceneTable(scenes) /\ NvShape /\ WritesOK /\ restoring \in [at : Nat, of : Nat]
    /\ restoring = NoRestore => TellsTrue /\ IF writing = <<>> THEN SavedOK ELSE SavingOK
    /\ restoring # NoRestore => RestoringOK

\* The alarms are in the order they were raised in.
AlarmsOK ==
    /\ raised \in Nat /\ alarms \in Seq([code : AlarmCodes, time : Nat])
    /\ \A i \in 1 .. Len(alarms) : alarms[i].time <= raised
    /\ \A i, j \in 1 .. Len(alarms) : i < j => alarms[i].time < alarms[j].time

ScenesInv == torn \in BOOLEAN /\ AlarmsOK /\ (~torn => TablesOK)

-----------------------------------------------------------------------------
(* Sequences, and the places in them. *)

\* The first of some places is one of them, and none is before it.
LEMMA FirstIs ==
    ASSUME NEW n \in Nat, NEW S \in SUBSET (1 .. n), S # {}
    PROVE  First(S) \in S /\ \A j \in S : First(S) <= j
<1> DEFINE T == {1 .. x : x \in S}
<1>1. T \subseteq FiniteSubsetsOf(1 .. n) /\ T # {}
  <2>1. ASSUME NEW x \in S PROVE 1 .. x \subseteq 1 .. n /\ IsFiniteSet(1 .. x)
    BY FS_Interval
  <2> QED
    BY <2>1 DEF FiniteSubsetsOf
<1>2. PICK t \in T : \A u \in T : ~ (<<u, t>> \in StrictSubsetOrdering(1 .. n))
  <2> HIDE DEF T
  <2> QED
    BY <1>1, FS_StrictSubsetOrderingWellFounded, WFMin
<1>3. PICK x \in S : t = 1 .. x
  BY <1>2
<1>4. ASSUME NEW y \in S, y < x PROVE FALSE
  <2>1. 1 .. y \in T /\ 1 .. y \subseteq 1 .. n /\ 1 .. x \subseteq 1 .. n
    BY <1>1
  <2>2. 1 .. y \subseteq 1 .. x /\ 1 .. y # 1 .. x
    BY <1>4
  <2>3. <<1 .. y, 1 .. x>> \in StrictSubsetOrdering(1 .. n)
    BY <2>1, <2>2 DEF StrictSubsetOrdering
  <2> QED
    BY <1>2, <1>3, <2>1, <2>3
<1>5. \A j \in S : x <= j
  BY <1>4
<1> QED
  BY <1>5 DEF First

\* A record is gone, and those behind it are one place further up.
LEMMA RemovedAt ==
    ASSUME NEW T, NEW s \in Seq(T), NEW i \in 1 .. Len(s)
    PROVE  /\ RemoveAt(s, i) \in Seq(T) /\ Len(RemoveAt(s, i)) = Len(s) - 1
           /\ \A k \in 1 .. Len(s) - 1 : RemoveAt(s, i)[k] = IF k < i THEN s[k] ELSE s[k + 1]
<1> DEFINE a == SubSeq(s, 1, i - 1)
           b == SubSeq(s, i + 1, Len(s))
<1>1. a \in Seq(T) /\ Len(a) = i - 1 /\ \A k \in 1 .. i - 1 : a[k] = s[k]
  OBVIOUS
<1>2. b \in Seq(T) /\ Len(b) = Len(s) - i /\ \A k \in 1 .. Len(s) - i : b[k] = s[i + k]
  OBVIOUS
<1>3. RemoveAt(s, i) = a \o b
  BY DEF RemoveAt
<1> HIDE DEF a, b
<1>4. /\ a \o b \in Seq(T) /\ Len(a \o b) = Len(a) + Len(b)
      /\ \A k \in 1 .. Len(a) + Len(b) : (a \o b)[k] = IF k <= Len(a) THEN a[k] ELSE b[k - Len(a)]
  BY <1>1, <1>2, ConcatProperties, Zenon
<1>5. Len(a) + Len(b) = Len(s) - 1
  BY <1>1, <1>2
<1>6. ASSUME NEW k \in 1 .. Len(s) - 1
      PROVE  (a \o b)[k] = IF k < i THEN s[k] ELSE s[k + 1]
  <2>1. CASE k < i
    BY <1>1, <1>4, <1>5, <2>1
  <2>2. CASE ~ (k < i)
    <3>1. k - (i - 1) \in 1 .. Len(s) - i /\ i + (k - (i - 1)) = k + 1
      BY <2>2
    <3>2. (a \o b)[k] = b[k - (i - 1)]
      BY <1>1, <1>4, <1>5, <2>2
    <3> QED
      BY <1>2, <2>2, <3>1, <3>2
  <2> QED
    BY <2>1, <2>2
<1> QED
  BY <1>3, <1>4, <1>5, <1>6

\* The ranks of the members of a set of places are the numbers from 1 to its
\* cardinality; if it is every place up to n they are the places.
LEMMA PlaceRanks ==
    ASSUME NEW n \in Nat, NEW S \in SUBSET (1 .. n)
    PROVE  LET rank == [i \in S |-> Cardinality({j \in S : j <= i})] IN
           /\ Cardinality(S) \in 0 .. n
           /\ \A i, j \in S : rank[i] = rank[j] => i = j
           /\ \A m \in 1 .. Cardinality(S) : \E i \in S : rank[i] = m
           /\ Cardinality(S) = n => S = 1 .. n /\ \A i \in S : rank[i] = i
<1> DEFINE rank == [i \in S |-> Cardinality({j \in S : j <= i})]
           upTo(i) == {j \in S : j <= i}
<1>1. \A i \in S : i \in 1 .. n /\ i \in Nat /\ i >= 1
  OBVIOUS
<1>2. IsFiniteSet(1 .. n) /\ Cardinality(1 .. n) = n
  <2>1. IsFiniteSet(1 .. n) /\ Cardinality(1 .. n) = IF 1 > n THEN 0 ELSE n - 1 + 1
    BY FS_Interval
  <2> QED
    BY <2>1
<1>3. IsFiniteSet(S) /\ Cardinality(S) <= n /\ (Cardinality(S) = n => S = 1 .. n)
  BY <1>2, FS_Subset
<1>4. Cardinality(S) \in Nat
  BY <1>3, FS_CardinalityType
<1>5. ASSUME NEW i \in S
      PROVE  IsFiniteSet(upTo(i)) /\ rank[i] = Cardinality(upTo(i)) /\ rank[i] \in 1 .. Cardinality(S)
  <2>1. upTo(i) \in SUBSET S /\ i \in upTo(i)
    BY <1>1
  <2>2. IsFiniteSet(upTo(i)) /\ Cardinality(upTo(i)) <= Cardinality(S)
    BY <1>3, <2>1, FS_Subset
  <2>3. Cardinality(upTo(i)) \in Nat
    BY <2>2, FS_CardinalityType
  <2>4. Cardinality(upTo(i)) # 0
    BY <2>1, <2>2, FS_EmptySet
  <2>5. rank[i] = Cardinality(upTo(i))
    OBVIOUS
  <2> QED
    BY <1>4, <2>2, <2>3, <2>4, <2>5
<1>6. S = 1 .. n => \A i \in S : rank[i] = i
  <2> SUFFICES ASSUME S = 1 .. n, NEW i \in S PROVE rank[i] = i
    OBVIOUS
  <2>1. upTo(i) = 1 .. i
    OBVIOUS
  <2>2. Cardinality(1 .. i) = IF 1 > i THEN 0 ELSE i - 1 + 1
    BY <1>1, FS_Interval
  <2> QED
    BY <1>1, <1>5, <2>1, <2>2
<1> HIDE DEF rank
<1>7. ASSUME NEW i \in S, NEW j \in S, i < j
      PROVE  rank[i] # rank[j]
  <2>1. upTo(i) \in SUBSET upTo(j) /\ j \in upTo(j) /\ j \notin upTo(i)
    <3>1. \A k \in S : k <= i => k <= j
      BY <1>1, <1>7
    <3>2. upTo(i) \subseteq upTo(j)
      BY <3>1
    <3>3. j \in upTo(j) /\ j \notin upTo(i)
      BY <1>1, <1>7
    <3> QED
      BY <3>2, <3>3
  <2>2. IsFiniteSet(upTo(j)) /\ rank[i] = Cardinality(upTo(i)) /\ rank[j] = Cardinality(upTo(j))
    BY <1>5
  <2> HIDE DEF upTo
  <2>3. Cardinality(upTo(j)) = Cardinality(upTo(i)) => upTo(j) = upTo(i)
    BY <2>1, <2>2, FS_Subset
  <2> QED
    BY <2>1, <2>2, <2>3
<1>8. \A i, j \in S : rank[i] = rank[j] => i = j
  BY <1>1, <1>7
<1>9. rank \in Surjection(S, 1 .. Cardinality(S))
  <2> DEFINE N == 1 .. Cardinality(S)
  <2>1. rank \in [S -> N]
    BY <1>5 DEF rank
  <2>2. rank \in Injection(S, N)
    BY <1>8, <2>1 DEF Injection, IsInjective
  <2>3. IsFiniteSet(N) /\ Cardinality(N) = Cardinality(S)
    <3>1. IsFiniteSet(N)
          /\ Cardinality(N) = IF 1 > Cardinality(S) THEN 0 ELSE Cardinality(S) - 1 + 1
      BY <1>4, FS_Interval
    <3> HIDE DEF N
    <3> QED
      BY <1>4, <3>1
  <2> HIDE DEF N
  <2>4. Cardinality(S) = Cardinality(N) <=> rank \in Surjection(S, N)
    BY <2>2, <2>3, FS_Injection
  <2> QED
    BY <2>3, <2>4 DEF N
<1>10. \A m \in 1 .. Cardinality(S) : \E i \in S : rank[i] = m
  BY <1>9 DEF Surjection
<1>11. Cardinality(S) \in 0 .. n
  BY <1>3, <1>4
<1> QED
  BY <1>3, <1>6, <1>8, <1>10, <1>11 DEF rank

\* What is left of a table has records of it, none twice; if it has as many it
\* is the table.
LEMMA OtherGroupsIs ==
    ASSUME NEW T, NEW t \in Seq(T), NEW g
    PROVE  LET u == OtherGroups(t, g) IN
           /\ u \in Seq(T) /\ Len(u) <= Len(t)
           /\ OneEach(t) => OneEach(u)
           /\ Len(u) = Len(t) => u = t
<1> DEFINE S == {i \in DOMAIN t : t[i].group # g}
           N == Cardinality(S)
           rank == [i \in S |-> Cardinality({j \in S : j <= i})]
           pick(m) == CHOOSE i \in S : Cardinality({j \in S : j <= i}) = m
           u == [m \in 1 .. N |-> t[pick(m)]]
<1>1. S \in SUBSET (1 .. Len(t)) /\ Len(t) \in Nat /\ DOMAIN t = 1 .. Len(t)
  OBVIOUS
<1>2. OtherGroups(t, g) = u
  BY Zenon DEF OtherGroups
<1> HIDE DEF S
<1>3. /\ N \in 0 .. Len(t)
      /\ \A i, j \in S : rank[i] = rank[j] => i = j
      /\ \A m \in 1 .. N : \E i \in S : rank[i] = m
      /\ N = Len(t) => S = 1 .. Len(t) /\ \A i \in S : rank[i] = i
  BY <1>1, PlaceRanks
<1>4. \A m \in 1 .. N : pick(m) \in S /\ rank[pick(m)] = m
  <2> SUFFICES ASSUME NEW m \in 1 .. N PROVE pick(m) \in S /\ rank[pick(m)] = m
    OBVIOUS
  <2>1. \E i \in S : Cardinality({j \in S : j <= i}) = m
    BY <1>3
  <2>2. pick(m) \in S /\ Cardinality({j \in S : j <= pick(m)}) = m
    BY <2>1
  <2> HIDE DEF pick
  <2> QED
    BY <2>2
<1> HIDE DEF rank, pick
<1>5. u \in Seq(T) /\ Len(u) = N /\ DOMAIN u = 1 .. N /\ N \in Nat
  <2>1. N \in Nat
    BY <1>1, <1>3
  <2>2. ASSUME NEW m \in 1 .. N PROVE t[pick(m)] \in T
    <3>1. pick(m) \in 1 .. Len(t)
      BY <1>1, <1>4
    <3> QED
      BY <3>1, ElementOfSeq
  <2> HIDE DEF N
  <2> QED
    BY <2>1, <2>2
<1>6. OneEach(t) => OneEach(u)
  <2> SUFFICES ASSUME OneEach(t), NEW i \in DOMAIN u, NEW j \in DOMAIN u, Key(u[i]) = Key(u[j])
               PROVE  i = j
    BY DEF OneEach
  <2>1. pick(i) \in DOMAIN t /\ pick(j) \in DOMAIN t /\ Key(t[pick(i)]) = Key(t[pick(j)])
    BY <1>1, <1>4, <1>5
  <2>2. pick(i) = pick(j)
    BY <2>1 DEF OneEach
  <2> QED
    BY <1>4, <1>5, <2>2
<1>7. Len(u) = Len(t) => u = t
  <2> SUFFICES ASSUME N = Len(t) PROVE u = t
    BY <1>5
  <2>1. \A m \in 1 .. N : pick(m) = m
    BY <1>3, <1>4
  <2> QED
    BY <1>1, <1>5, <2>1
<1> QED
  BY <1>2, <1>3, <1>5, <1>6, <1>7

-----------------------------------------------------------------------------
(* What the commands make of the table. *)

There(t, g, id) == \E i \in 1 .. Len(t) : t[i].group = g /\ t[i].id = id

LEMMA FindsIt ==
    ASSUME NEW g, NEW id, scenes \in Seq(SceneRec)
    PROVE  /\ FindScene(g, id) <=> There(scenes, g, id)
           /\ FindScene(g, id) =>
                LET p == First(Places(g, id))
                IN p \in 1 .. Len(scenes) /\ scenes[p].group = g /\ scenes[p].id = id
<1>1. DOMAIN scenes = 1 .. Len(scenes) /\ Len(scenes) \in Nat
  OBVIOUS
<1>2. Places(g, id) \in SUBSET (1 .. Len(scenes))
      /\ \A p \in Places(g, id) : scenes[p].group = g /\ scenes[p].id = id
  BY <1>1 DEF Places
<1>3. FindScene(g, id) <=> There(scenes, g, id)
  BY <1>1 DEF FindScene, There, Places
<1>4. FindScene(g, id) => First(Places(g, id)) \in Places(g, id)
  <2> DEFINE S == Places(g, id)
  <2>1. FindScene(g, id) => S # {}
    BY DEF FindScene
  <2>2. S \in SUBSET (1 .. Len(scenes))
    BY <1>2
  <2> HIDE DEF S
  <2>3. FindScene(g, id) => First(S) \in S
    BY <1>1, <2>1, <2>2, FirstIs
  <2> QED
    BY <2>3 DEF S
<1> QED
  BY <1>2, <1>3, <1>4

LEMMA ChangedIs ==
    ASSUME NEW t, SceneTable(t), NEW p \in 1 .. Len(t), NEW d \in SceneData \cup {NoData}
    PROVE  LET u == [t EXCEPT ![p].data = d] IN
           /\ SceneTable(u) /\ Follows(t, u)
           /\ \A g, id : There(u, g, id) <=> There(t, g, id)
<1> DEFINE r == [t[p] EXCEPT !.data = d]
           u == [t EXCEPT ![p] = r]
<1>1. t \in Seq(SceneRec) /\ Len(t) \in Nat /\ t[p] \in SceneRec
  BY DEF SceneTable
<1>2. r \in SceneRec /\ r.group = t[p].group /\ r.id = t[p].id
  BY <1>1 DEF SceneRec
<1> HIDE DEF r
<1>3. u \in Seq(SceneRec) /\ Len(u) = Len(t) /\ \A i \in 1 .. Len(t) : u[i] = IF i = p THEN r ELSE t[i]
  BY <1>1, <1>2
<1> HIDE DEF u
<1>4. \A i \in 1 .. Len(t) : u[i].group = t[i].group /\ u[i].id = t[i].id
  BY <1>2, <1>3
<1>5. OneEach(u)
  <2>1. \A i, j \in 1 .. Len(t) : Key(u[i]) = Key(u[j]) => i = j
    BY <1>1, <1>4 DEF SceneTable, OneEach, Key
  <2> QED
    BY <1>3, <2>1 DEF OneEach
<1>6. Follows(t, u)
  BY <1>3 DEF Follows
<1>7. SceneTable(u)
  BY <1>3, <1>5 DEF SceneTable
<1>8. \A g, id : There(u, g, id) <=> There(t, g, id)
  BY <1>3, <1>4 DEF There
<1> QED
  BY <1>6, <1>7, <1>8 DEF u, r

LEMMA AppendedIs ==
    ASSUME NEW t, SceneTable(t), Len(t) < MAX_SCENES, NEW r \in SceneRec, ~There(t, r.group, r.id)
    PROVE  /\ SceneTable(Append(t, r)) /\ Follows(t, Append(t, r))
           /\ There(Append(t, r), r.group, r.id)
<1> DEFINE u == Append(t, r)
<1>1. t \in Seq(SceneRec) /\ Len(t) \in Nat
  BY DEF SceneTable
<1>2. /\ u \in Seq(SceneRec) /\ Len(u) = Len(t) + 1 /\ u[Len(t) + 1] = r
      /\ \A i \in 1 .. Len(t) : u[i] = t[i]
  BY <1>1
<1> HIDE DEF u
<1>3. \A i \in 1 .. Len(t) : ~ (t[i].group = r.group /\ t[i].id = r.id)
  BY DEF There
<1>4. \A i, j \in 1 .. Len(t) : Key(t[i]) = Key(t[j]) => i = j
  BY <1>1 DEF SceneTable, OneEach
<1>5. \A i, j \in 1 .. Len(t) + 1 : Key(u[i]) = Key(u[j]) => i = j
  <2> SUFFICES ASSUME NEW i \in 1 .. Len(t) + 1, NEW j \in 1 .. Len(t) + 1, Key(u[i]) = Key(u[j])
               PROVE  i = j
    OBVIOUS
  <2>1. i \in 1 .. Len(t) /\ j \in 1 .. Len(t) => i = j
    BY <1>2, <1>4
  <2>2. ~ (i \in 1 .. Len(t) /\ j = Len(t) + 1) /\ ~ (j \in 1 .. Len(t) /\ i = Len(t) + 1)
    BY <1>2, <1>3 DEF Key
  <2> QED
    BY <1>1, <2>1, <2>2
<1>6. OneEach(u)
  BY <1>1, <1>2, <1>5 DEF OneEach
<1>7. Follows(t, u)
  BY <1>2 DEF Follows
<1>8. SceneTable(u)
  BY <1>1, <1>2, <1>6, SceneTableAssumption DEF SceneTable
<1>9. There(u, r.group, r.id)
  BY <1>1, <1>2 DEF There
<1> QED
  BY <1>7, <1>8, <1>9 DEF u

LEMMA RemovedIs ==
    ASSUME NEW t, SceneTable(t), NEW p \in 1 .. Len(t)
    PROVE  LET u == RemoveAt(t, p) IN
           SceneTable(u) /\ Follows(t, u) /\ ~There(u, t[p].group, t[p].id)
<1> DEFINE u == RemoveAt(t, p)
           old(k) == IF k < p THEN k ELSE k + 1
<1>1. t \in Seq(SceneRec) /\ Len(t) \in Nat /\ Len(t) <= MAX_SCENES /\ Len(t) >= 1
  BY DEF SceneTable
<1>2. /\ u \in Seq(SceneRec) /\ Len(u) = Len(t) - 1
      /\ \A k \in 1 .. Len(t) - 1 : u[k] = IF k < p THEN t[k] ELSE t[k + 1]
  BY <1>1, RemovedAt
<1> HIDE DEF u
<1>3. \A k \in 1 .. Len(t) - 1 : u[k] = t[old(k)] /\ old(k) \in 1 .. Len(t) /\ old(k) # p
  BY <1>1, <1>2
<1>4. \A k, l \in 1 .. Len(t) - 1 : old(k) = old(l) => k = l
  BY <1>1
<1> HIDE DEF old
<1>5. \A i, j \in 1 .. Len(t) : Key(t[i]) = Key(t[j]) => i = j
  BY <1>1 DEF SceneTable, OneEach
<1>6. \A k, l \in 1 .. Len(t) - 1 : Key(u[k]) = Key(u[l]) => k = l
  BY <1>3, <1>4, <1>5
<1>7. OneEach(u)
  BY <1>1, <1>2, <1>6 DEF OneEach
<1>8. ~There(u, t[p].group, t[p].id)
  <2> SUFFICES ASSUME NEW k \in 1 .. Len(t) - 1, u[k].group = t[p].group, u[k].id = t[p].id PROVE FALSE
    BY <1>2 DEF There
  <2>1. Key(t[old(k)]) = Key(t[p])
    BY <1>3 DEF Key
  <2> QED
    BY <1>3, <1>5, <2>1
<1>9. SceneTable(u) /\ Follows(t, u)
  BY <1>1, <1>2, <1>7, SceneTableAssumption DEF SceneTable, Follows
<1> QED
  BY <1>8, <1>9 DEF u

LEMMA OthersAre ==
    ASSUME NEW t, SceneTable(t), NEW g
    PROVE  SceneTable(OtherGroups(t, g)) /\ Follows(t, OtherGroups(t, g))
<1> DEFINE u == OtherGroups(t, g)
<1>1. t \in Seq(SceneRec) /\ Len(t) \in Nat /\ Len(t) <= MAX_SCENES /\ OneEach(t)
  BY DEF SceneTable
<1>2. u \in Seq(SceneRec) /\ Len(u) <= Len(t) /\ OneEach(u) /\ (Len(u) = Len(t) => u = t)
  BY <1>1, OtherGroupsIs
<1> HIDE DEF u
<1>3. SceneTable(u) /\ Follows(t, u)
  BY <1>1, <1>2, SceneTableAssumption DEF SceneTable, Follows
<1> QED
  BY <1>3 DEF u

-----------------------------------------------------------------------------
(* The table kept, and the table saved. *)

LEMMA KeptStep ==
    ASSUME ScenesInv, writing = <<>>, restoring = NoRestore,
           UNCHANGED <<scenes, sceneNv, writing, restoring, meant, torn>>, AlarmsOK', ~torn => TellsTrue'
    PROVE  ScenesInv'
<1> SUFFICES ASSUME ~torn PROVE TablesOK'
  BY DEF ScenesInv
<1>1. SceneTable(scenes') /\ NvShape' /\ restoring' \in [at : Nat, of : Nat] /\ SavedOK
  BY DEF ScenesInv, TablesOK, NvShape
<1>2. SavedOK'
  BY <1>1 DEF SavedOK, InNv
<1>3. WritesOK'
  BY DEF ScenesInv, TablesOK, WritesOK, Done
<1> QED
  BY <1>1, <1>2, <1>3 DEF TablesOK

\* A command runs with everything at rest.
LEMMA AtRest ==
    ASSUME ScenesInv, Running
    PROVE  ~torn /\ writing = <<>> /\ restoring = NoRestore /\ TablesOK /\ SavedOK /\ SceneTable(scenes)
BY DEF Running, Quiet, ScenesInv, TablesOK

LEMMA SavedStep ==
    ASSUME ScenesInv, Running, NEW t, SceneTable(t), Follows(scenes, t), Save(t),
           UNCHANGED <<sceneNv, restoring, alarms, raised, torn>>, TellsTrue'
    PROVE  ScenesInv'
<1>1. /\ ~torn /\ writing = <<>> /\ restoring = NoRestore /\ SavedOK /\ SceneTable(scenes) /\ NvShape
      /\ restoring \in [at : Nat, of : Nat]
  BY AtRest DEF TablesOK
<1>2. scenes' = t /\ writing' = ScenesWriteNV(t) /\ meant' = {scenes, t}
  BY DEF Save
<1>3. Len(t) \in Nat /\ Len(scenes) \in Nat
  BY <1>1 DEF SceneTable
<1>4. writing' = [k \in 1 .. Len(t) + 1 |-> WriteOf(t, k)]
  BY <1>2 DEF ScenesWriteNV, WriteOf
<1>5. Len(writing') = Len(t) + 1
  BY <1>3, <1>4
<1>6. Done' = 0
  BY <1>2, <1>3, <1>5 DEF Done
<1>7. writing' # <<>>
  BY <1>3, <1>5
<1>8. WritesOK'
  <2>1. \A k \in 1 .. Len(t) + 1 : WriteOf(t, k) = WriteOf(t, 0 + k)
    BY <1>3
  <2>2. writing' = [k \in 1 .. Len(t) + 1 |-> WriteOf(t, 0 + k)]
    BY <1>4, <2>1
  <2> QED
    BY <1>2, <1>3, <1>5, <1>6, <2>2 DEF WritesOK
<1>9. SavingOK'
  <2>1. scenes \in meant' /\ meant' = {scenes, scenes'} /\ Follows(scenes, scenes')
    BY <1>2
  <2>2. sceneNv'.num = Len(scenes)
    BY <1>1 DEF SavedOK
  <2>3. InNv(sceneNv', scenes', 1 .. Done') /\ InNv(sceneNv', scenes, Done' + 1 .. Len(scenes))
    BY <1>1, <1>3, <1>6 DEF InNv, SavedOK
  <2> QED
    BY <1>1, <2>1, <2>2, <2>3 DEF SavingOK
<1>10. AlarmsOK' /\ NvShape' /\ restoring' = NoRestore /\ torn' \in BOOLEAN
  BY <1>1 DEF ScenesInv, AlarmsOK, NvShape
<1>11. SceneTable(scenes') /\ restoring' \in [at : Nat, of : Nat]
  BY <1>1, <1>2
<1> QED
  BY <1>7, <1>8, <1>9, <1>10, <1>11 DEF ScenesInv, TablesOK

\* A list that is not empty, its first write and the rest.
LEMMA HeadAndRest ==
    ASSUME NEW s, NEW F, Len(s) \in Nat, s = [k \in 1 .. Len(s) |-> F[k]], s # <<>>
    PROVE  /\ Len(s) # 0 /\ Head(s) = s[1] /\ Len(Tail(s)) = Len(s) - 1
           /\ Tail(s) = [k \in 1 .. Len(s) - 1 |-> s[k + 1]]
           /\ Len(s) = 1 => Tail(s) = <<>>
<1> DEFINE T == {F[k] : k \in 1 .. Len(s)}
<1>1. \A k \in 1 .. Len(s) : F[k] \in T
  OBVIOUS
<1> HIDE DEF T
<1>2. s \in Seq(T)
  BY <1>1
<1>3. Len(s) # 0
  BY <1>2
<1>4. Head(s) = s[1] /\ Tail(s) \in Seq(T) /\ Len(Tail(s)) = Len(s) - 1
      /\ \A k \in 1 .. Len(s) - 1 : Tail(s)[k] = s[k + 1]
  BY <1>2, <1>3
<1> DEFINE rest == Tail(s)
           n == Len(s) - 1
<1>5. rest \in Seq(T) /\ Len(rest) = n /\ n \in Nat
  BY <1>3, <1>4
<1> HIDE DEF rest, n
<1>6. rest = [k \in 1 .. n |-> rest[k]]
  BY <1>5
<1>7. n = 0 => rest = <<>>
  BY <1>5
<1>8. Len(s) = 1 => n = 0
  BY DEF n
<1>9. rest = [k \in 1 .. n |-> s[k + 1]]
  BY <1>4, <1>6 DEF rest, n
<1> QED
  BY <1>3, <1>4, <1>7, <1>8, <1>9 DEF rest, n

\* Where a write stands: the records before it are done.
LEMMA WriteIs ==
    ASSUME TablesOK, NvWrite
    PROVE  /\ Done \in 0 .. Len(scenes) /\ Done' = Done + 1 /\ WritesOK' /\ NvShape'
           /\ Done < Len(scenes) => /\ writing' # <<>> /\ meant' = meant /\ sceneNv'.num = sceneNv.num
                                    /\ \A i \in 1 .. MAX_SCENES : sceneNv'.items[i] =
                                          IF i = Done + 1 THEN scenes[i] ELSE sceneNv.items[i]
           /\ Done = Len(scenes) => /\ writing' = <<>> /\ sceneNv'.num = Len(scenes)
                                    /\ sceneNv'.items = sceneNv.items
                                    /\ meant' = IF restoring = NoRestore THEN {scenes} ELSE meant
<1> DEFINE n == Len(scenes)
           L == Len(writing)
           d == n + 1 - L
<1>1. n \in Nat /\ n <= MAX_SCENES /\ scenes \in Seq(SceneRec) /\ MAX_SCENES \in Nat
  BY SceneTableAssumption DEF TablesOK, SceneTable
<1>2. L \in 0 .. n + 1 /\ writing = [k \in 1 .. L |-> WriteOf(scenes, d + k)] /\ Done = d
  BY DEF TablesOK, WritesOK, Done
<1> HIDE DEF L
<1>3. writing # <<>> /\ writing' = Tail(writing) /\ scenes' = scenes /\ restoring' = restoring
  BY DEF NvWrite
<1>4. /\ L # 0 /\ Head(writing) = writing[1] /\ Len(writing') = L - 1
      /\ writing' = [k \in 1 .. L - 1 |-> writing[k + 1]]
      /\ L = 1 => writing' = <<>>
  <2> DEFINE F == [k \in 1 .. L |-> WriteOf(scenes, d + k)]
  <2>1. writing = [k \in 1 .. L |-> F[k]]
    BY <1>2
  <2> HIDE DEF F
  <2>2. L \in Nat /\ L = Len(writing)
    BY <1>1, <1>2 DEF L
  <2> QED
    BY <1>3, <2>1, <2>2, HeadAndRest
<1>5. L \in 1 .. n + 1 /\ d \in 0 .. n
  BY <1>1, <1>2, <1>4
<1>6. Head(writing) = WriteOf(scenes, d + 1)
  BY <1>2, <1>4, <1>5
<1>7. Done' = d + 1
  <2>1. Done' = (n + 1) - (L - 1)
    BY <1>3, <1>4 DEF Done
  <2> QED
    BY <1>1, <1>5, <2>1
<1>8. WritesOK'
  <2>1. \A k \in 1 .. L - 1 : writing[k + 1] = WriteOf(scenes, (d + 1) + k)
    <3> SUFFICES ASSUME NEW k \in 1 .. L - 1 PROVE writing[k + 1] = WriteOf(scenes, (d + 1) + k)
      OBVIOUS
    <3>1. k + 1 \in 1 .. L /\ d + (k + 1) = (d + 1) + k
      BY <1>5
    <3> QED
      BY <1>2, <3>1
  <2>2. writing' = [k \in 1 .. L - 1 |-> WriteOf(scenes, (d + 1) + k)]
    BY <1>4, <2>1
  <2>3. Len(writing') \in 0 .. Len(scenes') + 1
    BY <1>1, <1>3, <1>4, <1>5
  <2> HIDE DEF d
  <2> QED
    BY <1>3, <1>4, <1>7, <2>2, <2>3 DEF WritesOK
<1>9. sceneNv \in [num : Nat, items : [1 .. MAX_SCENES -> SceneRec \cup {Blank}]]
  BY DEF TablesOK, NvShape
<1> DEFINE w == Head(writing)
<1>10. /\ sceneNv' = IF w.at = 0 THEN [sceneNv EXCEPT !.num = w.item]
                     ELSE [sceneNv EXCEPT !.items[w.at] = w.item]
       /\ meant' = IF L = 1 /\ restoring = NoRestore THEN {scenes} ELSE meant
  BY DEF NvWrite, L
<1> HIDE DEF w
<1>11. CASE d < n
  <2>1. w.at = d + 1 /\ w.item = scenes[d + 1] /\ d + 1 \in 1 .. n /\ d + 1 # 0
    BY <1>5, <1>6, <1>11 DEF WriteOf, w
  <2>2. scenes[d + 1] \in SceneRec
    BY <1>1, <2>1, ElementOfSeq
  <2>3. sceneNv' = [sceneNv EXCEPT !.items[d + 1] = scenes[d + 1]]
    BY <1>10, <2>1
  <2>4. NvShape' /\ sceneNv'.num = sceneNv.num
    BY <1>1, <1>9, <2>1, <2>2, <2>3 DEF NvShape
  <2>5. \A i \in 1 .. MAX_SCENES : sceneNv'.items[i] = IF i = d + 1 THEN scenes[i] ELSE sceneNv.items[i]
    BY <1>1, <1>9, <2>1, <2>3
  <2>6. L # 1
    BY <1>1, <1>5, <1>11
  <2>7. writing' # <<>>
    BY <1>4, <1>5, <2>6
  <2> QED
    BY <1>2, <1>5, <1>7, <1>8, <1>10, <1>11, <2>4, <2>5, <2>6, <2>7
<1>12. CASE d = n
  <2>1. w.at = 0 /\ w.item = n
    BY <1>1, <1>6, <1>12 DEF WriteOf, w
  <2>2. sceneNv' = [sceneNv EXCEPT !.num = n]
    BY <1>10, <2>1
  <2>3. NvShape' /\ sceneNv'.num = n /\ sceneNv'.items = sceneNv.items
    BY <1>1, <1>9, <2>2 DEF NvShape
  <2>4. L = 1
    BY <1>1, <1>5, <1>12
  <2>5. writing' = <<>>
    BY <1>4, <2>4
  <2> QED
    BY <1>2, <1>5, <1>7, <1>8, <1>10, <1>12, <2>3, <2>4, <2>5
<1> QED
  BY <1>1, <1>5, <1>11, <1>12

-----------------------------------------------------------------------------
(* The writes, a power failure, and the restore. *)

LEMMA WriteStep == ASSUME ScenesInv, NvWrite PROVE ScenesInv'
<1>1. /\ UNCHANGED <<scenes, restoring, lastAnswer, groups, torn, alarms, raised>> /\ writing # <<>>
  BY DEF NvWrite
<1>2. AlarmsOK' /\ torn' \in BOOLEAN
  BY <1>1 DEF ScenesInv, AlarmsOK
<1> SUFFICES ASSUME ~torn PROVE TablesOK'
  BY <1>1, <1>2 DEF ScenesInv
<1>3. TablesOK
  BY DEF ScenesInv
<1>4. SceneTable(scenes) /\ NvShape /\ restoring \in [at : Nat, of : Nat]
  BY <1>3 DEF TablesOK
<1>5. /\ Len(scenes) \in Nat /\ Len(scenes) <= MAX_SCENES /\ MAX_SCENES \in Nat
  BY <1>4, SceneTableAssumption DEF SceneTable
<1>6. /\ Done \in 0 .. Len(scenes) /\ Done' = Done + 1 /\ WritesOK' /\ NvShape'
      /\ Done < Len(scenes) => /\ writing' # <<>> /\ meant' = meant /\ sceneNv'.num = sceneNv.num
                               /\ \A i \in 1 .. MAX_SCENES : sceneNv'.items[i] =
                                     IF i = Done + 1 THEN scenes[i] ELSE sceneNv.items[i]
      /\ Done = Len(scenes) => /\ writing' = <<>> /\ sceneNv'.num = Len(scenes)
                               /\ sceneNv'.items = sceneNv.items
                               /\ meant' = IF restoring = NoRestore THEN {scenes} ELSE meant
  BY <1>3, WriteIs
<1>7. SceneTable(scenes') /\ restoring' \in [at : Nat, of : Nat]
  BY <1>1, <1>4
<1>8. CASE restoring = NoRestore
  <2>1. TellsTrue /\ SavingOK
    BY <1>1, <1>3, <1>8 DEF TablesOK
  <2>2. TellsTrue'
    BY <1>1, <2>1 DEF TellsTrue, FindScene, Places, FindGroup
  <2>3. PICK old \in meant :
        /\ meant = {old, scenes} /\ SceneTable(old) /\ Follows(old, scenes)
        /\ sceneNv.num = Len(old)
        /\ InNv(sceneNv, scenes, 1 .. Done) /\ InNv(sceneNv, old, Done + 1 .. Len(old))
    BY <2>1 DEF SavingOK
  <2>4. Len(old) \in Nat /\ Len(old) <= MAX_SCENES
    BY <2>3 DEF SceneTable
  <2>5. CASE Done < Len(scenes)
    <3>1. InNv(sceneNv', scenes', 1 .. Done')
      BY <1>1, <1>5, <1>6, <2>3, <2>5 DEF InNv
    <3>2. InNv(sceneNv', old, Done' + 1 .. Len(old))
      BY <1>1, <1>5, <1>6, <2>3, <2>4, <2>5 DEF InNv
    <3>3. SavingOK'
      BY <1>1, <1>6, <2>3, <2>5, <3>1, <3>2 DEF SavingOK
    <3> QED
      BY <1>1, <1>6, <1>7, <1>8, <2>2, <2>5, <3>3 DEF TablesOK
  <2>6. CASE Done = Len(scenes)
    <3>1. SavedOK'
      BY <1>1, <1>6, <1>8, <2>3, <2>6 DEF SavedOK, InNv
    <3> QED
      BY <1>1, <1>6, <1>7, <1>8, <2>2, <2>6, <3>1 DEF TablesOK
  <2> QED
    BY <1>5, <1>6, <2>5, <2>6
<1>9. CASE restoring # NoRestore
  <2>1. PICK table \in meant :
        /\ SceneTable(table) /\ Len(table) # 0
        /\ restoring.at \in 1 .. Len(table) + 1 /\ restoring.of = Len(table)
        /\ Len(scenes) = restoring.at - 1 /\ \A i \in 1 .. Len(scenes) : scenes[i] = table[i]
        /\ InNv(sceneNv, table, 1 .. Len(table))
        /\ restoring.at = 1 => writing = <<>> /\ sceneNv.num = Len(table)
        /\ writing = <<>> /\ restoring.at > 1 => sceneNv.num = restoring.at - 1
        /\ lastAnswer = NoAnswer
    BY <1>3, <1>9 DEF TablesOK, RestoringOK
  <2>2. Len(table) \in Nat /\ Len(table) <= MAX_SCENES /\ Len(scenes) <= Len(table)
    BY <2>1 DEF SceneTable
  <2>3. meant' = meant /\ restoring.at # 1
    BY <1>1, <1>5, <1>6, <1>9, <2>1
  <2>4. InNv(sceneNv', table, 1 .. Len(table))
    <3>1. CASE Done < Len(scenes)
      BY <1>5, <1>6, <2>1, <2>2, <3>1 DEF InNv
    <3>2. CASE Done = Len(scenes)
      BY <1>6, <2>1, <3>2 DEF InNv
    <3> QED
      BY <1>5, <1>6, <3>1, <3>2
  <2>5. writing' = <<>> => sceneNv'.num = restoring.at - 1
    BY <1>5, <1>6, <2>1
  <2>6. RestoringOK'
    BY <1>1, <2>1, <2>3, <2>4, <2>5 DEF RestoringOK
  <2> QED
    BY <1>1, <1>6, <1>7, <1>9, <2>6 DEF TablesOK
<1> QED
  BY <1>8, <1>9

\* Unless the cut is one that is not survived, what NV holds is the table
\* before the command under way or after it.
LEMMA WhatNvHolds ==
    ASSUME TablesOK, ~CutShort
    PROVE  \E table \in meant : /\ SceneTable(table) /\ sceneNv.num = Len(table)
                                /\ InNv(sceneNv, table, 1 .. Len(table))
<1>1. SceneTable(scenes) /\ scenes \in Seq(SceneRec) /\ Len(scenes) \in Nat
  BY DEF TablesOK, SceneTable
<1>2. CASE restoring # NoRestore
  BY <1>2 DEF TablesOK, RestoringOK, CutShort
<1>3. CASE restoring = NoRestore /\ writing = <<>>
  BY <1>3 DEF TablesOK, SavedOK
<1>4. CASE restoring = NoRestore /\ writing # <<>>
  <2>1. PICK old \in meant :
        /\ meant = {old, scenes} /\ SceneTable(old) /\ Follows(old, scenes)
        /\ sceneNv.num = Len(old)
        /\ InNv(sceneNv, scenes, 1 .. Done) /\ InNv(sceneNv, old, Done + 1 .. Len(old))
    BY <1>4 DEF TablesOK, SavingOK
  <2>2. old \in Seq(SceneRec) /\ Len(old) \in Nat /\ (IsPrefix(old, scenes) \/ Len(old) = Len(scenes))
    BY <1>4, <2>1 DEF CutShort, SceneTable
  <2>3. Done \in Int /\ Done <= Len(scenes) + 1
    BY <1>1 DEF TablesOK, WritesOK, Done
  <2>4. Len(old) <= Len(scenes)
    BY <1>1, <2>2 DEF IsPrefix
  <2>5. CASE \A i \in 1 .. Len(old) : scenes[i] = old[i]
    <3>1. InNv(sceneNv, old, 1 .. Len(old))
      BY <2>1, <2>2, <2>3, <2>5 DEF InNv
    <3> QED
      BY <2>1, <3>1
  <2>6. CASE Len(old) = Len(scenes) /\ \E p \in 1 .. Len(scenes) : \A i \in 1 .. Len(scenes) : i # p => old[i] = scenes[i]
    <3>1. PICK p \in 1 .. Len(scenes) : \A i \in 1 .. Len(scenes) : i # p => old[i] = scenes[i]
      BY <2>6
    <3>2. CASE p <= Done
      <4>1. InNv(sceneNv, scenes, 1 .. Len(scenes))
        BY <1>1, <2>1, <2>2, <2>3, <2>6, <3>1, <3>2 DEF InNv
      <4>2. scenes \in meant
        BY <2>1
      <4> QED
        BY <1>1, <2>1, <2>6, <4>1, <4>2
    <3>3. CASE ~ (p <= Done)
      <4>1. InNv(sceneNv, old, 1 .. Len(old))
        BY <1>1, <2>1, <2>2, <2>3, <2>6, <3>1, <3>3 DEF InNv
      <4> QED
        BY <2>1, <4>1
    <3> QED
      BY <3>2, <3>3
  <2> QED
    BY <1>1, <2>1, <2>2, <2>4, <2>5, <2>6 DEF Follows
<1> QED
  BY <1>2, <1>3, <1>4

\* Nothing is told: an answer of another kind than those of TellsTrue.
LEMMA TellsNothing ==
    ASSUME lastAnswer'.op \notin {"SceneAdd", "SceneStore", "SceneView", "SceneRemove"}
    PROVE  TellsTrue'
BY DEF TellsTrue

LEMMA NoneIsTold == ASSUME lastAnswer' = NoAnswer PROVE TellsTrue'
BY TellsNothing DEF NoAnswer

LEMMA NoScenes ==
    /\ SceneTable(<<>>) /\ Len(<<>>) = 0
BY SceneTableAssumption DEF SceneTable, OneEach

LEMMA PowerStep == ASSUME ScenesInv, PowerFails PROVE ScenesInv'
<1>1. /\ ~torn /\ scenes' = <<>> /\ alarms' = <<>> /\ writing' = <<>> /\ lastAnswer' = NoAnswer
      /\ restoring' = IF sceneNv.num = 0 THEN NoRestore ELSE [at |-> 1, of |-> sceneNv.num]
      /\ torn' = (torn \/ CutShort)
      /\ UNCHANGED <<groups, sceneNv, raised, meant>>
  BY DEF PowerFails
<1>2. AlarmsOK' /\ torn' \in BOOLEAN
  BY <1>1 DEF ScenesInv, AlarmsOK
<1> SUFFICES ASSUME ~CutShort PROVE TablesOK'
  BY <1>1, <1>2 DEF ScenesInv
<1>3. TablesOK
  BY <1>1 DEF ScenesInv
<1>4. PICK table \in meant : /\ SceneTable(table) /\ sceneNv.num = Len(table)
                             /\ InNv(sceneNv, table, 1 .. Len(table))
  BY <1>3, WhatNvHolds
<1>5. table \in Seq(SceneRec) /\ Len(table) \in Nat
  BY <1>4 DEF SceneTable
<1>6. SceneTable(scenes') /\ Len(scenes') = 0 /\ NvShape' /\ WritesOK' /\ restoring' \in [at : Nat, of : Nat]
  <2>1. SceneTable(scenes') /\ Len(scenes') = 0 /\ Len(writing') = 0
    BY <1>1, NoScenes
  <2>2. NvShape' /\ restoring' \in [at : Nat, of : Nat]
    BY <1>1, <1>3, <1>4, <1>5 DEF TablesOK, NvShape, NoRestore
  <2>3. WritesOK'
    BY <1>1, <2>1 DEF WritesOK
  <2> QED
    BY <2>1, <2>2, <2>3
<1>7. CASE Len(table) = 0
  <2>1. restoring' = NoRestore /\ table = <<>>
    BY <1>1, <1>4, <1>5, <1>7
  <2>2. SavedOK'
    BY <1>1, <1>4, <1>6, <1>7, <2>1 DEF SavedOK, InNv
  <2> QED
    BY <1>1, <1>6, <2>1, <2>2, NoneIsTold DEF TablesOK
<1>8. CASE Len(table) # 0
  <2>1. restoring' = [at |-> 1, of |-> Len(table)] /\ restoring' # NoRestore
    BY <1>1, <1>4, <1>8 DEF NoRestore
  <2>2. restoring'.at = 1 /\ restoring'.of = Len(table)
    BY <2>1
  <2>3. RestoringOK'
    BY <1>1, <1>4, <1>5, <1>6, <1>8, <2>2 DEF RestoringOK, InNv
  <2> QED
    BY <1>6, <2>1, <2>3 DEF TablesOK
<1> QED
  BY <1>7, <1>8

\* What a restore is at: the table it brings back, of which so much is there.
LEMMA RestoringIs ==
    ASSUME TablesOK, restoring # NoRestore
    PROVE  \E table \in meant :
              /\ SceneTable(table) /\ Len(table) # 0
              /\ restoring.at \in 1 .. Len(table) + 1 /\ restoring.of = Len(table)
              /\ Len(scenes) = restoring.at - 1 /\ \A i \in 1 .. Len(scenes) : scenes[i] = table[i]
              /\ InNv(sceneNv, table, 1 .. Len(table))
              /\ restoring.at = 1 => writing = <<>> /\ sceneNv.num = Len(table)
              /\ writing = <<>> /\ restoring.at > 1 => sceneNv.num = restoring.at - 1
              /\ lastAnswer = NoAnswer
BY DEF TablesOK, RestoringOK

LEMMA RestoreKeeps == ASSUME ScenesInv, NEW memory \in BOOLEAN, RestoreStep(memory) PROVE ScenesInv'
<1>1. /\ restoring # NoRestore /\ writing = <<>> /\ restoring.at <= restoring.of
      /\ restoring' = [restoring EXCEPT !.at = @ + 1] /\ torn' = (torn \/ ~memory)
      /\ UNCHANGED <<groups, sceneNv, alarms, raised, lastAnswer, meant, fails>>
      /\ memory => /\ scenes' = Append(scenes, sceneNv.items[restoring.at])
                   /\ writing' = ScenesWriteNV(scenes')
  BY DEF RestoreStep
<1>2. AlarmsOK' /\ torn' \in BOOLEAN
  BY <1>1 DEF ScenesInv, AlarmsOK
<1> SUFFICES ASSUME ~torn, memory PROVE TablesOK'
  BY <1>1, <1>2 DEF ScenesInv
<1>3. TablesOK /\ SceneTable(scenes) /\ NvShape /\ restoring \in [at : Nat, of : Nat]
  BY DEF ScenesInv, TablesOK
<1>4. PICK table \in meant :
        /\ SceneTable(table) /\ Len(table) # 0
        /\ restoring.at \in 1 .. Len(table) + 1 /\ restoring.of = Len(table)
        /\ Len(scenes) = restoring.at - 1 /\ \A i \in 1 .. Len(scenes) : scenes[i] = table[i]
        /\ InNv(sceneNv, table, 1 .. Len(table))
        /\ restoring.at = 1 => writing = <<>> /\ sceneNv.num = Len(table)
        /\ writing = <<>> /\ restoring.at > 1 => sceneNv.num = restoring.at - 1
        /\ lastAnswer = NoAnswer
  BY <1>1, <1>3, RestoringIs
<1> DEFINE at == restoring.at
<1>5. /\ table \in Seq(SceneRec) /\ Len(table) \in Nat /\ Len(table) <= MAX_SCENES
      /\ \A i, j \in 1 .. Len(table) : Key(table[i]) = Key(table[j]) => i = j
  <2>1. table \in Seq(SceneRec) /\ Len(table) \in Nat /\ Len(table) <= MAX_SCENES /\ OneEach(table)
    BY <1>4 DEF SceneTable
  <2>2. DOMAIN table = 1 .. Len(table)
    BY <2>1
  <2> QED
    BY <2>1, <2>2 DEF OneEach
<1>6. at \in 1 .. Len(table)
  BY <1>1, <1>4, <1>5
<1>7. sceneNv.items[at] = table[at] /\ table[at] \in SceneRec
  BY <1>4, <1>5, <1>6, ElementOfSeq DEF InNv
<1>8. scenes \in Seq(SceneRec) /\ Len(scenes) = at - 1
  BY <1>3, <1>4 DEF SceneTable
<1>9. scenes' \in Seq(SceneRec) /\ Len(scenes') = at /\ \A i \in 1 .. at : scenes'[i] = table[i]
  <2>1. scenes' = Append(scenes, table[at])
    BY <1>1, <1>7
  <2>2. scenes' \in Seq(SceneRec) /\ Len(scenes') = at /\ scenes'[at] = table[at]
        /\ \A i \in 1 .. at - 1 : scenes'[i] = scenes[i]
    BY <1>6, <1>7, <1>8, <2>1
  <2> QED
    BY <1>4, <1>6, <1>8, <2>2
<1>10. SceneTable(scenes')
  <2>1. DOMAIN scenes' = 1 .. at
    BY <1>9
  <2>2. OneEach(scenes')
    BY <1>5, <1>6, <1>9, <2>1 DEF OneEach
  <2> QED
    BY <1>5, <1>6, <1>9, <2>2, SceneTableAssumption DEF SceneTable
<1>11. restoring' \in [at : Nat, of : Nat] /\ restoring'.at = at + 1 /\ restoring'.of = restoring.of
  BY <1>1, <1>3
<1>12. WritesOK' /\ writing' # <<>>
  <2>1. writing' = [k \in 1 .. at + 1 |-> WriteOf(scenes', k)]
    BY <1>1, <1>9 DEF ScenesWriteNV, WriteOf
  <2>2. Len(writing') = at + 1
    BY <1>6, <2>1
  <2>3. Done' = 0
    BY <1>6, <1>9, <2>2 DEF Done
  <2>4. \A k \in 1 .. at + 1 : WriteOf(scenes', k) = WriteOf(scenes', 0 + k)
    BY <1>6
  <2>5. writing' = [k \in 1 .. at + 1 |-> WriteOf(scenes', 0 + k)]
    BY <2>1, <2>4
  <2> QED
    BY <1>6, <1>9, <2>2, <2>3, <2>5 DEF WritesOK
<1>13. restoring' # NoRestore /\ NvShape'
  BY <1>1, <1>3, <1>6, <1>11 DEF NoRestore, NvShape
<1>14. RestoringOK'
  <2>1. /\ table \in meant' /\ lastAnswer' = NoAnswer
        /\ InNv(sceneNv', table, 1 .. Len(table))
    BY <1>1, <1>4
  <2>2. /\ restoring'.at \in 1 .. Len(table) + 1 /\ restoring'.of = Len(table)
        /\ Len(scenes') = restoring'.at - 1 /\ restoring'.at # 1
    BY <1>4, <1>5, <1>6, <1>9, <1>11
  <2>3. \A i \in 1 .. Len(scenes') : scenes'[i] = table[i]
    BY <1>9
  <2> QED
    BY <1>4, <1>12, <2>1, <2>2, <2>3 DEF RestoringOK
<1> QED
  BY <1>10, <1>11, <1>12, <1>13, <1>14 DEF TablesOK

LEMMA DoneKeeps == ASSUME ScenesInv, RestoreDone PROVE ScenesInv'
<1>1. /\ restoring # NoRestore /\ writing = <<>> /\ restoring.at > restoring.of /\ restoring' = NoRestore
      /\ UNCHANGED <<groups, scenes, sceneNv, writing, alarms, raised, lastAnswer, meant, fails, torn>>
  BY DEF RestoreDone
<1>2. AlarmsOK' /\ torn' \in BOOLEAN
  BY <1>1 DEF ScenesInv, AlarmsOK
<1> SUFFICES ASSUME ~torn PROVE TablesOK'
  BY <1>1, <1>2 DEF ScenesInv
<1>3. TablesOK /\ SceneTable(scenes) /\ NvShape
  BY DEF ScenesInv, TablesOK
<1>4. PICK table \in meant :
        /\ SceneTable(table) /\ Len(table) # 0
        /\ restoring.at \in 1 .. Len(table) + 1 /\ restoring.of = Len(table)
        /\ Len(scenes) = restoring.at - 1 /\ \A i \in 1 .. Len(scenes) : scenes[i] = table[i]
        /\ InNv(sceneNv, table, 1 .. Len(table))
        /\ restoring.at = 1 => writing = <<>> /\ sceneNv.num = Len(table)
        /\ writing = <<>> /\ restoring.at > 1 => sceneNv.num = restoring.at - 1
        /\ lastAnswer = NoAnswer
  BY <1>1, <1>3, RestoringIs
<1>5. table \in Seq(SceneRec) /\ scenes \in Seq(SceneRec) /\ Len(table) \in Nat
  BY <1>3, <1>4 DEF SceneTable
<1>6. restoring.at = Len(table) + 1 /\ Len(scenes) = Len(table)
  BY <1>1, <1>4, <1>5
<1>7. scenes = table
  BY <1>4, <1>5, <1>6, SeqEqual
<1>8. sceneNv.num = Len(scenes)
  BY <1>1, <1>4, <1>5, <1>6
<1>9. SavedOK'
  BY <1>1, <1>4, <1>7, <1>8 DEF SavedOK, InNv
<1>10. SceneTable(scenes') /\ NvShape' /\ restoring' \in [at : Nat, of : Nat] /\ TellsTrue'
  BY <1>1, <1>3, <1>4, NoneIsTold DEF NoRestore, NvShape
<1>11. WritesOK'
  BY <1>1, <1>3 DEF TablesOK, WritesOK, Done
<1> QED
  BY <1>1, <1>9, <1>10, <1>11 DEF TablesOK

-----------------------------------------------------------------------------
(* Alarms. *)

LEMMA AlarmsSame == ASSUME AlarmsOK, UNCHANGED <<alarms, raised>> PROVE AlarmsOK'
BY DEF AlarmsOK

LEMMA AlarmsGone == ASSUME AlarmsOK, alarms' = <<>>, raised' = raised PROVE AlarmsOK'
BY DEF AlarmsOK

LEMMA AlarmTimes ==
    ASSUME AlarmsOK
    PROVE  \A i \in 1 .. Len(alarms) : alarms[i].time \in Nat
<1> DEFINE T == [code : AlarmCodes, time : Nat]
<1>1. alarms \in Seq(T) /\ \A a \in T : a.time \in Nat
  BY DEF AlarmsOK
<1> HIDE DEF T
<1>2. \A i \in 1 .. Len(alarms) : alarms[i] \in T
  BY <1>1, ElementOfSeq
<1> QED
  BY <1>1, <1>2

LEMMA AlarmAdded ==
    ASSUME AlarmsOK, NEW code \in AlarmCodes, NEW memory \in BOOLEAN, raised' = raised + 1,
           alarms' = IF memory THEN Append(alarms, [code |-> code, time |-> raised + 1]) ELSE alarms
    PROVE  AlarmsOK'
<1> DEFINE T == [code : AlarmCodes, time : Nat]
           a == [code |-> code, time |-> raised + 1]
<1>1. raised \in Nat /\ alarms \in Seq(T) /\ Len(alarms) \in Nat /\ a \in T /\ a.time = raised + 1
  BY DEF AlarmsOK
<1>2. /\ \A i \in 1 .. Len(alarms) : alarms[i].time \in Nat /\ alarms[i].time <= raised
      /\ \A i, j \in 1 .. Len(alarms) : i < j => alarms[i].time < alarms[j].time
  BY <1>1, AlarmTimes DEF AlarmsOK
<1> HIDE DEF T, a
<1>3. CASE ~memory
  BY <1>1, <1>2, <1>3 DEF AlarmsOK, T
<1>4. CASE memory
  <2>1. /\ alarms' \in Seq(T) /\ Len(alarms') = Len(alarms) + 1 /\ alarms'[Len(alarms) + 1] = a
        /\ \A i \in 1 .. Len(alarms) : alarms'[i] = alarms[i]
    <3>1. alarms' = Append(alarms, a)
      BY <1>4 DEF a
    <3> QED
      BY <1>1, <3>1
  <2>2. \A i \in 1 .. Len(alarms') : alarms'[i].time <= raised'
    BY <1>1, <1>2, <2>1
  <2>3. \A i, j \in 1 .. Len(alarms') : i < j => alarms'[i].time < alarms'[j].time
    BY <1>1, <1>2, <2>1
  <2> QED
    BY <1>1, <2>1, <2>2, <2>3 DEF AlarmsOK, T
<1> QED
  BY <1>3, <1>4

LEMMA AlarmRemoved ==
    ASSUME AlarmsOK, NEW p \in 1 .. Len(alarms), alarms' = RemoveAt(alarms, p), raised' = raised
    PROVE  AlarmsOK'
<1> DEFINE T == [code : AlarmCodes, time : Nat]
           old(k) == IF k < p THEN k ELSE k + 1
<1>1. raised \in Nat /\ alarms \in Seq(T) /\ Len(alarms) \in Nat
  BY DEF AlarmsOK
<1>2. /\ \A i \in 1 .. Len(alarms) : alarms[i].time <= raised
      /\ \A i, j \in 1 .. Len(alarms) : i < j => alarms[i].time < alarms[j].time
  BY DEF AlarmsOK
<1> HIDE DEF T
<1>3. alarms' \in Seq(T) /\ Len(alarms') = Len(alarms) - 1
      /\ \A k \in 1 .. Len(alarms) - 1 : alarms'[k] = IF k < p THEN alarms[k] ELSE alarms[k + 1]
  BY <1>1, RemovedAt
<1>4. \A k \in 1 .. Len(alarms') : alarms'[k] = alarms[old(k)] /\ old(k) \in 1 .. Len(alarms)
  BY <1>1, <1>3
<1>5. \A k, l \in 1 .. Len(alarms') : k < l => old(k) < old(l)
  BY <1>1, <1>3
<1> HIDE DEF old
<1>6. \A k \in 1 .. Len(alarms') : alarms'[k].time <= raised
  BY <1>2, <1>4
<1>7. \A k, l \in 1 .. Len(alarms') : k < l => alarms'[k].time < alarms'[l].time
  BY <1>2, <1>4, <1>5
<1> QED
  BY <1>1, <1>3, <1>6, <1>7 DEF AlarmsOK, T

\* An alarm is reset if there is one of its code: the first of these goes.
LEMMA ResetIs ==
    ASSUME AlarmsOK, NEW code
    PROVE  \/ WithCode(code) = {} /\ ResetAlarmIn(code) = alarms
           \/ \E p \in 1 .. Len(alarms) :
                 /\ alarms[p].code = code /\ ResetAlarmIn(code) = RemoveAt(alarms, p)
                 /\ \A i \in 1 .. Len(alarms) : alarms[i].code = code => p <= i
<1>1. DOMAIN alarms = 1 .. Len(alarms) /\ Len(alarms) \in Nat
  BY DEF AlarmsOK
<1> DEFINE S == WithCode(code)
<1>2. S \in SUBSET (1 .. Len(alarms)) /\ \A i \in 1 .. Len(alarms) : i \in S <=> alarms[i].code = code
  BY <1>1 DEF WithCode
<1>3. ResetAlarmIn(code) = IF S = {} THEN alarms ELSE RemoveAt(alarms, First(S))
  BY DEF ResetAlarmIn
<1> HIDE DEF S
<1>4. S # {} => First(S) \in S /\ \A j \in S : First(S) <= j
  BY <1>1, <1>2, FirstIs
<1>5. S = {} => WithCode(code) = {}
  BY DEF S
<1> QED
  BY <1>2, <1>3, <1>4, <1>5

LEMMA AlarmResetKeeps == ASSUME AlarmsOK, NEW code, alarms' = ResetAlarmIn(code), raised' = raised PROVE AlarmsOK'
BY ResetIs, AlarmRemoved, AlarmsSame

\* The earliest alarm is the first.
LEMMA EarliestIsFirst ==
    ASSUME AlarmsOK, alarms # <<>>
    PROVE  1 \in 1 .. Len(alarms) /\ FindEarliestAlarm = 1 /\ ResetAlarmIn(alarms[1].code) = RemoveAt(alarms, 1)
<1>1. /\ DOMAIN alarms = 1 .. Len(alarms) /\ Len(alarms) \in Nat /\ Len(alarms) # 0
      /\ \A i \in 1 .. Len(alarms) : alarms[i].time \in Nat
      /\ \A i, j \in 1 .. Len(alarms) : i < j => alarms[i].time < alarms[j].time
  BY AlarmTimes DEF AlarmsOK
<1>2. 1 \in 1 .. Len(alarms) /\ \A j \in 1 .. Len(alarms) : alarms[1].time <= alarms[j].time
  BY <1>1
<1>3. \A i \in 1 .. Len(alarms) : (\A j \in 1 .. Len(alarms) : alarms[i].time <= alarms[j].time) => i = 1
  BY <1>1, <1>2
<1>4. FindEarliestAlarm = 1
  BY <1>1, <1>2, <1>3 DEF FindEarliestAlarm
<1>5. ResetAlarmIn(alarms[1].code) = RemoveAt(alarms, 1)
  <2> DEFINE c == alarms[1].code
  <2>1. PICK p \in 1 .. Len(alarms) :
            /\ alarms[p].code = c /\ ResetAlarmIn(c) = RemoveAt(alarms, p)
            /\ \A i \in 1 .. Len(alarms) : alarms[i].code = c => p <= i
    <3>1. 1 \in WithCode(c)
      BY <1>1, <1>2 DEF WithCode
    <3> HIDE DEF c
    <3> QED
      BY <3>1, ResetIs
  <2>2. p = 1
    BY <1>2, <2>1
  <2> QED
    BY <2>1, <2>2
<1> QED
  BY <1>2, <1>4, <1>5

-----------------------------------------------------------------------------
(* The commands. *)

\* A command that leaves the table alone, and what it answers.
LEMMA KeepStep ==
    ASSUME ScenesInv, Running, Keep, UNCHANGED <<sceneNv, restoring, torn>>, AlarmsOK', TellsTrue'
    PROVE  ScenesInv'
<1>1. writing = <<>> /\ restoring = NoRestore
  BY AtRest
<1>2. UNCHANGED <<scenes, sceneNv, writing, restoring, meant, torn>>
  BY DEF Keep
<1> QED
  BY <1>1, <1>2, KeptStep

LEMMA GroupSteps ==
    ASSUME ScenesInv, NEW g, NEW identifying, NEW asked, NEW memory, NEW unicast, NEW id,
           \/ GroupAdd(g) \/ GroupView(g) \/ GroupRemove(g) \/ GroupRemoveAll
           \/ GroupAddIfIdentifying(g, identifying) \/ GroupGetMembership(asked, memory)
           \/ SceneGetMembership(g, memory, unicast) \/ SceneRecall(g, id)
    PROVE  ScenesInv'
<1>1. Running /\ Keep /\ UNCHANGED <<sceneNv, restoring, torn, alarms, raised>>
  BY DEF GroupAdd, GroupView, GroupRemove, GroupRemoveAll, GroupAddIfIdentifying, GroupGetMembership,
         SceneGetMembership, SceneRecall
<1>2. lastAnswer'.op \notin {"SceneAdd", "SceneStore", "SceneView", "SceneRemove"}
  BY DEF GroupAdd, GroupView, GroupRemove, GroupRemoveAll, GroupAddIfIdentifying, GroupGetMembership,
         SceneGetMembership, SceneRecall, SceneAnswers, NoAnswer
<1>3. AlarmsOK'
  BY <1>1, AlarmsSame DEF ScenesInv
<1> QED
  BY <1>1, <1>2, <1>3, KeepStep, TellsNothing

LEMMA AlarmSteps ==
    ASSUME ScenesInv, NEW code, NEW memory \in BOOLEAN,
           (code \in AlarmCodes /\ AddAlarm(code, memory)) \/ AlarmReset(code) \/ ResetAllAlarms \/ AlarmGet
    PROVE  ScenesInv'
<1>1. Running /\ Keep /\ UNCHANGED <<sceneNv, restoring, torn>> /\ AlarmsOK
  BY DEF AddAlarm, AlarmReset, ResetAllAlarms, AlarmGet, ScenesInv
<1>2. lastAnswer'.op \notin {"SceneAdd", "SceneStore", "SceneView", "SceneRemove"}
  BY DEF AddAlarm, AlarmReset, ResetAllAlarms, AlarmGet, SceneAnswers, NoAnswer
<1>3. AlarmsOK'
  <2>1. CASE code \in AlarmCodes /\ AddAlarm(code, memory)
    BY <1>1, <2>1, AlarmAdded DEF AddAlarm
  <2>2. CASE AlarmReset(code)
    BY <1>1, <2>2, AlarmResetKeeps DEF AlarmReset
  <2>3. CASE ResetAllAlarms
    BY <1>1, <2>3, AlarmsGone DEF ResetAllAlarms
  <2>4. CASE AlarmGet /\ alarms = <<>>
    BY <1>1, <2>4, AlarmsSame DEF AlarmGet
  <2>5. CASE AlarmGet /\ alarms # <<>>
    <3>1. alarms' = ResetAlarmIn(alarms[FindEarliestAlarm].code) /\ raised' = raised
      BY <2>5 DEF AlarmGet
    <3> QED
      BY <1>1, <3>1, AlarmResetKeeps
  <2> QED
    BY <2>1, <2>2, <2>3, <2>4, <2>5
<1> QED
  BY <1>1, <1>2, <1>3, KeepStep, TellsNothing

LEMMA AnsweredStep == ASSUME ScenesInv, SceneAnswered PROVE ScenesInv'
<1>1. /\ writing = <<>> /\ restoring = NoRestore /\ lastAnswer' = NoAnswer
      /\ UNCHANGED <<scenes, sceneNv, writing, restoring, meant, torn, alarms, raised>>
  BY DEF SceneAnswered, Quiet
<1>2. AlarmsOK'
  BY <1>1, AlarmsSame DEF ScenesInv
<1> QED
  BY <1>1, <1>2, KeptStep, NoneIsTold

\* An answer about a scene, and the scene: what it says is so.
LEMMA ToldTrue ==
    ASSUME NEW g, NEW id, NEW op, NEW status, NEW memory \in BOOLEAN, NEW sent, NEW key,
           scenes' \in Seq(SceneRec), key[1] = g, key[2] = id,
           lastAnswer' = [op |-> op, key |-> key, status |-> status, sent |-> sent],
           op \in {"SceneAdd", "SceneStore"} => key[Len(key)] = memory,
           status \in {SUCCESS, NOT_FOUND, INSUFFICIENT_SPACE, INVALID_FIELD},
           op \in {"SceneAdd", "SceneStore"} /\ status = SUCCESS /\ memory => There(scenes', g, id),
           op = "SceneView" /\ status = SUCCESS => There(scenes', g, id),
           op = "SceneRemove" /\ status = SUCCESS => ~There(scenes', g, id),
           op \in {"SceneAdd", "SceneStore", "SceneView", "SceneRemove"},
           status \in {NOT_FOUND, INSUFFICIENT_SPACE} => ~There(scenes', g, id),
           status = INVALID_FIELD => g \notin groups'
    PROVE  TellsTrue'
<1>1. DOMAIN scenes' = 1 .. Len(scenes')
  OBVIOUS
<1>2. FindScene(g, id)' <=> There(scenes', g, id)
  BY <1>1 DEF FindScene, There, Places
<1>3. FindGroup(g)' <=> g \in groups'
  BY DEF FindGroup
<1>4. lastAnswer'.op = op /\ lastAnswer'.key = key /\ lastAnswer'.status = status
  OBVIOUS
<1> QED
  BY <1>2, <1>3, <1>4 DEF TellsTrue, SUCCESS, NOT_FOUND, INSUFFICIENT_SPACE, INVALID_FIELD

LEMMA ToldAnyhow ==
    ASSUME NEW g, NEW id, NEW op \in {"SceneView", "SceneRemove"}, NEW status, NEW sent, NEW key,
           scenes' \in Seq(SceneRec), key[1] = g, key[2] = id,
           lastAnswer' = [op |-> op, key |-> key, status |-> status, sent |-> sent],
           status \in {SUCCESS, NOT_FOUND, INVALID_FIELD},
           op = "SceneView" /\ status = SUCCESS => There(scenes', g, id),
           op = "SceneRemove" /\ status = SUCCESS => ~There(scenes', g, id),
           status = NOT_FOUND => ~There(scenes', g, id),
           status = INVALID_FIELD => g \notin groups'
    PROVE  TellsTrue'
<1> DEFINE memory == TRUE
<1>1. memory \in BOOLEAN
  OBVIOUS
<1> HIDE DEF memory
<1>2. status # INSUFFICIENT_SPACE
  BY DEF SUCCESS, NOT_FOUND, INVALID_FIELD, INSUFFICIENT_SPACE
<1>3. op \notin {"SceneAdd", "SceneStore"} /\ op \in {"SceneAdd", "SceneStore", "SceneView", "SceneRemove"}
  OBVIOUS
<1> QED
  BY <1>1, <1>2, <1>3, ToldTrue

LEMMA ViewStep == ASSUME ScenesInv, NEW g, NEW id, SceneView(g, id) PROVE ScenesInv'
<1> DEFINE key == <<g, id>>
           status == IF FindScene(g, id) THEN SUCCESS ELSE IF KnownGroup(g) THEN NOT_FOUND ELSE INVALID_FIELD
<1>1. /\ Running /\ Keep /\ UNCHANGED <<groups, scenes, sceneNv, restoring, alarms, raised, torn>>
      /\ lastAnswer' = [op |-> "SceneView", key |-> key, status |-> status, sent |-> TRUE]
  BY DEF SceneView, SceneAnswers, Keep
<1>2. scenes \in Seq(SceneRec) /\ AlarmsOK'
  BY <1>1, AtRest, AlarmsSame DEF SceneTable, ScenesInv
<1>3. FindScene(g, id) <=> There(scenes, g, id)
  BY <1>2, FindsIt
<1>4. key[1] = g /\ key[2] = id
  OBVIOUS
<1>5. /\ status \in {SUCCESS, NOT_FOUND, INVALID_FIELD}
      /\ status = SUCCESS => There(scenes, g, id)
      /\ status = NOT_FOUND => ~There(scenes, g, id)
      /\ status = INVALID_FIELD => ~KnownGroup(g)
  BY <1>3 DEF SUCCESS, NOT_FOUND, INVALID_FIELD
<1> HIDE DEF key, status
<1>6. status = INVALID_FIELD => g \notin groups
  BY <1>5 DEF KnownGroup, FindGroup
<1>7. TellsTrue'
  BY <1>1, <1>2, <1>4, <1>5, <1>6, ToldAnyhow
<1> QED
  BY <1>1, <1>2, <1>7, KeepStep

LEMMA RemoveStep ==
    ASSUME ScenesInv, NEW g, NEW id, NEW unicast, SceneRemove(g, id, unicast)
    PROVE  ScenesInv'
<1> DEFINE key == <<g, id>>
           status == IF FindScene(g, id) THEN SUCCESS ELSE IF FindGroup(g) THEN NOT_FOUND ELSE INVALID_FIELD
           p == First(Places(g, id))
           u == RemoveAt(scenes, p)
<1>1. /\ Running /\ UNCHANGED <<groups, sceneNv, restoring, alarms, raised, torn>>
      /\ lastAnswer' = [op |-> "SceneRemove", key |-> key, status |-> status, sent |-> unicast]
      /\ IF FindScene(g, id) THEN Save(u) ELSE Keep
  BY DEF SceneRemove, SceneAnswers
<1>2. SceneTable(scenes) /\ scenes \in Seq(SceneRec) /\ AlarmsOK'
  BY <1>1, AtRest, AlarmsSame DEF SceneTable, ScenesInv
<1>3. /\ FindScene(g, id) <=> There(scenes, g, id)
      /\ FindScene(g, id) => p \in 1 .. Len(scenes) /\ scenes[p].group = g /\ scenes[p].id = id
  BY <1>2, FindsIt
<1>4. key[1] = g /\ key[2] = id
  OBVIOUS
<1>5. /\ status \in {SUCCESS, NOT_FOUND, INVALID_FIELD}
      /\ status = SUCCESS <=> FindScene(g, id)
      /\ status = INVALID_FIELD => g \notin groups
  BY DEF SUCCESS, NOT_FOUND, INVALID_FIELD, FindGroup
<1> HIDE DEF key, status, p
<1>6. CASE FindScene(g, id)
  <2>1. p \in 1 .. Len(scenes) /\ scenes[p].group = g /\ scenes[p].id = id
    BY <1>3, <1>6
  <2>2. SceneTable(u) /\ Follows(scenes, u) /\ ~There(u, g, id)
    BY <1>2, <2>1, RemovedIs
  <2> HIDE DEF u
  <2>3. Save(u) /\ scenes' = u /\ u \in Seq(SceneRec)
    BY <1>1, <1>6, <2>2 DEF Save, SceneTable
  <2>4. status = SUCCESS /\ status # INVALID_FIELD /\ status # NOT_FOUND
    BY <1>5, <1>6 DEF SUCCESS, INVALID_FIELD, NOT_FOUND
  <2>5. TellsTrue'
    BY <1>1, <1>4, <1>5, <2>2, <2>3, <2>4, ToldAnyhow
  <2> QED
    BY <1>1, <2>2, <2>3, <2>5, SavedStep
<1>7. CASE ~FindScene(g, id)
  <2>1. Keep /\ scenes' = scenes /\ ~There(scenes, g, id) /\ status # SUCCESS
    BY <1>1, <1>3, <1>5, <1>7 DEF Keep
  <2>2. TellsTrue'
    BY <1>1, <1>2, <1>4, <1>5, <2>1, ToldAnyhow
  <2> QED
    BY <1>1, <1>2, <2>1, <2>2, KeepStep
<1> QED
  BY <1>6, <1>7

LEMMA RemoveAllStep == ASSUME ScenesInv, NEW g, NEW unicast, SceneRemoveAll(g, unicast) PROVE ScenesInv'
<1>1. /\ Running /\ UNCHANGED <<groups, sceneNv, restoring, alarms, raised, torn>>
      /\ IF KnownGroup(g) THEN Save(OtherGroups(scenes, g)) ELSE Keep
      /\ lastAnswer'.op = "SceneRemoveAll"
  BY DEF SceneRemoveAll, SceneAnswers
<1>2. SceneTable(scenes) /\ AlarmsOK' /\ TellsTrue'
  BY <1>1, AtRest, AlarmsSame, TellsNothing DEF ScenesInv
<1>3. SceneTable(OtherGroups(scenes, g)) /\ Follows(scenes, OtherGroups(scenes, g))
  BY <1>2, OthersAre
<1>4. CASE KnownGroup(g)
  BY <1>1, <1>2, <1>3, <1>4, SavedStep
<1>5. CASE ~KnownGroup(g)
  BY <1>1, <1>2, <1>5, KeepStep
<1> QED
  BY <1>4, <1>5

\* An addition and a store differ in when they change a scene that is there.
LEMMA PutStep ==
    ASSUME ScenesInv, Running, NEW g \in GroupIds \cup {0}, NEW id \in SceneIds, NEW op \in {"SceneAdd", "SceneStore"},
           NEW d \in SceneData \cup {NoData}, NEW memory \in BOOLEAN, NEW key, NEW sent,
           key[1] = g, key[2] = id, key[Len(key)] = memory,
           lastAnswer' = [op |-> op, key |-> key, status |-> Admits(g, id), sent |-> sent],
           \/ Admits(g, id) # SUCCESS /\ Keep
           \/ Admits(g, id) = SUCCESS /\ FindScene(g, id) /\ Keep
           \/ Admits(g, id) = SUCCESS /\ FindScene(g, id) /\ Save([scenes EXCEPT ![First(Places(g, id))].data = d])
           \/ /\ Admits(g, id) = SUCCESS /\ ~FindScene(g, id)
              /\ AddScene([group |-> g, id |-> id, data |-> d], memory),
           UNCHANGED <<groups, sceneNv, restoring, alarms, raised, torn>>
    PROVE  ScenesInv'
<1> DEFINE status == Admits(g, id)
           p == First(Places(g, id))
           r == [group |-> g, id |-> id, data |-> d]
<1>1. SceneTable(scenes) /\ scenes \in Seq(SceneRec) /\ Len(scenes) \in Nat /\ AlarmsOK'
  BY AtRest, AlarmsSame DEF SceneTable, ScenesInv
<1>2. /\ FindScene(g, id) <=> There(scenes, g, id)
      /\ FindScene(g, id) => p \in 1 .. Len(scenes)
  BY <1>1, FindsIt
<1>3. /\ status \in {SUCCESS, INSUFFICIENT_SPACE, INVALID_FIELD} /\ status # NOT_FOUND
      /\ status = INVALID_FIELD => g \notin groups
      /\ status = INSUFFICIENT_SPACE => ~FindScene(g, id)
      /\ status = SUCCESS => FindScene(g, id) \/ Len(scenes) < MAX_SCENES
      /\ status = SUCCESS => status # INSUFFICIENT_SPACE /\ status # INVALID_FIELD
  BY DEF Admits, KnownGroup, FindGroup, CountAllScenes, SUCCESS, NOT_FOUND, INVALID_FIELD, INSUFFICIENT_SPACE
<1>4. r \in SceneRec /\ r.group = g /\ r.id = id
  BY DEF SceneRec
<1> HIDE DEF status, p
<1>5. CASE status # SUCCESS /\ Keep
  <2>1. scenes' = scenes
    BY <1>5 DEF Keep
  <2>2. TellsTrue'
    BY <1>1, <1>2, <1>3, <1>5, <2>1, ToldTrue DEF status
  <2> QED
    BY <1>1, <1>5, <2>2, KeepStep
<1>6. CASE status = SUCCESS /\ FindScene(g, id) /\ Keep
  <2>1. scenes' = scenes
    BY <1>6 DEF Keep
  <2>2. TellsTrue'
    BY <1>1, <1>2, <1>3, <1>6, <2>1, ToldTrue DEF status
  <2> QED
    BY <1>1, <1>6, <2>2, KeepStep
<1>7. CASE status = SUCCESS /\ FindScene(g, id) /\ Save([scenes EXCEPT ![p].data = d])
  <2> DEFINE u == [scenes EXCEPT ![p].data = d]
  <2>1. p \in 1 .. Len(scenes)
    BY <1>2, <1>7
  <2>2. SceneTable(u) /\ Follows(scenes, u) /\ There(u, g, id)
    <3>1. There(scenes, g, id)
      BY <1>2, <1>7
    <3> QED
      BY <1>1, <2>1, <3>1, ChangedIs
  <2>3. Save(u)
    BY <1>7
  <2> HIDE DEF u
  <2>4. scenes' = u /\ scenes' \in Seq(SceneRec)
    BY <2>2, <2>3 DEF Save, SceneTable
  <2>5. TellsTrue'
    BY <1>3, <1>7, <2>2, <2>4, ToldTrue DEF status
  <2> QED
    BY <2>2, <2>3, <2>5, SavedStep
<1>8. CASE status = SUCCESS /\ ~FindScene(g, id) /\ AddScene(r, memory)
  <2>1. CASE memory
    <3> DEFINE u == Append(scenes, r)
    <3>1. ~There(scenes, r.group, r.id) /\ Len(scenes) < MAX_SCENES
      BY <1>2, <1>3, <1>4, <1>8
    <3> HIDE DEF r
    <3>2. SceneTable(u) /\ Follows(scenes, u) /\ There(u, g, id)
      BY <1>1, <1>4, <3>1, AppendedIs
    <3>3. Save(u)
      BY <1>8, <2>1 DEF AddScene
    <3> HIDE DEF u
    <3>4. scenes' = u /\ scenes' \in Seq(SceneRec)
      BY <3>2, <3>3 DEF Save, SceneTable
    <3>5. TellsTrue'
      BY <1>3, <1>8, <3>2, <3>4, ToldTrue DEF status
    <3> QED
      BY <3>2, <3>3, <3>5, SavedStep
  <2>2. CASE ~memory
    <3>1. Keep /\ scenes' = scenes
      BY <1>8, <2>2 DEF AddScene, Keep
    <3>2. TellsTrue'
      BY <1>1, <1>3, <1>8, <2>2, <3>1, ToldTrue DEF status
    <3> QED
      BY <1>1, <3>1, <3>2, KeepStep
  <2> QED
    BY <2>1, <2>2
<1> QED
  BY <1>5, <1>6, <1>7, <1>8 DEF status, p

LEMMA AddStep ==
    ASSUME ScenesInv, NEW g \in GroupIds \cup {0}, NEW id \in SceneIds, NEW data \in SceneData, NEW memory \in BOOLEAN,
           SceneAdd(g, id, data, memory)
    PROVE  ScenesInv'
<1> DEFINE key == <<g, id, data, memory>>
<1>1. key[1] = g /\ key[2] = id /\ Len(key) = 4 /\ key[4] = memory
  OBVIOUS
<1>2. /\ Running /\ UNCHANGED <<groups, sceneNv, restoring, alarms, raised, torn>>
      /\ lastAnswer' = [op |-> "SceneAdd", key |-> key, status |-> Admits(g, id), sent |-> TRUE]
      /\ \/ Admits(g, id) # SUCCESS /\ Keep
         \/ Admits(g, id) = SUCCESS /\ FindScene(g, id) /\ Save([scenes EXCEPT ![First(Places(g, id))].data = data])
         \/ /\ Admits(g, id) = SUCCESS /\ ~FindScene(g, id)
            /\ AddScene([group |-> g, id |-> id, data |-> data], memory)
  BY DEF SceneAdd, SceneAnswers
<1> HIDE DEF key
<1> QED
  BY <1>1, <1>2, PutStep

LEMMA StoreStep ==
    ASSUME ScenesInv, NEW g \in GroupIds \cup {0}, NEW id \in SceneIds, NEW filled \in SceneData \cup {NoData},
           NEW memory \in BOOLEAN, NEW unicast, SceneStore(g, id, filled, memory, unicast)
    PROVE  ScenesInv'
<1> DEFINE key == <<g, id, memory>>
<1>1. key[1] = g /\ key[2] = id /\ Len(key) = 3 /\ key[3] = memory
  OBVIOUS
<1>2. /\ Running /\ UNCHANGED <<groups, sceneNv, restoring, alarms, raised, torn>>
      /\ lastAnswer' = [op |-> "SceneStore", key |-> key, status |-> Admits(g, id), sent |-> unicast]
      /\ \/ Admits(g, id) # SUCCESS /\ Keep
         \/ Admits(g, id) = SUCCESS /\ FindScene(g, id) /\ Keep
         \/ Admits(g, id) = SUCCESS /\ FindScene(g, id) /\ Save([scenes EXCEPT ![First(Places(g, id))].data = filled])
         \/ /\ Admits(g, id) = SUCCESS /\ ~FindScene(g, id)
            /\ AddScene([group |-> g, id |-> id, data |-> filled], memory)
  BY DEF SceneStore, SceneAnswers
<1> HIDE DEF key
<1> QED
  BY <1>1, <1>2, PutStep

-----------------------------------------------------------------------------
(* The specification. *)

LEMMA InitScenes == ScenesInit => ScenesInv
<1> SUFFICES ASSUME ScenesInit PROVE ScenesInv
  OBVIOUS
<1>1. /\ scenes = <<>> /\ writing = <<>> /\ restoring = NoRestore /\ lastAnswer = NoAnswer /\ torn = FALSE
      /\ alarms = <<>> /\ raised = 0 /\ meant = {scenes}
      /\ sceneNv = [num |-> 0, items |-> [i \in 1 .. MAX_SCENES |-> Blank]]
  BY DEF ScenesInit
<1>2. SceneTable(scenes) /\ Len(scenes) = 0 /\ Len(writing) = 0
  BY <1>1, NoScenes
<1>3. NvShape /\ SavedOK /\ restoring \in [at : Nat, of : Nat]
  BY <1>1, <1>2 DEF NvShape, SavedOK, InNv, NoRestore
<1>4. WritesOK
  BY <1>1, <1>2 DEF WritesOK
<1>5. TellsTrue
  BY <1>1 DEF TellsTrue, NoAnswer
<1>6. AlarmsOK
  BY <1>1 DEF AlarmsOK
<1> QED
  BY <1>1, <1>2, <1>3, <1>4, <1>5, <1>6 DEF ScenesInv, TablesOK

LEMMA StutterScenes == ASSUME ScenesInv, UNCHANGED scenesVars PROVE ScenesInv'
BY DEF scenesVars, ScenesInv, TablesOK, AlarmsOK, SceneTable, NvShape, WritesOK, Done, SavedOK, SavingOK,
       RestoringOK, TellsTrue, FindScene, Places, FindGroup

LEMMA NextKeepsScenes == ASSUME ScenesInv, [ScenesNext]_scenesVars PROVE ScenesInv'
<1>1. CASE UNCHANGED scenesVars
  BY <1>1, StutterScenes
<1>2. CASE ScenesNext
  <2>1. ASSUME NEW g \in GroupIds \cup {0},
               \/ GroupAdd(g) \/ GroupView(g) \/ GroupRemove(g)
               \/ \E identifying \in BOOLEAN : GroupAddIfIdentifying(g, identifying)
               \/ \E unicast \in BOOLEAN : SceneRemoveAll(g, unicast)
               \/ \E memory, unicast \in BOOLEAN : SceneGetMembership(g, memory, unicast)
        PROVE  ScenesInv'
    BY <2>1, GroupSteps, RemoveAllStep
  <2>2. ASSUME NEW g \in GroupIds \cup {0}, NEW id \in SceneIds,
               \/ SceneView(g, id) \/ SceneRecall(g, id)
               \/ \E unicast \in BOOLEAN : SceneRemove(g, id, unicast)
        PROVE  ScenesInv'
    BY <2>2, ViewStep, GroupSteps, RemoveStep
  <2>3. ASSUME NEW g \in GroupIds \cup {0}, NEW id \in SceneIds,
               \/ \E data \in SceneData, memory \in BOOLEAN : SceneAdd(g, id, data, memory)
               \/ \E filled \in SceneData \cup {NoData}, memory, unicast \in BOOLEAN :
                     SceneStore(g, id, filled, memory, unicast)
        PROVE  ScenesInv'
    BY <2>3, AddStep, StoreStep
  <2>4. ASSUME SceneAnswered \/ Torn \/ GroupRemoveAll \/ NvWrite \/ PowerFails \/ RestoreDone PROVE ScenesInv'
    BY <2>4, AnsweredStep, StutterScenes, GroupSteps, WriteStep, PowerStep, DoneKeeps DEF Torn
  <2>5. ASSUME \/ \E asked \in SUBSET GroupIds, memory \in BOOLEAN : GroupGetMembership(asked, memory)
               \/ \E memory \in BOOLEAN : RestoreStep(memory)
        PROVE  ScenesInv'
    BY <2>5, GroupSteps, RestoreKeeps
  <2>6. ASSUME NEW code \in AlarmCodes, (\E memory \in BOOLEAN : AddAlarm(code, memory)) \/ AlarmReset(code)
        PROVE  ScenesInv'
    BY <2>6, AlarmSteps
  <2>7. ASSUME ResetAllAlarms \/ AlarmGet PROVE ScenesInv'
    BY <2>7, AlarmSteps, TRUE \in BOOLEAN
  <2> QED
    BY <1>2, <2>1, <2>2, <2>3, <2>4, <2>5, <2>6, <2>7 DEF ScenesNext
<1> QED
  BY <1>1, <1>2

\* What the tables promise follows.
LEMMA InvTables == ScenesInv => TableSaved /\ ComesBack /\ AnswerTrue
<1> SUFFICES ASSUME ScenesInv PROVE TableSaved /\ ComesBack /\ AnswerTrue
  OBVIOUS
<1>1. CASE torn
  BY <1>1 DEF TableSaved, ComesBack, AnswerTrue
<1>2. CASE ~torn
  <2>1. TablesOK /\ SceneTable(scenes) /\ NvShape
    BY <1>2 DEF ScenesInv, TablesOK
  <2>2. scenes \in Seq(SceneRec) /\ Len(scenes) \in Nat /\ Len(scenes) <= MAX_SCENES /\ OneEach(scenes)
    BY <2>1 DEF SceneTable
  <2>3. Quiet => SavedOK /\ TellsTrue
    BY <2>1 DEF Quiet, TablesOK
  <2>4. Quiet => SubSeq(sceneNv.items, 1, sceneNv.num) = scenes
    <3> SUFFICES ASSUME Quiet PROVE SubSeq(sceneNv.items, 1, sceneNv.num) = scenes
      OBVIOUS
    <3>1. sceneNv.num = Len(scenes) /\ \A i \in 1 .. Len(scenes) : sceneNv.items[i] = scenes[i]
      BY <2>3 DEF SavedOK, InNv
    <3>2. SubSeq(sceneNv.items, 1, sceneNv.num) = [i \in 1 .. Len(scenes) |-> sceneNv.items[i]]
      <4>1. sceneNv.items \in Seq(SceneRec \cup {Blank}) /\ Len(sceneNv.items) = MAX_SCENES
        BY <2>1, SceneTableAssumption DEF NvShape
      <4> QED
        BY <2>2, <3>1, <4>1
    <3>3. scenes = [i \in 1 .. Len(scenes) |-> scenes[i]]
      BY <2>2
    <3> QED
      BY <3>1, <3>2, <3>3
  <2>5. TableSaved
    BY <2>2, <2>3, <2>4 DEF TableSaved, SavedOK
  <2>6. ComesBack
    BY <2>3 DEF ComesBack, SavedOK
  <2>7. AnswerTrue
    BY <2>3 DEF AnswerTrue, TellsTrue
  <2> QED
    BY <2>5, <2>6, <2>7
<1> QED
  BY <1>1, <1>2, Zenon

\* Only AlarmGet answers as AlarmGet does, and it tells the first alarm, which goes.
LEMMA ToldInOrder ==
    ASSUME ScenesInv, ScenesNext, lastAnswer' # lastAnswer, lastAnswer'.op = "AlarmGet",
           lastAnswer'.status = SUCCESS
    PROVE  \E i \in DOMAIN alarms :
              /\ <<alarms[i].code, alarms[i].time>> = lastAnswer'.key
              /\ alarms' = RemoveAt(alarms, i)
              /\ \A j \in DOMAIN alarms' : alarms'[j].time > alarms[i].time
<1>1. AlarmGet
  <2>1. ASSUME NEW g, NEW id, NEW identifying, NEW unicast, NEW memory, NEW asked, NEW code,
               \/ GroupAdd(g) \/ GroupView(g) \/ GroupRemove(g) \/ GroupAddIfIdentifying(g, identifying)
               \/ SceneRemoveAll(g, unicast) \/ SceneGetMembership(g, memory, unicast)
               \/ GroupRemoveAll \/ GroupGetMembership(asked, memory)
        PROVE  FALSE
    BY <2>1 DEF GroupAdd, GroupView, GroupRemove, GroupAddIfIdentifying, GroupRemoveAll, GroupGetMembership,
                SceneRemoveAll, SceneGetMembership, SceneAnswers, NoAnswer
  <2>2. ASSUME NEW g, NEW id, NEW unicast, NEW memory, NEW data,
               \/ SceneView(g, id) \/ SceneRecall(g, id) \/ SceneRemove(g, id, unicast)
               \/ SceneAdd(g, id, data, memory) \/ SceneStore(g, id, data, memory, unicast)
        PROVE  FALSE
    BY <2>2 DEF SceneView, SceneRecall, SceneRemove, SceneAdd, SceneStore, SceneAnswers
  <2>3. ASSUME NEW memory, NEW code,
               \/ SceneAnswered \/ Torn \/ NvWrite \/ PowerFails \/ RestoreDone \/ RestoreStep(memory)
               \/ AddAlarm(code, memory) \/ AlarmReset(code) \/ ResetAllAlarms
        PROVE  FALSE
    BY <2>3 DEF SceneAnswered, Torn, scenesVars, NvWrite, PowerFails, RestoreDone, RestoreStep, AddAlarm, AlarmReset,
                ResetAllAlarms, NoAnswer
  <2> QED
    BY <2>1, <2>2, <2>3 DEF ScenesNext
<1>2. AlarmsOK /\ DOMAIN alarms = 1 .. Len(alarms)
  BY DEF ScenesInv, AlarmsOK
<1>3. alarms # <<>>
  BY <1>1 DEF AlarmGet, SceneAnswers, SUCCESS, NOT_FOUND
<1>4. 1 \in 1 .. Len(alarms) /\ FindEarliestAlarm = 1 /\ ResetAlarmIn(alarms[1].code) = RemoveAt(alarms, 1)
  BY <1>2, <1>3, EarliestIsFirst
<1>5. lastAnswer'.key = <<alarms[1].code, alarms[1].time>> /\ alarms' = RemoveAt(alarms, 1)
  BY <1>1, <1>3, <1>4 DEF AlarmGet, SceneAnswers
<1>6. \A j \in DOMAIN alarms' : alarms'[j].time > alarms[1].time
  <2> DEFINE T == [code : AlarmCodes, time : Nat]
  <2>1. alarms \in Seq(T) /\ Len(alarms) \in Nat
    BY <1>2 DEF AlarmsOK
  <2> HIDE DEF T
  <2>2. alarms' \in Seq(T) /\ Len(alarms') = Len(alarms) - 1
        /\ \A k \in 1 .. Len(alarms) - 1 : alarms'[k] = IF k < 1 THEN alarms[k] ELSE alarms[k + 1]
    BY <1>4, <1>5, <2>1, RemovedAt
  <2>3. \A k \in 1 .. Len(alarms) - 1 : alarms'[k] = alarms[k + 1] /\ alarms[1].time < alarms[k + 1].time
    BY <1>2, <1>4, <2>1, <2>2 DEF AlarmsOK
  <2>4. \A i \in 1 .. Len(alarms) : alarms[i].time \in Nat
    BY <1>2, AlarmTimes
  <2>5. DOMAIN alarms' = 1 .. Len(alarms) - 1
    BY <2>1, <2>2
  <2> QED
    BY <1>4, <2>1, <2>3, <2>4, <2>5
<1> QED
  BY <1>2, <1>4, <1>5, <1>6

\* The scenes and alarms of the clusters, for any groups, scenes, size of the
\* table, failures of memory and number of power failures: once a save is done
\* NV holds the table, a power failure between two writes brings back the table
\* before the command or after it, unless a removal or a restore was cut short;
\* what is answered of a scene is so; and alarms are told from the earliest on.
THEOREM ScenesAreSound == ScenesSpec => ScenesSound
<1>1. ScenesInit => ScenesInv
  BY InitScenes
<1>2. ScenesInv /\ [ScenesNext]_scenesVars => ScenesInv'
  BY NextKeepsScenes
<1>3. ScenesInv => TableSaved /\ ComesBack /\ AnswerTrue
  BY InvTables
<1>4. ScenesInv /\ [ScenesNext]_scenesVars => [EarliestTold]_scenesVars
  BY ToldInOrder DEF EarliestTold
<1> QED
  BY <1>1, <1>2, <1>3, <1>4, PTL DEF ScenesSpec, ScenesSound, AlarmsToldInOrder
=============================================================================
