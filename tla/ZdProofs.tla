------------------------------ MODULE ZdProofs ------------------------------
(***************************************************************************)
(* Proofs about the two sides of joining a network: the device             *)
(* application (ZdApp) and the trust centre (ZdSecMgr).                    *)
(*                                                                         *)
(* ZdApp, for any builds, queue, counts of discoveries, and troubles: a    *)
(* device is never left waiting for nothing, is not in a                   *)
(* secured network without the key unnoticed, has told its applications    *)
(* the truth, and keeps its saved frame counter ahead.                     *)
(* Most steps hang on the order in which answers, messages, events and     *)
(* timers come.  The invariant says for each waiting state what will end   *)
(* it (Waits, over the set Mail of what is queued), which kind of device   *)
(* can be in which state (Roles), what a device on hold has under way      *)
(* (Held), that nwkStatus, shared by two kinds of answers, is not misread  *)
(* in a way that matters (Knows), and where the key is (KeyKept).  A lemma *)
(* for each action has one step for each part.                             *)
(*                                                                         *)
(* ZdSecMgr, for any devices, routers, sizes of the tables and contents of *)
(* NV.  Its invariant SecIInv adds to what is wanted the state of the      *)
(* records between steps (InOrder), that an outcome in the queue is one    *)
(* that may be acted on (OutcomeKnown), that only devices known to have    *)
(* failed are given up (GivenUp), and who waits to be looked at (Placed).  *)
(* Joined says in what three ways a joining ends; every lemma about a      *)
(* step that moves records says which one moves, and how (MovedOn).        *)
(***************************************************************************)
EXTENDS ZdApp, ZdSecMgr, FiniteSetTheorems, WellFoundedInduction, TLAPS

-----------------------------------------------------------------------------
\* What waits in the queue.
Mail == {queue[i] : i \in 1 .. Len(queue)}

-----------------------------------------------------------------------------
(* The type invariant, by kinds of variables. *)

\* What the library tells the task.
Messages == {"disc ok", "disc fail", "join", "lost"}

\* What the device is and is doing.
ModesTyped ==
    /\ build \in Build /\ logical \in {"coordinator", "router", "device"}
    /\ devState \in States /\ toldApp \in States
    /\ devStartMode \in {"JOIN", "RESUME", "HARD", "REJOIN"}

\* The Booleans.
FlagsTyped ==
    /\ continueJoining \in BOOLEAN /\ nwkStatus \in BOOLEAN /\ busy \in BOOLEAN
    /\ dropped \in BOOLEAN /\ known \in BOOLEAN /\ key \in BOOLEAN

\* Events, timers and requests under way.
SetsTyped == events \subseteq Bits /\ timers \subseteq Bits /\ nwk \subseteq Requests

\* The task's queue.
QueueTyped == queue \in Seq(Messages) /\ Len(queue) <= MaxQueue

\* Counters and the bounds' own counts.
NumbersTyped ==
    /\ retryCnt \in Nat /\ zdoDiscCounter \in 0 .. DiscWidth - 1 /\ energy \in 0 .. EnergySteps
    /\ nwkFrameCounter \in Nat /\ nwkFrameCounterChanges \in 0 .. MaxChanges + 1 /\ unnoticed \in Nat
    /\ trouble \in 0 .. MaxTrouble /\ frames \in 0 .. MaxDevFrames

\* What survives a restart.
NvTyped == nv \in [leave : {"none", "hold", "again"}, fresh : BOOLEAN,
                   saved : BOOLEAN, key : BOOLEAN, counter : Nat]

\* All of them.
Typed == ModesTyped /\ FlagsTyped /\ SetsTyped /\ QueueTyped /\ NumbersTyped /\ NvTyped

-----------------------------------------------------------------------------
(* The parts of the inductive invariant. *)

\* NeverStranded, by what waits in the queue.
Waits ==
    ~ (dropped \/ Dormant) /\ continueJoining =>
        /\ devState = "INIT" => Restarts
        /\ devState = "NWK_DISC" =>
              Restarts \/ "disc" \in nwk \/ {"disc ok", "disc fail", "lost"} \cap Mail # {}
        /\ devState = "NWK_JOINING" => Restarts \/ "join" \in nwk \/ {"join", "lost"} \cap Mail # {}
        /\ devState = "NWK_REJOIN" => Restarts \/ "rejoin" \in nwk \/ {"join", "lost"} \cap Mail # {}
        /\ devState = "NWK_ORPHAN" => Restarts \/ "orphan" \in nwk \/ {"join", "lost"} \cap Mail # {}
        /\ devState = "COORD_STARTING" =>
              Restarts \/ nwk \cap {"form", "start"} # {} \/ "NETWORK_START" \in events
        /\ devState = "END_DEVICE_UNAUTH" => Resets \/ "DEVICE_AUTH" \in events

\* A coordinator stays one; who does what.
Roles ==
    /\ logical = "coordinator" <=> ~Joins
    /\ Joins => /\ devState \notin {"COORD_STARTING", "ZB_COORD"}
                /\ devStartMode # "HARD" /\ "NETWORK_START" \notin events /\ "form" \notin nwk
    /\ ~Joins => /\ devState \in {"HOLD", "INIT", "COORD_STARTING", "ZB_COORD"}
                 /\ devStartMode \in {"HARD", "RESUME"}
                 /\ nwk \subseteq {"form", "start"} /\ Mail = {}

\* Timers there are for three of the events only.
Timed == timers \subseteq {"NETWORK_INIT", "NWK_UPDATE_NV", "DEVICE_RESET"}

\* On hold nothing is under way.
Held ==
    devState = "HOLD" =>
        /\ nwk = {} /\ Mail = {} /\ timers = {} /\ events \subseteq {"STATE_CHANGE"}
        /\ ~known /\ devStartMode \in {"JOIN", "HARD"}

\* A device that has been in its network knows it, though nwkStatus is shared by
\* the answers to joins and to starts.
Knows ==
    Joins =>
        /\ devState \in {"NWK_ORPHAN", "NWK_REJOIN", "END_DEVICE_UNAUTH", "END_DEVICE", "ROUTER"} => known
        /\ devStartMode \in {"RESUME", "REJOIN"} => known
        /\ "start" \in nwk => known
        /\ "join" \in Mail => known \/ ~nwkStatus

\* The parent is lost only to a device that has one.
Lost == "lost" \in Mail => devState \in {"END_DEVICE", "END_DEVICE_UNAUTH"}

\* A device that goes on without a new join has the key, or a copy of it in
\* NV, or is about to reset; or it is excused.
Excused == key \/ Resets \/ (nv.saved /\ ~nv.key)

\* So is what NV holds for one that resumes.
KeyKept ==
    build.secure /\ Joins =>
        /\ "DEVICE_AUTH" \in events => key
        /\ \/ devStartMode \in {"RESUME", "REJOIN"}
           \/ devState \in {"NWK_ORPHAN", "NWK_REJOIN", "END_DEVICE_UNAUTH", "END_DEVICE", "ROUTER"}
           => Excused \/ nv.counter > 0

\* What the counter has advanced by since it was saved.
Counts ==
    nv.counter > 0 =>
        nwkFrameCounter <= nv.counter - 1 + nwkFrameCounterChanges + unnoticed
                           + (IF "FRAMECOUNTER" \in events THEN 1 ELSE 0)

\* The inductive invariant.
IInv ==
    /\ Typed /\ Waits /\ KeyOrReset /\ ToldTheTruth
    /\ Roles /\ Timed /\ Held /\ Knows /\ Lost /\ KeyKept /\ Counts

-----------------------------------------------------------------------------
(* The queue, the counters and the requests. *)

\* An event is served only when no message waits.
LEMMA Handling == ASSUME NEW e, Handles(e) PROVE Mail = {} /\ e \in events
<1>1. queue = <<>> /\ e \in events
  BY DEF Handles
<1>2. Len(<<>>) = 0
  OBVIOUS
<1>3. QED
  BY <1>1, <1>2 DEF Mail

\* A queue that stays holds the same messages.
LEMMA SameMail == ASSUME queue' = queue PROVE Mail' = Mail /\ (QueueTyped => QueueTyped')
BY DEF Mail, QueueTyped

\* A message sent (ZDApp_SendMsg, or a callback's own) is one more in the queue.
LEMMA Appended ==
    ASSUME QueueTyped, NEW x \in Messages, queue' = Append(queue, x), Len(queue) < MaxQueue
    PROVE  Mail' = Mail \cup {x} /\ QueueTyped'
<1>1. /\ queue \in Seq(Messages) /\ Len(queue) \in Nat
      /\ queue' \in Seq(Messages) /\ Len(queue') = Len(queue) + 1
      /\ \A i \in 1 .. Len(queue) : queue'[i] = queue[i]
      /\ queue'[Len(queue) + 1] = x
  BY DEF QueueTyped
<1>2. QueueTyped'
  BY <1>1, ZdAppAssumption DEF QueueTyped
<1>3. ASSUME NEW y \in Mail' PROVE y \in Mail \cup {x}
  BY <1>1, <1>3 DEF Mail
<1>4. ASSUME NEW y \in Mail PROVE y \in Mail'
  BY <1>1, <1>4 DEF Mail
<1>5. x \in Mail'
  BY <1>1 DEF Mail
<1>6. QED
  BY <1>2, <1>3, <1>4, <1>5

\* The task takes the first message; the others stay.
LEMMA Taken ==
    ASSUME QueueTyped, queue # <<>>, NEW x, Head(queue) = x, queue' = Tail(queue)
    PROVE  Mail = Mail' \cup {x} /\ QueueTyped'
<1>1. /\ queue \in Seq(Messages) /\ Len(queue) \in Nat \ {0}
      /\ queue' \in Seq(Messages) /\ Len(queue') = Len(queue) - 1
      /\ \A i \in 1 .. Len(queue) - 1 : queue'[i] = queue[i + 1]
      /\ queue[1] = x
  BY DEF QueueTyped
<1>2. QueueTyped'
  BY <1>1, ZdAppAssumption DEF QueueTyped
<1>3. ASSUME NEW i \in 1 .. Len(queue) PROVE queue[i] \in Mail' \cup {x}
  <2>1. CASE i = 1
    BY <1>1, <2>1
  <2>2. CASE i # 1
    <3>1. i - 1 \in 1 .. Len(queue) - 1 /\ i - 1 \in 1 .. Len(queue')
      BY <1>1, <2>2
    <3>2. queue'[i - 1] = queue[(i - 1) + 1] /\ (i - 1) + 1 = i
      BY <1>1, <3>1
    <3>3. QED
      BY <3>1, <3>2 DEF Mail
  <2>3. QED
    BY <2>1, <2>2
<1>4. ASSUME NEW y \in Mail' PROVE y \in Mail
  BY <1>1, <1>4 DEF Mail
<1>5. x \in Mail
  BY <1>1 DEF Mail
<1>6. QED
  BY <1>2, <1>3, <1>4, <1>5 DEF Mail

\* The count of discoveries wraps within its width (OneMore).
LEMMA Wrapped == ASSUME NumbersTyped PROVE OneMore \in 0 .. DiscWidth - 1
<1>1. DiscWidth \in Nat /\ DiscWidth > 1 /\ zdoDiscCounter \in Nat
  BY ZdAppAssumption DEF NumbersTyped
<1>2. QED
  BY <1>1 DEF OneMore

\* A trouble that comes is one fewer to come.
LEMMA Lowered ==
    ASSUME trouble \in 0 .. MaxTrouble, trouble' = trouble \/ (trouble > 0 /\ trouble' = trouble - 1)
    PROVE  trouble' \in 0 .. MaxTrouble
BY ZdAppAssumption

\* What a request adds to those under way (Request).
LEMMA Asked ==
    ASSUME NEW r, NEW s, Request(r, s) PROVE \A q : q \in nwk' => q \in nwk \/ q = r
BY DEF Request

\* ZDApp_RestoreNwkKey keeps the account of the counter: it skips ahead by what may have
\* been used, and counts as that many changes.
LEMMA KeyRestored ==
    ASSUME NumbersTyped, NvTyped, Counts, RestoreNwkKey \/ UNCHANGED security, nv' = nv,
           "FRAMECOUNTER" \in events' <=> "FRAMECOUNTER" \in events
    PROVE  /\ Counts' /\ nwkFrameCounter' \in Nat
           /\ nwkFrameCounterChanges' \in 0 .. MaxChanges + 1 /\ unnoticed' \in Nat
<1>1. nv.counter \in Nat /\ MaxChanges \in Nat
  BY ZdAppAssumption DEF NvTyped
<1>2. CASE UNCHANGED security
  BY <1>2 DEF security, Counts, NumbersTyped
<1>3. CASE RestoreNwkKey /\ nv.counter > 0
  BY <1>1, <1>3 DEF RestoreNwkKey, Counts, NumbersTyped
<1>4. CASE RestoreNwkKey /\ ~(nv.counter > 0)
  BY <1>1, <1>4 DEF RestoreNwkKey, Counts, NumbersTyped
<1>5. QED
  BY <1>2, <1>3, <1>4

-----------------------------------------------------------------------------
(* The events of the task, the callbacks that leave no message, the rest. *)

\* ZDO_StartDevice.
LEMMA StartKeeps == ASSUME IInv, ZDO_StartDevice PROVE IInv'
<1>1. Mail = {} /\ Mail' = {} /\ "NETWORK_INIT" \in events /\ QueueTyped'
  <2>1. Handles("NETWORK_INIT") /\ queue' = queue
    BY DEF ZDO_StartDevice, Request, mail
  <2>2. QED
    BY <2>1, Handling, SameMail DEF IInv, Typed
<1>2. ModesTyped'
  BY <1>1 DEF IInv, Typed, ModesTyped, States, ZDO_StartDevice, Request, network, mail, security,
       outside
<1>3. FlagsTyped'
  BY <1>1 DEF IInv, Typed, FlagsTyped, NvTyped, ZDO_StartDevice, Request, network, mail,
       security, outside
<1>4. SetsTyped'
  BY <1>1 DEF IInv, Typed, SetsTyped, Bits, Requests, ZDO_StartDevice, Request, network, mail,
       security, outside
<1>5. NumbersTyped'
  BY <1>1, ZdAppAssumption DEF IInv, Typed, NumbersTyped, NvTyped, ZDO_StartDevice, Request,
       network, mail, security, outside
<1>6. NvTyped'
  BY <1>1 DEF IInv, Typed, NvTyped, NumbersTyped, FlagsTyped, ZDO_StartDevice, Request, network,
       mail, security, outside
<1>7. Waits'
  BY <1>1 DEF IInv, Typed, Waits, Roles, Joins, Restarts, Resets, Dormant, ModesTyped, Held,
       ZDO_StartDevice, Request, network, mail, security, outside
<1>8. KeyOrReset'
  BY <1>1 DEF IInv, Typed, KeyOrReset, KeyKept, Excused, Resets, Roles, Joins, Knows, NvTyped,
       ZDO_StartDevice, Request, network, mail, security, outside
<1>9. ToldTheTruth'
  BY <1>1 DEF IInv, Typed, ToldTheTruth, InNetwork, Held, ZDO_StartDevice, Request, network,
       mail, security, outside
<1>10. Roles'
  <2>1. logical' = logical /\ devStartMode' = devStartMode /\ build' = build /\ events' \subseteq events
    BY DEF ZDO_StartDevice
  <2>2. CASE logical = "coordinator"
    <3>1. devState' = "COORD_STARTING"
      BY <2>2 DEF ZDO_StartDevice, IInv, Roles, Joins
    <3>2. nwk' \subseteq nwk \cup {"form", "start"}
      BY <2>2 DEF ZDO_StartDevice, Request, IInv, Roles, Joins
    <3>3. QED
      BY <1>1, <2>1, <2>2, <3>1, <3>2 DEF IInv, Roles, Joins
  <2>3. CASE logical # "coordinator"
    <3>1. devState' \in {"NWK_DISC", "NWK_ORPHAN"} /\ nwk' \subseteq nwk \cup {"disc", "orphan"}
      BY <2>3 DEF ZDO_StartDevice, Request
    <3>2. QED
      BY <1>1, <2>1, <2>3, <3>1 DEF IInv, Roles, Joins
  <2>4. QED
    BY <2>2, <2>3
<1>11. Timed'
  BY <1>1 DEF IInv, Typed, Timed, Held, ZDO_StartDevice, Request, network, mail, security, outside
<1>12. Held'
  BY <1>1 DEF IInv, Typed, Held, InNetwork, ZDO_StartDevice, Request, network, mail, security,
       outside
<1>13. Knows'
  BY <1>1 DEF IInv, Typed, Knows, Joins, Roles, ModesTyped, Held, ZDO_StartDevice, Request,
       network, mail, security, outside
<1>14. Lost'
  BY <1>1 DEF IInv, Typed, Lost, Held, ZDO_StartDevice, Request, network, mail, security, outside
<1>15. KeyKept'
  BY <1>1 DEF IInv, Typed, KeyKept, Excused, Resets, Joins, Knows, Roles, NvTyped, ModesTyped,
       ZDO_StartDevice, Request, network, mail, security, outside
<1>16. Counts'
  BY <1>1, ZdAppAssumption DEF IInv, Typed, Counts, NvTyped, NumbersTyped, ZDO_StartDevice,
       Request, network, mail, security, outside
<1>17. QED
  BY <1>1, <1>2, <1>3, <1>4, <1>5, <1>6, <1>7, <1>8, <1>9, <1>10, <1>11, <1>12, <1>13, <1>14,
       <1>15, <1>16 DEF IInv, Typed

\* ZDApp_NetworkStartEvt.
LEMMA NetworkStartKeeps == ASSUME IInv, NetworkStartEvt PROVE IInv'
<1>1. Mail = {} /\ Mail' = {} /\ "NETWORK_START" \in events /\ QueueTyped'
  <2>1. Handles("NETWORK_START") /\ queue' = queue
    BY DEF NetworkStartEvt, mail
  <2>2. QED
    BY <2>1, Handling, SameMail DEF IInv, Typed
<1>2. ModesTyped'
  BY <1>1 DEF IInv, Typed, ModesTyped, States, NetworkStartEvt, network, mail, security, outside
<1>3. FlagsTyped'
  BY <1>1 DEF IInv, Typed, FlagsTyped, NvTyped, NetworkStartEvt, network, mail, security, outside
<1>4. SetsTyped'
  BY <1>1 DEF IInv, Typed, SetsTyped, Bits, Requests, NetworkStartEvt, network, mail, security,
       outside
<1>5. NumbersTyped'
  BY <1>1, ZdAppAssumption DEF IInv, Typed, NumbersTyped, NvTyped, NetworkStartEvt, network,
       mail, security, outside
<1>6. NvTyped'
  BY <1>1 DEF IInv, Typed, NvTyped, NumbersTyped, FlagsTyped, NetworkStartEvt, network, mail,
       security, outside
<1>7. Waits'
  BY <1>1, ZdAppAssumption DEF IInv, Typed, Waits, Roles, Joins, Restarts, Resets, Dormant,
       ModesTyped, Held, NumbersTyped, NetworkStartEvt, network, mail, security, outside
<1>8. KeyOrReset'
  BY <1>1 DEF IInv, Typed, KeyOrReset, KeyKept, Excused, Resets, Roles, Joins, Knows, NvTyped,
       NetworkStartEvt, network, mail, security, outside
<1>9. ToldTheTruth'
  BY <1>1 DEF IInv, Typed, ToldTheTruth, InNetwork, Held, NetworkStartEvt, network, mail,
       security, outside
<1>10. Roles'
  BY <1>1 DEF IInv, Typed, Roles, Joins, ModesTyped, Lost, NetworkStartEvt, network, mail,
       security, outside
<1>11. Timed'
  BY <1>1 DEF IInv, Typed, Timed, Held, NetworkStartEvt, network, mail, security, outside
<1>12. Held'
  BY <1>1 DEF IInv, Typed, Held, InNetwork, NetworkStartEvt, network, mail, security, outside
<1>13. Knows'
  BY <1>1 DEF IInv, Typed, Knows, Joins, Roles, ModesTyped, Held, NetworkStartEvt, network, mail,
       security, outside
<1>14. Lost'
  BY <1>1 DEF IInv, Typed, Lost, Held, NetworkStartEvt, network, mail, security, outside
<1>15. KeyKept'
  BY <1>1 DEF IInv, Typed, KeyKept, Excused, Resets, Joins, Knows, Roles, NvTyped, ModesTyped,
       NetworkStartEvt, network, mail, security, outside
<1>16. Counts'
  BY <1>1, ZdAppAssumption DEF IInv, Typed, Counts, NvTyped, NumbersTyped, NetworkStartEvt,
       network, mail, security, outside
<1>17. QED
  BY <1>1, <1>2, <1>3, <1>4, <1>5, <1>6, <1>7, <1>8, <1>9, <1>10, <1>11, <1>12, <1>13, <1>14,
       <1>15, <1>16 DEF IInv, Typed

\* ZDO_ROUTER_START.
LEMMA RouterStartKeeps == ASSUME IInv, RouterStartEvt PROVE IInv'
<1>1. Mail = {} /\ Mail' = {} /\ "ROUTER_START" \in events /\ QueueTyped'
  <2>1. Handles("ROUTER_START") /\ queue' = queue
    BY DEF RouterStartEvt, mail
  <2>2. QED
    BY <2>1, Handling, SameMail DEF IInv, Typed
<1>2. ModesTyped'
  BY <1>1 DEF IInv, Typed, ModesTyped, States, RouterStartEvt, network, mail, security, outside
<1>3. FlagsTyped'
  BY <1>1 DEF IInv, Typed, FlagsTyped, NvTyped, RouterStartEvt, network, mail, security, outside
<1>4. SetsTyped'
  BY <1>1 DEF IInv, Typed, SetsTyped, Bits, Requests, RouterStartEvt, network, mail, security,
       outside
<1>5. NumbersTyped'
  BY <1>1, ZdAppAssumption DEF IInv, Typed, NumbersTyped, NvTyped, RouterStartEvt, network, mail,
       security, outside
<1>6. NvTyped'
  BY <1>1 DEF IInv, Typed, NvTyped, NumbersTyped, FlagsTyped, RouterStartEvt, network, mail,
       security, outside
<1>7. Waits'
  BY <1>1 DEF IInv, Typed, Waits, Roles, Joins, Restarts, Resets, Dormant, ModesTyped, Held,
       RouterStartEvt, network, mail, security, outside
<1>8. KeyOrReset'
  BY <1>1 DEF IInv, Typed, KeyOrReset, KeyKept, Excused, Resets, Roles, Joins, Knows, NvTyped,
       RouterStartEvt, network, mail, security, outside
<1>9. ToldTheTruth'
  BY <1>1 DEF IInv, Typed, ToldTheTruth, InNetwork, Held, RouterStartEvt, network, mail,
       security, outside
<1>10. Roles'
  BY <1>1 DEF IInv, Typed, Roles, Joins, ModesTyped, Lost, RouterStartEvt, network, mail,
       security, outside
<1>11. Timed'
  BY <1>1 DEF IInv, Typed, Timed, Held, RouterStartEvt, network, mail, security, outside
<1>12. Held'
  BY <1>1 DEF IInv, Typed, Held, InNetwork, RouterStartEvt, network, mail, security, outside
<1>13. Knows'
  BY <1>1 DEF IInv, Typed, Knows, Joins, Roles, ModesTyped, Held, RouterStartEvt, network, mail,
       security, outside
<1>14. Lost'
  BY <1>1 DEF IInv, Typed, Lost, Held, RouterStartEvt, network, mail, security, outside
<1>15. KeyKept'
  BY <1>1 DEF IInv, Typed, KeyKept, Excused, Resets, Joins, Knows, Roles, NvTyped, ModesTyped,
       RouterStartEvt, network, mail, security, outside
<1>16. Counts'
  BY <1>1, ZdAppAssumption DEF IInv, Typed, Counts, NvTyped, NumbersTyped, RouterStartEvt,
       network, mail, security, outside
<1>17. QED
  BY <1>1, <1>2, <1>3, <1>4, <1>5, <1>6, <1>7, <1>8, <1>9, <1>10, <1>11, <1>12, <1>13, <1>14,
       <1>15, <1>16 DEF IInv, Typed

\* ZDO_UpdateNwkStatus.
LEMMA UpdateKeeps == ASSUME IInv, UpdateNwkStatus PROVE IInv'
<1>1. Mail = {} /\ Mail' = {} /\ "STATE_CHANGE" \in events /\ QueueTyped'
  <2>1. Handles("STATE_CHANGE") /\ queue' = queue
    BY DEF UpdateNwkStatus, SendStateChangeMsg, mail
  <2>2. QED
    BY <2>1, Handling, SameMail DEF IInv, Typed
<1>2. ModesTyped'
  BY <1>1 DEF IInv, Typed, ModesTyped, States, UpdateNwkStatus, SendStateChangeMsg, network,
       mail, security, outside
<1>3. FlagsTyped'
  BY <1>1 DEF IInv, Typed, FlagsTyped, NvTyped, UpdateNwkStatus, SendStateChangeMsg, network,
       mail, security, outside
<1>4. SetsTyped'
  BY <1>1 DEF IInv, Typed, SetsTyped, Bits, Requests, UpdateNwkStatus, SendStateChangeMsg,
       network, mail, security, outside
<1>5. NumbersTyped'
  BY <1>1, ZdAppAssumption DEF IInv, Typed, NumbersTyped, NvTyped, UpdateNwkStatus,
       SendStateChangeMsg, network, mail, security, outside
<1>6. NvTyped'
  BY <1>1 DEF IInv, Typed, NvTyped, NumbersTyped, FlagsTyped, UpdateNwkStatus,
       SendStateChangeMsg, network, mail, security, outside
<1>7. Waits'
  BY <1>1 DEF IInv, Typed, Waits, Roles, Joins, Restarts, Resets, Dormant, ModesTyped, Held,
       UpdateNwkStatus, SendStateChangeMsg, network, mail, security, outside
<1>8. KeyOrReset'
  BY <1>1 DEF IInv, Typed, KeyOrReset, KeyKept, Excused, Resets, Roles, Joins, Knows, NvTyped,
       UpdateNwkStatus, SendStateChangeMsg, network, mail, security, outside
<1>9. ToldTheTruth'
  BY <1>1 DEF IInv, Typed, ToldTheTruth, InNetwork, Held, UpdateNwkStatus, SendStateChangeMsg,
       network, mail, security, outside
<1>10. Roles'
  BY <1>1 DEF IInv, Typed, Roles, Joins, ModesTyped, Lost, UpdateNwkStatus, SendStateChangeMsg,
       network, mail, security, outside
<1>11. Timed'
  BY <1>1 DEF IInv, Typed, Timed, Held, UpdateNwkStatus, SendStateChangeMsg, network, mail,
       security, outside
<1>12. Held'
  BY <1>1 DEF IInv, Typed, Held, InNetwork, UpdateNwkStatus, SendStateChangeMsg, network, mail,
       security, outside
<1>13. Knows'
  BY <1>1 DEF IInv, Typed, Knows, Joins, Roles, ModesTyped, Held, UpdateNwkStatus,
       SendStateChangeMsg, network, mail, security, outside
<1>14. Lost'
  BY <1>1 DEF IInv, Typed, Lost, Held, UpdateNwkStatus, SendStateChangeMsg, network, mail,
       security, outside
<1>15. KeyKept'
  BY <1>1 DEF IInv, Typed, KeyKept, Excused, Resets, Joins, Knows, Roles, NvTyped, ModesTyped,
       UpdateNwkStatus, SendStateChangeMsg, network, mail, security, outside
<1>16. Counts'
  BY <1>1, ZdAppAssumption DEF IInv, Typed, Counts, NvTyped, NumbersTyped, UpdateNwkStatus,
       SendStateChangeMsg, network, mail, security, outside
<1>17. QED
  BY <1>1, <1>2, <1>3, <1>4, <1>5, <1>6, <1>7, <1>8, <1>9, <1>10, <1>11, <1>12, <1>13, <1>14,
       <1>15, <1>16 DEF IInv, Typed

\* The network state saved to NV.
LEMMA SaveKeeps == ASSUME IInv, SaveNetworkStateEvt PROVE IInv'
<1>1. Mail = {} /\ Mail' = {} /\ "NWK_UPDATE_NV" \in events /\ QueueTyped'
  <2>1. Handles("NWK_UPDATE_NV") /\ queue' = queue
    BY DEF SaveNetworkStateEvt, mail
  <2>2. QED
    BY <2>1, Handling, SameMail DEF IInv, Typed
<1>2. ModesTyped'
  BY <1>1 DEF IInv, Typed, ModesTyped, States, SaveNetworkStateEvt, network, mail, security, outside
<1>3. FlagsTyped'
  BY <1>1 DEF IInv, Typed, FlagsTyped, NvTyped, SaveNetworkStateEvt, network, mail, security,
       outside
<1>4. SetsTyped'
  BY <1>1 DEF IInv, Typed, SetsTyped, Bits, Requests, SaveNetworkStateEvt, network, mail,
       security, outside
<1>5. NumbersTyped'
  BY <1>1, ZdAppAssumption DEF IInv, Typed, NumbersTyped, NvTyped, SaveNetworkStateEvt, network,
       mail, security, outside
<1>6. NvTyped'
  BY <1>1 DEF IInv, Typed, NvTyped, NumbersTyped, FlagsTyped, SaveNetworkStateEvt, network, mail,
       security, outside
<1>7. Waits'
  BY <1>1 DEF IInv, Typed, Waits, Roles, Joins, Restarts, Resets, Dormant, ModesTyped, Held,
       SaveNetworkStateEvt, network, mail, security, outside
<1>8. KeyOrReset'
  BY <1>1 DEF IInv, Typed, KeyOrReset, KeyKept, Excused, Resets, Roles, Joins, Knows, NvTyped,
       SaveNetworkStateEvt, network, mail, security, outside
<1>9. ToldTheTruth'
  BY <1>1 DEF IInv, Typed, ToldTheTruth, InNetwork, Held, SaveNetworkStateEvt, network, mail,
       security, outside
<1>10. Roles'
  BY <1>1 DEF IInv, Typed, Roles, Joins, ModesTyped, Lost, SaveNetworkStateEvt, network, mail,
       security, outside
<1>11. Timed'
  BY <1>1 DEF IInv, Typed, Timed, Held, SaveNetworkStateEvt, network, mail, security, outside
<1>12. Held'
  BY <1>1 DEF IInv, Typed, Held, InNetwork, SaveNetworkStateEvt, network, mail, security, outside
<1>13. Knows'
  BY <1>1 DEF IInv, Typed, Knows, Joins, Roles, ModesTyped, Held, SaveNetworkStateEvt, network,
       mail, security, outside
<1>14. Lost'
  BY <1>1 DEF IInv, Typed, Lost, Held, SaveNetworkStateEvt, network, mail, security, outside
<1>15. KeyKept'
  BY <1>1 DEF IInv, Typed, KeyKept, Excused, Resets, Joins, Knows, Roles, NvTyped, ModesTyped,
       SaveNetworkStateEvt, network, mail, security, outside
<1>16. Counts'
  BY <1>1, ZdAppAssumption DEF IInv, Typed, Counts, NvTyped, NumbersTyped, SaveNetworkStateEvt,
       network, mail, security, outside
<1>17. QED
  BY <1>1, <1>2, <1>3, <1>4, <1>5, <1>6, <1>7, <1>8, <1>9, <1>10, <1>11, <1>12, <1>13, <1>14,
       <1>15, <1>16 DEF IInv, Typed

\* ZDApp_DeviceAuthEvt: the wait for the key is over.
LEMMA AuthKeeps == ASSUME IInv, DeviceAuthEvt PROVE IInv'
<1>1. Mail = {} /\ Mail' = {} /\ "DEVICE_AUTH" \in events /\ QueueTyped'
  <2>1. Handles("DEVICE_AUTH") /\ queue' = queue
    BY DEF DeviceAuthEvt, NVUpdate, SaveNwkKey, mail
  <2>2. QED
    BY <2>1, Handling, SameMail DEF IInv, Typed
<1>2. ModesTyped'
  BY <1>1 DEF IInv, Typed, ModesTyped, States, DeviceAuthEvt, NVUpdate, SaveNwkKey, network,
       mail, security, outside
<1>3. FlagsTyped'
  BY <1>1 DEF IInv, Typed, FlagsTyped, NvTyped, DeviceAuthEvt, NVUpdate, SaveNwkKey, network,
       mail, security, outside
<1>4. SetsTyped'
  BY <1>1 DEF IInv, Typed, SetsTyped, Bits, Requests, DeviceAuthEvt, NVUpdate, SaveNwkKey,
       network, mail, security, outside
<1>5. NumbersTyped'
  BY <1>1, ZdAppAssumption DEF IInv, Typed, NumbersTyped, NvTyped, DeviceAuthEvt, NVUpdate,
       SaveNwkKey, network, mail, security, outside
<1>6. NvTyped'
  BY <1>1 DEF IInv, Typed, NvTyped, NumbersTyped, FlagsTyped, DeviceAuthEvt, NVUpdate,
       SaveNwkKey, network, mail, security, outside
<1>7. Waits'
  BY <1>1 DEF IInv, Typed, Waits, Roles, Joins, Restarts, Resets, Dormant, ModesTyped, Held,
       DeviceAuthEvt, NVUpdate, SaveNwkKey, network, mail, security, outside
<1>8. KeyOrReset'
  BY <1>1 DEF IInv, Typed, KeyOrReset, KeyKept, Excused, Resets, Roles, Joins, Knows, NvTyped,
       DeviceAuthEvt, NVUpdate, SaveNwkKey, network, mail, security, outside
<1>9. ToldTheTruth'
  BY <1>1 DEF IInv, Typed, ToldTheTruth, InNetwork, Held, DeviceAuthEvt, NVUpdate, SaveNwkKey,
       network, mail, security, outside
<1>10. Roles'
  BY <1>1 DEF IInv, Typed, Roles, Joins, ModesTyped, Lost, DeviceAuthEvt, NVUpdate, SaveNwkKey,
       network, mail, security, outside
<1>11. Timed'
  BY <1>1 DEF IInv, Typed, Timed, Held, DeviceAuthEvt, NVUpdate, SaveNwkKey, network, mail,
       security, outside
<1>12. Held'
  BY <1>1 DEF IInv, Typed, Held, InNetwork, DeviceAuthEvt, NVUpdate, SaveNwkKey, network, mail,
       security, outside
<1>13. Knows'
  BY <1>1 DEF IInv, Typed, Knows, Joins, Roles, ModesTyped, Held, DeviceAuthEvt, NVUpdate,
       SaveNwkKey, network, mail, security, outside
<1>14. Lost'
  BY <1>1 DEF IInv, Typed, Lost, Held, DeviceAuthEvt, NVUpdate, SaveNwkKey, network, mail,
       security, outside
<1>15. KeyKept'
  BY <1>1 DEF IInv, Typed, KeyKept, Excused, Resets, Joins, Knows, Roles, NvTyped, ModesTyped,
       DeviceAuthEvt, NVUpdate, SaveNwkKey, network, mail, security, outside
<1>16. Counts'
  BY <1>1, ZdAppAssumption DEF IInv, Typed, Counts, NvTyped, NumbersTyped, DeviceAuthEvt,
       NVUpdate, SaveNwkKey, network, mail, security, outside
<1>17. QED
  BY <1>1, <1>2, <1>3, <1>4, <1>5, <1>6, <1>7, <1>8, <1>9, <1>10, <1>11, <1>12, <1>13, <1>14,
       <1>15, <1>16 DEF IInv, Typed

\* ZDO_FRAMECOUNTER_CHANGE.
LEMMA CounterKeeps == ASSUME IInv, FrameCounterEvt PROVE IInv'
<1>1. Mail = {} /\ Mail' = {} /\ "FRAMECOUNTER" \in events /\ QueueTyped'
  <2>1. Handles("FRAMECOUNTER") /\ queue' = queue
    BY DEF FrameCounterEvt, SaveNwkKey, mail
  <2>2. QED
    BY <2>1, Handling, SameMail DEF IInv, Typed
<1>2. ModesTyped'
  BY <1>1 DEF IInv, Typed, ModesTyped, States, FrameCounterEvt, SaveNwkKey, network, mail,
       security, outside
<1>3. FlagsTyped'
  BY <1>1 DEF IInv, Typed, FlagsTyped, NvTyped, FrameCounterEvt, SaveNwkKey, network, mail,
       security, outside
<1>4. SetsTyped'
  BY <1>1 DEF IInv, Typed, SetsTyped, Bits, Requests, FrameCounterEvt, SaveNwkKey, network, mail,
       security, outside
<1>5. NumbersTyped'
  BY <1>1, ZdAppAssumption DEF IInv, Typed, NumbersTyped, NvTyped, FrameCounterEvt, SaveNwkKey,
       network, mail, security, outside
<1>6. NvTyped'
  BY <1>1 DEF IInv, Typed, NvTyped, NumbersTyped, FlagsTyped, FrameCounterEvt, SaveNwkKey,
       network, mail, security, outside
<1>7. Waits'
  BY <1>1 DEF IInv, Typed, Waits, Roles, Joins, Restarts, Resets, Dormant, ModesTyped, Held,
       FrameCounterEvt, SaveNwkKey, network, mail, security, outside
<1>8. KeyOrReset'
  BY <1>1 DEF IInv, Typed, KeyOrReset, KeyKept, Excused, Resets, Roles, Joins, Knows, NvTyped,
       FrameCounterEvt, SaveNwkKey, network, mail, security, outside
<1>9. ToldTheTruth'
  BY <1>1 DEF IInv, Typed, ToldTheTruth, InNetwork, Held, FrameCounterEvt, SaveNwkKey, network,
       mail, security, outside
<1>10. Roles'
  BY <1>1 DEF IInv, Typed, Roles, Joins, ModesTyped, Lost, FrameCounterEvt, SaveNwkKey, network,
       mail, security, outside
<1>11. Timed'
  BY <1>1 DEF IInv, Typed, Timed, Held, FrameCounterEvt, SaveNwkKey, network, mail, security,
       outside
<1>12. Held'
  BY <1>1 DEF IInv, Typed, Held, InNetwork, FrameCounterEvt, SaveNwkKey, network, mail, security,
       outside
<1>13. Knows'
  BY <1>1 DEF IInv, Typed, Knows, Joins, Roles, ModesTyped, Held, FrameCounterEvt, SaveNwkKey,
       network, mail, security, outside
<1>14. Lost'
  BY <1>1 DEF IInv, Typed, Lost, Held, FrameCounterEvt, SaveNwkKey, network, mail, security, outside
<1>15. KeyKept'
  BY <1>1 DEF IInv, Typed, KeyKept, Excused, Resets, Joins, Knows, Roles, NvTyped, ModesTyped,
       NumbersTyped, FrameCounterEvt, SaveNwkKey, network, mail, security, outside
<1>16. Counts'
  BY <1>1, ZdAppAssumption DEF IInv, Typed, Counts, NvTyped, NumbersTyped, FrameCounterEvt,
       SaveNwkKey, network, mail, security, outside
<1>17. QED
  BY <1>1, <1>2, <1>3, <1>4, <1>5, <1>6, <1>7, <1>8, <1>9, <1>10, <1>11, <1>12, <1>13, <1>14,
       <1>15, <1>16 DEF IInv, Typed

\* The answer to a start writes the nwkStatus that an answer to a join may still
\* have to be read from.
LEMMA StartCBKeeps == ASSUME IInv, NEW ok \in BOOLEAN, StartConfirmCB(ok) PROVE IInv'
<1>1. Mail' = Mail /\ QueueTyped'
  <2>1. queue' = queue
    BY DEF StartConfirmCB, Answered, Verdict, mail
  <2>2. QED
    BY <2>1, SameMail DEF IInv, Typed
<1>2. ModesTyped'
  BY DEF IInv, Typed, ModesTyped, States, StartConfirmCB, Answered, Verdict, network, mail,
       security, outside
<1>3. FlagsTyped'
  BY DEF IInv, Typed, FlagsTyped, NvTyped, StartConfirmCB, Answered, Verdict, network, mail,
       security, outside
<1>4. SetsTyped'
  BY DEF IInv, Typed, SetsTyped, Bits, Requests, StartConfirmCB, Answered, Verdict, network,
       mail, security, outside
<1>5. NumbersTyped'
  BY ZdAppAssumption DEF IInv, Typed, NumbersTyped, NvTyped, StartConfirmCB, Answered, Verdict,
       network, mail, security, outside
<1>6. NvTyped'
  BY DEF IInv, Typed, NvTyped, NumbersTyped, FlagsTyped, StartConfirmCB, Answered, Verdict,
       network, mail, security, outside
<1>7. Waits'
  BY <1>1 DEF IInv, Typed, Waits, Roles, Joins, Restarts, Resets, Dormant, ModesTyped, Held,
       StartConfirmCB, Answered, Verdict, network, mail, security, outside
<1>8. KeyOrReset'
  BY DEF IInv, Typed, KeyOrReset, KeyKept, Excused, Resets, Roles, Joins, Knows, NvTyped,
       StartConfirmCB, Answered, Verdict, network, mail, security, outside
<1>9. ToldTheTruth'
  BY DEF IInv, Typed, ToldTheTruth, InNetwork, Held, StartConfirmCB, Answered, Verdict, network,
       mail, security, outside
<1>10. Roles'
  BY <1>1 DEF IInv, Typed, Roles, Joins, ModesTyped, Lost, StartConfirmCB, Answered, Verdict,
       network, mail, security, outside
<1>11. Timed'
  BY DEF IInv, Typed, Timed, Held, StartConfirmCB, Answered, Verdict, network, mail, security,
       outside
<1>12. Held'
  BY <1>1 DEF IInv, Typed, Held, InNetwork, StartConfirmCB, Answered, Verdict, network, mail,
       security, outside
<1>13. Knows'
  BY <1>1 DEF IInv, Typed, Knows, Joins, Roles, ModesTyped, Held, StartConfirmCB, Answered,
       Verdict, network, mail, security, outside
<1>14. Lost'
  BY <1>1 DEF IInv, Typed, Lost, Held, StartConfirmCB, Answered, Verdict, network, mail,
       security, outside
<1>15. KeyKept'
  BY DEF IInv, Typed, KeyKept, Excused, Resets, Joins, Knows, Roles, NvTyped, ModesTyped,
       StartConfirmCB, Answered, Verdict, network, mail, security, outside
<1>16. Counts'
  BY ZdAppAssumption DEF IInv, Typed, Counts, NvTyped, NumbersTyped, StartConfirmCB, Answered,
       Verdict, network, mail, security, outside
<1>17. QED
  BY <1>1, <1>2, <1>3, <1>4, <1>5, <1>6, <1>7, <1>8, <1>9, <1>10, <1>11, <1>12, <1>13, <1>14,
       <1>15, <1>16 DEF IInv, Typed

\* An address changed, or a child joined.
LEMMA ChangedKeeps == ASSUME IInv, AddrChangeIndicationCB \/ JoinIndicationCB PROVE IInv'
<1>1. Mail' = Mail /\ QueueTyped'
  <2>1. queue' = queue
    BY DEF AddrChangeIndicationCB, JoinIndicationCB, Changed, NVUpdate, InNetwork, mail
  <2>2. QED
    BY <2>1, SameMail DEF IInv, Typed
<1>2. ModesTyped'
  BY DEF IInv, Typed, ModesTyped, States, AddrChangeIndicationCB, JoinIndicationCB, Changed,
       NVUpdate, InNetwork, network, mail, security, outside
<1>3. FlagsTyped'
  BY DEF IInv, Typed, FlagsTyped, NvTyped, AddrChangeIndicationCB, JoinIndicationCB, Changed,
       NVUpdate, InNetwork, network, mail, security, outside
<1>4. SetsTyped'
  BY DEF IInv, Typed, SetsTyped, Bits, Requests, AddrChangeIndicationCB, JoinIndicationCB,
       Changed, NVUpdate, InNetwork, network, mail, security, outside
<1>5. NumbersTyped'
  BY ZdAppAssumption DEF IInv, Typed, NumbersTyped, NvTyped, AddrChangeIndicationCB,
       JoinIndicationCB, Changed, NVUpdate, InNetwork, network, mail, security, outside
<1>6. NvTyped'
  BY DEF IInv, Typed, NvTyped, NumbersTyped, FlagsTyped, AddrChangeIndicationCB,
       JoinIndicationCB, Changed, NVUpdate, InNetwork, network, mail, security, outside
<1>7. Waits'
  BY <1>1 DEF IInv, Typed, Waits, Roles, Joins, Restarts, Resets, Dormant, ModesTyped, Held,
       AddrChangeIndicationCB, JoinIndicationCB, Changed, NVUpdate, InNetwork, network, mail,
       security, outside
<1>8. KeyOrReset'
  BY DEF IInv, Typed, KeyOrReset, KeyKept, Excused, Resets, Roles, Joins, Knows, NvTyped,
       AddrChangeIndicationCB, JoinIndicationCB, Changed, NVUpdate, InNetwork, network, mail,
       security, outside
<1>9. ToldTheTruth'
  BY DEF IInv, Typed, ToldTheTruth, InNetwork, Held, AddrChangeIndicationCB, JoinIndicationCB,
       Changed, NVUpdate, network, mail, security, outside
<1>10. Roles'
  BY <1>1 DEF IInv, Typed, Roles, Joins, ModesTyped, Lost, AddrChangeIndicationCB,
       JoinIndicationCB, Changed, NVUpdate, InNetwork, network, mail, security, outside
<1>11. Timed'
  BY DEF IInv, Typed, Timed, Held, AddrChangeIndicationCB, JoinIndicationCB, Changed, NVUpdate,
       InNetwork, network, mail, security, outside
<1>12. Held'
  BY <1>1 DEF IInv, Typed, Held, InNetwork, AddrChangeIndicationCB, JoinIndicationCB, Changed,
       NVUpdate, network, mail, security, outside
<1>13. Knows'
  BY <1>1 DEF IInv, Typed, Knows, Joins, Roles, ModesTyped, Held, AddrChangeIndicationCB,
       JoinIndicationCB, Changed, NVUpdate, InNetwork, network, mail, security, outside
<1>14. Lost'
  BY <1>1 DEF IInv, Typed, Lost, Held, AddrChangeIndicationCB, JoinIndicationCB, Changed,
       NVUpdate, InNetwork, network, mail, security, outside
<1>15. KeyKept'
  BY DEF IInv, Typed, KeyKept, Excused, Resets, Joins, Knows, Roles, NvTyped, ModesTyped,
       AddrChangeIndicationCB, JoinIndicationCB, Changed, NVUpdate, InNetwork, network, mail,
       security, outside
<1>16. Counts'
  BY ZdAppAssumption DEF IInv, Typed, Counts, NvTyped, NumbersTyped, AddrChangeIndicationCB,
       JoinIndicationCB, Changed, NVUpdate, InNetwork, network, mail, security, outside
<1>17. QED
  BY <1>1, <1>2, <1>3, <1>4, <1>5, <1>6, <1>7, <1>8, <1>9, <1>10, <1>11, <1>12, <1>13, <1>14,
       <1>15, <1>16 DEF IInv, Typed

\* ZDApp_LeaveReset.
LEMMA LeaveKeeps == ASSUME IInv, NEW rejoin \in BOOLEAN, LeaveReset(rejoin) PROVE IInv'
<1>1. Mail' = Mail /\ QueueTyped'
  <2>1. queue' = queue
    BY DEF LeaveReset, mail
  <2>2. QED
    BY <2>1, SameMail DEF IInv, Typed
<1>2. ModesTyped'
  BY DEF IInv, Typed, ModesTyped, States, LeaveReset, network, mail, security, outside
<1>3. FlagsTyped'
  BY DEF IInv, Typed, FlagsTyped, NvTyped, LeaveReset, network, mail, security, outside
<1>4. SetsTyped'
  BY DEF IInv, Typed, SetsTyped, Bits, Requests, LeaveReset, network, mail, security, outside
<1>5. NumbersTyped'
  BY ZdAppAssumption DEF IInv, Typed, NumbersTyped, NvTyped, LeaveReset, network, mail, security,
       outside
<1>6. NvTyped'
  BY DEF IInv, Typed, NvTyped, NumbersTyped, FlagsTyped, LeaveReset, network, mail, security,
       outside
<1>7. Waits'
  BY <1>1 DEF IInv, Typed, Waits, Roles, Joins, Restarts, Resets, Dormant, ModesTyped, Held,
       LeaveReset, network, mail, security, outside
<1>8. KeyOrReset'
  BY DEF IInv, Typed, KeyOrReset, KeyKept, Excused, Resets, Roles, Joins, Knows, NvTyped,
       LeaveReset, network, mail, security, outside
<1>9. ToldTheTruth'
  BY DEF IInv, Typed, ToldTheTruth, InNetwork, Held, LeaveReset, network, mail, security, outside
<1>10. Roles'
  BY <1>1 DEF IInv, Typed, Roles, Joins, ModesTyped, Lost, LeaveReset, network, mail, security,
       outside
<1>11. Timed'
  BY DEF IInv, Typed, Timed, Held, LeaveReset, network, mail, security, outside
<1>12. Held'
  BY <1>1 DEF IInv, Typed, Held, InNetwork, LeaveReset, network, mail, security, outside
<1>13. Knows'
  BY <1>1 DEF IInv, Typed, Knows, Joins, Roles, ModesTyped, Held, LeaveReset, network, mail,
       security, outside
<1>14. Lost'
  BY <1>1 DEF IInv, Typed, Lost, Held, LeaveReset, network, mail, security, outside
<1>15. KeyKept'
  BY DEF IInv, Typed, KeyKept, Excused, Resets, Joins, Knows, Roles, NvTyped, ModesTyped,
       LeaveReset, network, mail, security, outside
<1>16. Counts'
  BY ZdAppAssumption DEF IInv, Typed, Counts, NvTyped, NumbersTyped, LeaveReset, network, mail,
       security, outside
<1>17. QED
  BY <1>1, <1>2, <1>3, <1>4, <1>5, <1>6, <1>7, <1>8, <1>9, <1>10, <1>11, <1>12, <1>13, <1>14,
       <1>15, <1>16 DEF IInv, Typed

\* The network key arrives.
LEMMA KeyKeeps == ASSUME IInv, KeyArrives PROVE IInv'
<1>1. Mail' = Mail /\ QueueTyped'
  <2>1. queue' = queue
    BY DEF KeyArrives, mail
  <2>2. QED
    BY <2>1, SameMail DEF IInv, Typed
<1>2. ModesTyped'
  BY DEF IInv, Typed, ModesTyped, States, KeyArrives, network, mail, security, outside
<1>3. FlagsTyped'
  BY DEF IInv, Typed, FlagsTyped, NvTyped, KeyArrives, network, mail, security, outside
<1>4. SetsTyped'
  BY DEF IInv, Typed, SetsTyped, Bits, Requests, KeyArrives, network, mail, security, outside
<1>5. NumbersTyped'
  BY ZdAppAssumption DEF IInv, Typed, NumbersTyped, NvTyped, KeyArrives, network, mail, security,
       outside
<1>6. NvTyped'
  BY DEF IInv, Typed, NvTyped, NumbersTyped, FlagsTyped, KeyArrives, network, mail, security,
       outside
<1>7. Waits'
  BY <1>1 DEF IInv, Typed, Waits, Roles, Joins, Restarts, Resets, Dormant, ModesTyped, Held,
       KeyArrives, network, mail, security, outside
<1>8. KeyOrReset'
  BY DEF IInv, Typed, KeyOrReset, KeyKept, Excused, Resets, Roles, Joins, Knows, NvTyped,
       KeyArrives, network, mail, security, outside
<1>9. ToldTheTruth'
  BY DEF IInv, Typed, ToldTheTruth, InNetwork, Held, KeyArrives, network, mail, security, outside
<1>10. Roles'
  BY <1>1 DEF IInv, Typed, Roles, Joins, ModesTyped, Lost, KeyArrives, network, mail, security,
       outside
<1>11. Timed'
  BY DEF IInv, Typed, Timed, Held, KeyArrives, network, mail, security, outside
<1>12. Held'
  BY <1>1 DEF IInv, Typed, Held, InNetwork, KeyArrives, network, mail, security, outside
<1>13. Knows'
  BY <1>1 DEF IInv, Typed, Knows, Joins, Roles, ModesTyped, Held, KeyArrives, network, mail,
       security, outside
<1>14. Lost'
  BY <1>1 DEF IInv, Typed, Lost, Held, KeyArrives, network, mail, security, outside
<1>15. KeyKept'
  BY DEF IInv, Typed, KeyKept, Excused, Resets, Joins, Knows, Roles, NvTyped, ModesTyped,
       KeyArrives, network, mail, security, outside
<1>16. Counts'
  BY ZdAppAssumption DEF IInv, Typed, Counts, NvTyped, NumbersTyped, KeyArrives, network, mail,
       security, outside
<1>17. QED
  BY <1>1, <1>2, <1>3, <1>4, <1>5, <1>6, <1>7, <1>8, <1>9, <1>10, <1>11, <1>12, <1>13, <1>14,
       <1>15, <1>16 DEF IInv, Typed

\* A secured frame goes out.
LEMMA FrameKeeps == ASSUME IInv, SendFrame PROVE IInv'
<1>1. Mail' = Mail /\ QueueTyped'
  <2>1. queue' = queue
    BY DEF SendFrame, InNetwork, mail
  <2>2. QED
    BY <2>1, SameMail DEF IInv, Typed
<1>2. ModesTyped'
  BY DEF IInv, Typed, ModesTyped, States, SendFrame, InNetwork, network, mail, security, outside
<1>3. FlagsTyped'
  BY DEF IInv, Typed, FlagsTyped, NvTyped, SendFrame, InNetwork, network, mail, security, outside
<1>4. SetsTyped'
  BY DEF IInv, Typed, SetsTyped, Bits, Requests, SendFrame, InNetwork, network, mail, security,
       outside
<1>5. NumbersTyped'
  BY ZdAppAssumption DEF IInv, Typed, NumbersTyped, NvTyped, SendFrame, InNetwork, network, mail,
       security, outside
<1>6. NvTyped'
  BY DEF IInv, Typed, NvTyped, NumbersTyped, FlagsTyped, SendFrame, InNetwork, network, mail,
       security, outside
<1>7. Waits'
  BY <1>1 DEF IInv, Typed, Waits, Roles, Joins, Restarts, Resets, Dormant, ModesTyped, Held,
       SendFrame, InNetwork, network, mail, security, outside
<1>8. KeyOrReset'
  BY DEF IInv, Typed, KeyOrReset, KeyKept, Excused, Resets, Roles, Joins, Knows, NvTyped,
       SendFrame, InNetwork, network, mail, security, outside
<1>9. ToldTheTruth'
  BY DEF IInv, Typed, ToldTheTruth, InNetwork, Held, SendFrame, network, mail, security, outside
<1>10. Roles'
  BY <1>1 DEF IInv, Typed, Roles, Joins, ModesTyped, Lost, SendFrame, InNetwork, network, mail,
       security, outside
<1>11. Timed'
  BY DEF IInv, Typed, Timed, Held, SendFrame, InNetwork, network, mail, security, outside
<1>12. Held'
  BY <1>1 DEF IInv, Typed, Held, InNetwork, SendFrame, network, mail, security, outside
<1>13. Knows'
  BY <1>1 DEF IInv, Typed, Knows, Joins, Roles, ModesTyped, Held, SendFrame, InNetwork, network,
       mail, security, outside
<1>14. Lost'
  BY <1>1 DEF IInv, Typed, Lost, Held, SendFrame, InNetwork, network, mail, security, outside
<1>15. KeyKept'
  BY DEF IInv, Typed, KeyKept, Excused, Resets, Joins, Knows, Roles, NvTyped, ModesTyped,
       SendFrame, InNetwork, network, mail, security, outside
<1>16. Counts'
  BY ZdAppAssumption DEF IInv, Typed, Counts, NvTyped, NumbersTyped, SendFrame, InNetwork,
       network, mail, security, outside
<1>17. QED
  BY <1>1, <1>2, <1>3, <1>4, <1>5, <1>6, <1>7, <1>8, <1>9, <1>10, <1>11, <1>12, <1>13, <1>14,
       <1>15, <1>16 DEF IInv, Typed

\* A timer runs out: its event takes its place.
LEMMA ExpireKeeps == ASSUME IInv, NEW b \in Bits, Expire(b) PROVE IInv'
<1>1. Mail' = Mail /\ QueueTyped'
  <2>1. queue' = queue
    BY DEF Expire, Bits, mail
  <2>2. QED
    BY <2>1, SameMail DEF IInv, Typed
<1>2. ModesTyped'
  BY DEF IInv, Typed, ModesTyped, States, Expire, Bits, network, mail, security, outside
<1>3. FlagsTyped'
  BY DEF IInv, Typed, FlagsTyped, NvTyped, Expire, Bits, network, mail, security, outside
<1>4. SetsTyped'
  BY DEF IInv, Typed, SetsTyped, Bits, Requests, Expire, network, mail, security, outside
<1>5. NumbersTyped'
  BY ZdAppAssumption DEF IInv, Typed, NumbersTyped, NvTyped, Expire, Bits, network, mail,
       security, outside
<1>6. NvTyped'
  BY DEF IInv, Typed, NvTyped, NumbersTyped, FlagsTyped, Expire, Bits, network, mail, security,
       outside
<1>7. Waits'
  BY <1>1 DEF IInv, Typed, Waits, Roles, Joins, Restarts, Resets, Dormant, ModesTyped, Held,
       Expire, Bits, network, mail, security, outside
<1>8. KeyOrReset'
  BY DEF IInv, Typed, KeyOrReset, KeyKept, Excused, Resets, Roles, Joins, Knows, NvTyped, Expire,
       Bits, network, mail, security, outside
<1>9. ToldTheTruth'
  BY DEF IInv, Typed, ToldTheTruth, InNetwork, Held, Expire, Bits, network, mail, security, outside
<1>10. Roles'
  BY <1>1 DEF IInv, Typed, Roles, Joins, ModesTyped, Lost, Timed, Expire, Bits, network, mail,
       security, outside
<1>11. Timed'
  BY DEF IInv, Typed, Timed, Held, Expire, Bits, network, mail, security, outside
<1>12. Held'
  BY <1>1 DEF IInv, Typed, Held, InNetwork, Expire, Bits, network, mail, security, outside
<1>13. Knows'
  BY <1>1 DEF IInv, Typed, Knows, Joins, Roles, ModesTyped, Held, Expire, Bits, network, mail,
       security, outside
<1>14. Lost'
  BY <1>1 DEF IInv, Typed, Lost, Held, Expire, Bits, network, mail, security, outside
<1>15. KeyKept'
  BY DEF IInv, Typed, KeyKept, Excused, Resets, Joins, Knows, Roles, NvTyped, ModesTyped, Timed,
       Expire, Bits, network, mail, security, outside
<1>16. Counts'
  BY ZdAppAssumption DEF IInv, Typed, Counts, NvTyped, NumbersTyped, Expire, Bits, network, mail,
       security, outside
<1>17. QED
  BY <1>1, <1>2, <1>3, <1>4, <1>5, <1>6, <1>7, <1>8, <1>9, <1>10, <1>11, <1>12, <1>13, <1>14,
       <1>15, <1>16 DEF IInv, Typed

\* The application starts or stops the joining.
LEMMA CycleKeeps == ASSUME IInv, StartJoiningCycle \/ StopJoiningCycle PROVE IInv'
<1>1. Mail' = Mail /\ QueueTyped'
  <2>1. queue' = queue
    BY DEF StartJoiningCycle, StopJoiningCycle, NetworkInit, mail
  <2>2. QED
    BY <2>1, SameMail DEF IInv, Typed
<1>2. ModesTyped'
  BY DEF IInv, Typed, ModesTyped, States, StartJoiningCycle, StopJoiningCycle, NetworkInit,
       network, mail, security, outside
<1>3. FlagsTyped'
  BY DEF IInv, Typed, FlagsTyped, NvTyped, StartJoiningCycle, StopJoiningCycle, NetworkInit,
       network, mail, security, outside
<1>4. SetsTyped'
  BY DEF IInv, Typed, SetsTyped, Bits, Requests, StartJoiningCycle, StopJoiningCycle,
       NetworkInit, network, mail, security, outside
<1>5. NumbersTyped'
  BY ZdAppAssumption DEF IInv, Typed, NumbersTyped, NvTyped, StartJoiningCycle, StopJoiningCycle,
       NetworkInit, network, mail, security, outside
<1>6. NvTyped'
  BY DEF IInv, Typed, NvTyped, NumbersTyped, FlagsTyped, StartJoiningCycle, StopJoiningCycle,
       NetworkInit, network, mail, security, outside
<1>7. Waits'
  BY <1>1 DEF IInv, Typed, Waits, Roles, Joins, Restarts, Resets, Dormant, ModesTyped, Held,
       StartJoiningCycle, StopJoiningCycle, NetworkInit, network, mail, security, outside
<1>8. KeyOrReset'
  BY DEF IInv, Typed, KeyOrReset, KeyKept, Excused, Resets, Roles, Joins, Knows, NvTyped,
       StartJoiningCycle, StopJoiningCycle, NetworkInit, network, mail, security, outside
<1>9. ToldTheTruth'
  BY DEF IInv, Typed, ToldTheTruth, InNetwork, Held, StartJoiningCycle, StopJoiningCycle,
       NetworkInit, network, mail, security, outside
<1>10. Roles'
  BY <1>1 DEF IInv, Typed, Roles, Joins, ModesTyped, Lost, StartJoiningCycle, StopJoiningCycle,
       NetworkInit, network, mail, security, outside
<1>11. Timed'
  BY DEF IInv, Typed, Timed, Held, StartJoiningCycle, StopJoiningCycle, NetworkInit, network,
       mail, security, outside
<1>12. Held'
  BY <1>1 DEF IInv, Typed, Held, InNetwork, StartJoiningCycle, StopJoiningCycle, NetworkInit,
       network, mail, security, outside
<1>13. Knows'
  BY <1>1 DEF IInv, Typed, Knows, Joins, Roles, ModesTyped, Held, StartJoiningCycle,
       StopJoiningCycle, NetworkInit, network, mail, security, outside
<1>14. Lost'
  BY <1>1 DEF IInv, Typed, Lost, Held, StartJoiningCycle, StopJoiningCycle, NetworkInit, network,
       mail, security, outside
<1>15. KeyKept'
  BY DEF IInv, Typed, KeyKept, Excused, Resets, Joins, Knows, Roles, NvTyped, ModesTyped,
       StartJoiningCycle, StopJoiningCycle, NetworkInit, network, mail, security, outside
<1>16. Counts'
  BY ZdAppAssumption DEF IInv, Typed, Counts, NvTyped, NumbersTyped, StartJoiningCycle,
       StopJoiningCycle, NetworkInit, network, mail, security, outside
<1>17. QED
  BY <1>1, <1>2, <1>3, <1>4, <1>5, <1>6, <1>7, <1>8, <1>9, <1>10, <1>11, <1>12, <1>13, <1>14,
       <1>15, <1>16 DEF IInv, Typed

-----------------------------------------------------------------------------
(* What leaves a message and what takes one. *)

\* ZDO_SyncIndicationCB.
LEMMA SyncKeeps == ASSUME IInv, SyncIndicationCB PROVE IInv'
<1>1. (Mail' = Mail /\ dropped' = TRUE) \/ Mail' = Mail \cup {"lost"}
  <2>1. (queue' = queue /\ dropped' = TRUE) \/ (queue' = Append(queue, "lost") /\ Len(queue) < MaxQueue)
    BY DEF SyncIndicationCB
  <2>2. QED
    BY <2>1, SameMail, Appended DEF IInv, Typed, Messages
<1>2. QueueTyped'
  <2>1. (queue' = queue /\ dropped' = TRUE) \/ (queue' = Append(queue, "lost") /\ Len(queue) < MaxQueue)
    BY DEF SyncIndicationCB
  <2>2. QED
    BY <2>1, SameMail, Appended DEF IInv, Typed, Messages
<1>3. ModesTyped'
  BY DEF IInv, Typed, ModesTyped, States, SyncIndicationCB, network, mail, security, outside
<1>4. FlagsTyped'
  BY DEF IInv, Typed, FlagsTyped, NvTyped, SyncIndicationCB, network, mail, security, outside
<1>5. SetsTyped'
  BY DEF IInv, Typed, SetsTyped, Bits, Requests, SyncIndicationCB, network, mail, security, outside
<1>6. NumbersTyped'
  BY ZdAppAssumption DEF IInv, Typed, NumbersTyped, NvTyped, SyncIndicationCB, network, mail,
       security, outside
<1>7. NvTyped'
  BY DEF IInv, Typed, NvTyped, NumbersTyped, FlagsTyped, SyncIndicationCB, network, mail,
       security, outside
<1>8. Waits'
  <2>1. /\ devState' = devState /\ devState \in {"END_DEVICE", "END_DEVICE_UNAUTH"}
        /\ UNCHANGED <<events, timers, continueJoining, logical, energy>>
    BY DEF SyncIndicationCB
  <2>2. dropped' = TRUE \/ dropped' = dropped
    BY DEF SyncIndicationCB
  <2>3. QED
    BY <2>1, <2>2 DEF IInv, Typed, ModesTyped, FlagsTyped, Waits, Resets, Dormant
<1>9. KeyOrReset'
  BY DEF IInv, Typed, KeyOrReset, KeyKept, Excused, Resets, Roles, Joins, Knows, NvTyped,
       SyncIndicationCB, network, mail, security, outside
<1>10. ToldTheTruth'
  BY DEF IInv, Typed, ToldTheTruth, InNetwork, Held, SyncIndicationCB, network, mail, security,
       outside
<1>11. Roles'
  BY <1>1 DEF IInv, Typed, Roles, Joins, ModesTyped, Lost, SyncIndicationCB, network, mail,
       security, outside
<1>12. Timed'
  BY DEF IInv, Typed, Timed, Held, SyncIndicationCB, network, mail, security, outside
<1>13. Held'
  BY <1>1 DEF IInv, Typed, Held, InNetwork, SyncIndicationCB, network, mail, security, outside
<1>14. Knows'
  BY <1>1 DEF IInv, Typed, Knows, Joins, Roles, ModesTyped, Held, SyncIndicationCB, network,
       mail, security, outside
<1>15. Lost'
  BY <1>1 DEF IInv, Typed, Lost, Held, SyncIndicationCB, network, mail, security, outside
<1>16. KeyKept'
  BY DEF IInv, Typed, KeyKept, Excused, Resets, Joins, Knows, Roles, NvTyped, ModesTyped,
       SyncIndicationCB, network, mail, security, outside
<1>17. Counts'
  BY ZdAppAssumption DEF IInv, Typed, Counts, NvTyped, NumbersTyped, SyncIndicationCB, network,
       mail, security, outside
<1>18. QED
  BY <1>1, <1>2, <1>3, <1>4, <1>5, <1>6, <1>7, <1>8, <1>9, <1>10, <1>11, <1>12, <1>13, <1>14,
       <1>15, <1>16, <1>17 DEF IInv, Typed

\* ZDO_NetworkDiscoveryConfirmCB: the request answered is a message in the queue.
LEMMA DiscoveryCBKeeps == ASSUME IInv, NetworkDiscoveryConfirmCB PROVE IInv'
<1>1. (Mail' = Mail /\ dropped' = TRUE) \/ Mail' = Mail \cup {"disc ok"} \/ Mail' = Mail \cup {"disc fail"}
  <2>1. \/ queue' = queue /\ dropped' = TRUE
        \/ queue' = Append(queue, "disc ok") /\ Len(queue) < MaxQueue
        \/ queue' = Append(queue, "disc fail") /\ Len(queue) < MaxQueue
    BY DEF NetworkDiscoveryConfirmCB, Answered, SendMsg, Verdict
  <2>2. QED
    BY <2>1, SameMail, Appended DEF IInv, Typed, Messages
<1>2. QueueTyped'
  <2>1. \/ queue' = queue /\ dropped' = TRUE
        \/ queue' = Append(queue, "disc ok") /\ Len(queue) < MaxQueue
        \/ queue' = Append(queue, "disc fail") /\ Len(queue) < MaxQueue
    BY DEF NetworkDiscoveryConfirmCB, Answered, SendMsg, Verdict
  <2>2. QED
    BY <2>1, SameMail, Appended DEF IInv, Typed, Messages
<1>3. ModesTyped'
  BY DEF IInv, Typed, ModesTyped, States, NetworkDiscoveryConfirmCB, Answered, SendMsg, Verdict,
       network, mail, security, outside
<1>4. FlagsTyped'
  BY DEF IInv, Typed, FlagsTyped, NvTyped, NetworkDiscoveryConfirmCB, Answered, SendMsg, Verdict,
       network, mail, security, outside
<1>5. SetsTyped'
  BY DEF IInv, Typed, SetsTyped, Bits, Requests, NetworkDiscoveryConfirmCB, Answered, SendMsg,
       Verdict, network, mail, security, outside
<1>6. NumbersTyped'
  <2>1. UNCHANGED <<retryCnt, zdoDiscCounter, energy, nwkFrameCounter, nwkFrameCounterChanges,
                    unnoticed, frames>>
    BY DEF NetworkDiscoveryConfirmCB, SendMsg, network, security, outside
  <2>2. trouble' = trouble \/ (trouble > 0 /\ trouble' = trouble - 1)
    BY DEF NetworkDiscoveryConfirmCB, SendMsg, Verdict, outside
  <2>3. QED
    BY <2>1, <2>2, ZdAppAssumption DEF IInv, Typed, NumbersTyped
<1>7. NvTyped'
  BY DEF IInv, Typed, NvTyped, NumbersTyped, FlagsTyped, NetworkDiscoveryConfirmCB, Answered,
       SendMsg, Verdict, network, mail, security, outside
<1>8. Waits'
  <2>1. UNCHANGED <<devState, events, timers, continueJoining, logical, energy>> /\ nwk' = nwk \ {"disc"}
    BY DEF NetworkDiscoveryConfirmCB, Answered
  <2>2. dropped' = TRUE \/ dropped' = dropped
    BY DEF NetworkDiscoveryConfirmCB, SendMsg
  <2>3. ASSUME dropped' # TRUE PROVE ("disc ok" \in Mail' \/ "disc fail" \in Mail') /\ Mail \subseteq Mail'
    BY <1>1, <2>3
  <2>4. CASE dropped' = TRUE
    BY <2>4 DEF Waits
  <2>5. CASE dropped' # TRUE
    <3>1. ~dropped' => ~dropped
      BY <2>2, <2>5
    <3>2. QED
      BY <2>1, <2>3, <2>5, <3>1 DEF IInv, Waits, Restarts, Resets, Dormant
  <2>6. QED
    BY <2>4, <2>5
<1>9. KeyOrReset'
  BY DEF IInv, Typed, KeyOrReset, KeyKept, Excused, Resets, Roles, Joins, Knows, NvTyped,
       NetworkDiscoveryConfirmCB, Answered, SendMsg, Verdict, network, mail, security, outside
<1>10. ToldTheTruth'
  BY DEF IInv, Typed, ToldTheTruth, InNetwork, Held, NetworkDiscoveryConfirmCB, Answered,
       SendMsg, Verdict, network, mail, security, outside
<1>11. Roles'
  BY <1>1 DEF IInv, Typed, Roles, Joins, ModesTyped, Lost, NetworkDiscoveryConfirmCB, Answered,
       SendMsg, Verdict, network, mail, security, outside
<1>12. Timed'
  BY DEF IInv, Typed, Timed, Held, NetworkDiscoveryConfirmCB, Answered, SendMsg, Verdict,
       network, mail, security, outside
<1>13. Held'
  BY <1>1 DEF IInv, Typed, Held, InNetwork, NetworkDiscoveryConfirmCB, Answered, SendMsg,
       Verdict, network, mail, security, outside
<1>14. Knows'
  <2>1. UNCHANGED <<build, devState, devStartMode, known, nwkStatus>> /\ nwk' \subseteq nwk
    BY DEF NetworkDiscoveryConfirmCB, Answered, network
  <2>2. CASE Mail' = Mail
    BY <2>1, <2>2 DEF IInv, Knows, Joins
  <2>3. CASE Mail' = Mail \cup {"disc ok"}
    BY <2>1, <2>3 DEF IInv, Knows, Joins
  <2>4. CASE Mail' = Mail \cup {"disc fail"}
    BY <2>1, <2>4 DEF IInv, Knows, Joins
  <2>5. QED
    BY <1>1, <2>2, <2>3, <2>4
<1>15. Lost'
  <2>1. devState' = devState /\ ("lost" \in Mail' => "lost" \in Mail)
    BY <1>1 DEF NetworkDiscoveryConfirmCB
  <2>2. QED
    BY <2>1 DEF IInv, Lost
<1>16. KeyKept'
  BY DEF IInv, Typed, KeyKept, Excused, Resets, Joins, Knows, Roles, NvTyped, ModesTyped,
       NetworkDiscoveryConfirmCB, Answered, SendMsg, Verdict, network, mail, security, outside
<1>17. Counts'
  BY ZdAppAssumption DEF IInv, Typed, Counts, NvTyped, NumbersTyped, NetworkDiscoveryConfirmCB,
       Answered, SendMsg, Verdict, network, mail, security, outside
<1>18. QED
  BY <1>1, <1>2, <1>3, <1>4, <1>5, <1>6, <1>7, <1>8, <1>9, <1>10, <1>11, <1>12, <1>13, <1>14,
       <1>15, <1>16, <1>17 DEF IInv, Typed

\* ZDO_JoinConfirmCB.
LEMMA JoinCBKeeps == ASSUME IInv, NEW ok \in BOOLEAN, JoinConfirmCB(ok) PROVE IInv'
<1>1. (Mail' = Mail /\ dropped' = TRUE) \/ Mail' = Mail \cup {"join"}
  <2>1. (queue' = queue /\ dropped' = TRUE) \/ (queue' = Append(queue, "join") /\ Len(queue) < MaxQueue)
    BY DEF JoinConfirmCB, Answered, SendMsg, Verdict, NVUpdate
  <2>2. QED
    BY <2>1, SameMail, Appended DEF IInv, Typed, Messages
<1>2. QueueTyped'
  <2>1. (queue' = queue /\ dropped' = TRUE) \/ (queue' = Append(queue, "join") /\ Len(queue) < MaxQueue)
    BY DEF JoinConfirmCB, Answered, SendMsg, Verdict, NVUpdate
  <2>2. QED
    BY <2>1, SameMail, Appended DEF IInv, Typed, Messages
<1>3. ModesTyped'
  BY DEF IInv, Typed, ModesTyped, States, JoinConfirmCB, Answered, SendMsg, Verdict, NVUpdate,
       network, mail, security, outside
<1>4. FlagsTyped'
  BY DEF IInv, Typed, FlagsTyped, NvTyped, JoinConfirmCB, Answered, SendMsg, Verdict, NVUpdate,
       network, mail, security, outside
<1>5. SetsTyped'
  BY DEF IInv, Typed, SetsTyped, Bits, Requests, JoinConfirmCB, Answered, SendMsg, Verdict,
       NVUpdate, network, mail, security, outside
<1>6. NumbersTyped'
  BY ZdAppAssumption DEF IInv, Typed, NumbersTyped, NvTyped, JoinConfirmCB, Answered, SendMsg,
       Verdict, NVUpdate, network, mail, security, outside
<1>7. NvTyped'
  BY DEF IInv, Typed, NvTyped, NumbersTyped, FlagsTyped, JoinConfirmCB, Answered, SendMsg,
       Verdict, NVUpdate, network, mail, security, outside
<1>8. Waits'
  BY <1>1 DEF IInv, Typed, Waits, Roles, Joins, Restarts, Resets, Dormant, ModesTyped, Held,
       JoinConfirmCB, Answered, SendMsg, Verdict, NVUpdate, network, mail, security, outside
<1>9. KeyOrReset'
  BY DEF IInv, Typed, KeyOrReset, KeyKept, Excused, Resets, Roles, Joins, Knows, NvTyped,
       JoinConfirmCB, Answered, SendMsg, Verdict, NVUpdate, network, mail, security, outside
<1>10. ToldTheTruth'
  BY DEF IInv, Typed, ToldTheTruth, InNetwork, Held, JoinConfirmCB, Answered, SendMsg, Verdict,
       NVUpdate, network, mail, security, outside
<1>11. Roles'
  BY <1>1 DEF IInv, Typed, Roles, Joins, ModesTyped, Lost, JoinConfirmCB, Answered, SendMsg,
       Verdict, NVUpdate, network, mail, security, outside
<1>12. Timed'
  BY DEF IInv, Typed, Timed, Held, JoinConfirmCB, Answered, SendMsg, Verdict, NVUpdate, network,
       mail, security, outside
<1>13. Held'
  BY <1>1 DEF IInv, Typed, Held, InNetwork, JoinConfirmCB, Answered, SendMsg, Verdict, NVUpdate,
       network, mail, security, outside
<1>14. Knows'
  BY <1>1 DEF IInv, Typed, Knows, Joins, Roles, ModesTyped, Held, JoinConfirmCB, Answered,
       SendMsg, Verdict, NVUpdate, network, mail, security, outside
<1>15. Lost'
  BY <1>1 DEF IInv, Typed, Lost, Held, JoinConfirmCB, Answered, SendMsg, Verdict, NVUpdate,
       network, mail, security, outside
<1>16. KeyKept'
  BY DEF IInv, Typed, KeyKept, Excused, Resets, Joins, Knows, Roles, NvTyped, ModesTyped,
       JoinConfirmCB, Answered, SendMsg, Verdict, NVUpdate, network, mail, security, outside
<1>17. Counts'
  BY ZdAppAssumption DEF IInv, Typed, Counts, NvTyped, NumbersTyped, JoinConfirmCB, Answered,
       SendMsg, Verdict, NVUpdate, network, mail, security, outside
<1>18. QED
  BY <1>1, <1>2, <1>3, <1>4, <1>5, <1>6, <1>7, <1>8, <1>9, <1>10, <1>11, <1>12, <1>13, <1>14,
       <1>15, <1>16, <1>17 DEF IInv, Typed

\* ZDO_NWK_DISC_CNF.
LEMMA DiscoveryKeeps == ASSUME IInv, NEW x \in {"disc ok", "disc fail"}, DiscoveryConfirm(x) PROVE IInv'
<1>1. Mail = Mail' \cup {x} /\ QueueTyped'
  <2>1. queue # <<>> /\ Head(queue) = x /\ queue' = Tail(queue)
    BY DEF DiscoveryConfirm, Receive, Ignored, NetworkInit, NodeProfileSync, Request,
         RestoreNwkKey, OneMore
  <2>2. QED
    BY <2>1, Taken DEF IInv, Typed
<1>2. ModesTyped'
  BY DEF IInv, Typed, ModesTyped, States, DiscoveryConfirm, Receive, Ignored, NetworkInit,
       NodeProfileSync, Request, RestoreNwkKey, OneMore, network, mail, security, outside
<1>3. FlagsTyped'
  BY DEF IInv, Typed, FlagsTyped, NvTyped, DiscoveryConfirm, Receive, Ignored, NetworkInit,
       NodeProfileSync, Request, RestoreNwkKey, OneMore, network, mail, security, outside
<1>4. SetsTyped'
  BY DEF IInv, Typed, SetsTyped, Bits, Requests, DiscoveryConfirm, Receive, Ignored, NetworkInit,
       NodeProfileSync, Request, RestoreNwkKey, OneMore, network, mail, security, outside
<1>5. NumbersTyped'
  <2>1. (RestoreNwkKey \/ UNCHANGED security) /\ nv' = nv
    BY DEF DiscoveryConfirm, Receive, Ignored, NetworkInit, Request, NodeProfileSync, network,
         mail, security, outside
  <2>2. "FRAMECOUNTER" \in events' <=> "FRAMECOUNTER" \in events
    BY DEF DiscoveryConfirm, Receive, Ignored, NetworkInit, Request, NodeProfileSync, network,
         mail, security, outside
  <2>3. zdoDiscCounter' = zdoDiscCounter \/ zdoDiscCounter' = OneMore
    BY DEF DiscoveryConfirm, Receive, Ignored, NetworkInit, Request, NodeProfileSync, network,
         mail, security, outside
  <2>4. zdoDiscCounter' \in 0 .. DiscWidth - 1
    <3>1. NumbersTyped
      BY DEF IInv, Typed
    <3>2. QED
      BY <2>3, <3>1, Wrapped DEF NumbersTyped
  <2>5. /\ UNCHANGED <<retryCnt, energy, frames>>
        /\ trouble' = trouble \/ (trouble > 0 /\ trouble' = trouble - 1)
    BY DEF DiscoveryConfirm, Receive, Ignored, NetworkInit, Request, NodeProfileSync, network,
         mail, security, outside
  <2>6. nwkFrameCounter' \in Nat /\ nwkFrameCounterChanges' \in 0 .. MaxChanges + 1 /\ unnoticed' \in Nat
    BY <2>1, <2>2, KeyRestored DEF IInv, Typed
  <2>7. trouble' \in 0 .. MaxTrouble
    <3>1. trouble \in 0 .. MaxTrouble
      BY DEF IInv, Typed, NumbersTyped
    <3>2. QED
      BY <2>5, <3>1, Lowered
  <2>8. retryCnt \in Nat /\ energy \in 0 .. EnergySteps /\ frames \in 0 .. MaxDevFrames
    BY DEF IInv, Typed, NumbersTyped
  <2>9. QED
    BY <2>4, <2>5, <2>6, <2>7, <2>8 DEF NumbersTyped
<1>6. NvTyped'
  BY DEF IInv, Typed, NvTyped, NumbersTyped, FlagsTyped, DiscoveryConfirm, Receive, Ignored,
       NetworkInit, NodeProfileSync, Request, RestoreNwkKey, OneMore, network, mail, security,
       outside
<1>7. Waits'
  BY <1>1 DEF IInv, Typed, Waits, Roles, Joins, Restarts, Resets, Dormant, ModesTyped, Held,
       DiscoveryConfirm, Receive, Ignored, NetworkInit, NodeProfileSync, Request, RestoreNwkKey,
       OneMore, network, mail, security, outside
<1>8. KeyOrReset'
  BY DEF IInv, Typed, KeyOrReset, KeyKept, Excused, Resets, Roles, Joins, Knows, NvTyped,
       DiscoveryConfirm, Receive, Ignored, NetworkInit, NodeProfileSync, Request, RestoreNwkKey,
       OneMore, network, mail, security, outside
<1>9. ToldTheTruth'
  BY DEF IInv, Typed, ToldTheTruth, InNetwork, Held, DiscoveryConfirm, Receive, Ignored,
       NetworkInit, NodeProfileSync, Request, RestoreNwkKey, OneMore, network, mail, security,
       outside
<1>10. Roles'
  <2>1. /\ build' = build
        /\ \/ devState' = devState
           \/ devState = "NWK_DISC" /\ devState' \in {"NWK_JOINING", "NWK_REJOIN"}
    BY DEF DiscoveryConfirm, Receive, Ignored, NetworkInit, Request, NodeProfileSync, network,
         mail, security, outside
  <2>2. logical' = logical \/ (devState = "NWK_DISC" /\ logical' = "device")
    BY DEF DiscoveryConfirm, Receive, Ignored, NetworkInit, Request, NodeProfileSync, network,
         mail, security, outside
  <2>3. devStartMode' = devStartMode /\ events' = events /\ nwk' \subseteq nwk \cup {"join", "rejoin"}
    BY DEF DiscoveryConfirm, Receive, Ignored, NetworkInit, Request, NodeProfileSync, network,
         mail, security, outside
  <2>4. Joins
    BY <1>1 DEF IInv, Roles
  <2>5. QED
    BY <1>1, <2>1, <2>2, <2>3, <2>4 DEF IInv, Roles, Joins
<1>11. Timed'
  BY DEF IInv, Typed, Timed, Held, DiscoveryConfirm, Receive, Ignored, NetworkInit,
       NodeProfileSync, Request, RestoreNwkKey, OneMore, network, mail, security, outside
<1>12. Held'
  BY <1>1 DEF IInv, Typed, Held, InNetwork, DiscoveryConfirm, Receive, Ignored, NetworkInit,
       NodeProfileSync, Request, RestoreNwkKey, OneMore, network, mail, security, outside
<1>13. Knows'
  <2>1. build' = build /\ nwkStatus' = nwkStatus /\ devStartMode' = devStartMode
    BY DEF DiscoveryConfirm, Receive, Ignored, NetworkInit, Request, NodeProfileSync, network,
         mail, security, outside
  <2>2. \/ devState' = devState /\ known' = known
        \/ devState' = "NWK_JOINING" /\ known' = known
        \/ devState' = "NWK_REJOIN" /\ known' = TRUE
    BY DEF DiscoveryConfirm, Receive, Ignored, NetworkInit, Request, NodeProfileSync, network,
         mail, security, outside
  <2>3. "start" \in nwk' => "start" \in nwk
    <3>1. nwk' = nwk \/ Request("join", {"NETWORK_INIT"}) \/ Request("rejoin", {"NETWORK_INIT"})
      BY DEF DiscoveryConfirm, Ignored, NetworkInit
    <3>2. CASE nwk' = nwk
      BY <3>2
    <3>3. CASE Request("join", {"NETWORK_INIT"})
      <4>1. \A q : q \in nwk' => q \in nwk \/ q = "join"
        BY <3>3, Asked
      <4>2. QED
        BY <4>1
    <3>4. CASE Request("rejoin", {"NETWORK_INIT"})
      <4>1. \A q : q \in nwk' => q \in nwk \/ q = "rejoin"
        BY <3>4, Asked
      <4>2. QED
        BY <4>1
    <3>5. QED
      BY <3>1, <3>2, <3>3, <3>4
  <2>4. QED
    BY <1>1, <2>1, <2>2, <2>3 DEF IInv, Typed, FlagsTyped, Knows, Joins
<1>14. Lost'
  BY <1>1 DEF IInv, Typed, Lost, Held, DiscoveryConfirm, Receive, Ignored, NetworkInit,
       NodeProfileSync, Request, RestoreNwkKey, OneMore, network, mail, security, outside
<1>15. KeyKept'
  BY DEF IInv, Typed, KeyKept, Excused, Resets, Joins, Knows, Roles, NvTyped, ModesTyped,
       DiscoveryConfirm, Receive, Ignored, NetworkInit, NodeProfileSync, Request, RestoreNwkKey,
       OneMore, network, mail, security, outside
<1>16. Counts'
  <2>1. (RestoreNwkKey \/ UNCHANGED security) /\ nv' = nv
    BY DEF DiscoveryConfirm, Receive, Ignored, NetworkInit, Request, NodeProfileSync, network,
         mail, security, outside
  <2>2. "FRAMECOUNTER" \in events' <=> "FRAMECOUNTER" \in events
    BY DEF DiscoveryConfirm, Receive, Ignored, NetworkInit, Request, NodeProfileSync, network,
         mail, security, outside
  <2>3. QED
    BY <2>1, <2>2, KeyRestored DEF IInv, Typed
<1>17. QED
  BY <1>1, <1>2, <1>3, <1>4, <1>5, <1>6, <1>7, <1>8, <1>9, <1>10, <1>11, <1>12, <1>13, <1>14,
       <1>15, <1>16 DEF IInv, Typed

\* ZDApp_ProcessNetworkJoin: the status it reads may be another answer's.
LEMMA JoinKeeps == ASSUME IInv, ProcessNetworkJoin PROVE IInv'
<1>1. Mail = Mail' \cup {"join"} /\ QueueTyped'
  <2>1. queue # <<>> /\ Head(queue) = "join" /\ queue' = Tail(queue)
    BY DEF ProcessNetworkJoin, Receive, JoinAnswered, RejoinAnswered, NetworkInit, StartRouter,
         RestoreNwkKey
  <2>2. QED
    BY <2>1, Taken DEF IInv, Typed
<1>2. ModesTyped'
  BY DEF IInv, Typed, ModesTyped, States, ProcessNetworkJoin, Receive, JoinAnswered,
       RejoinAnswered, NetworkInit, StartRouter, RestoreNwkKey, network, mail, security, outside
<1>3. FlagsTyped'
  BY DEF IInv, Typed, FlagsTyped, NvTyped, ProcessNetworkJoin, Receive, JoinAnswered,
       RejoinAnswered, NetworkInit, StartRouter, RestoreNwkKey, network, mail, security, outside
<1>4. SetsTyped'
  BY DEF IInv, Typed, SetsTyped, Bits, Requests, ProcessNetworkJoin, Receive, JoinAnswered,
       RejoinAnswered, NetworkInit, StartRouter, RestoreNwkKey, network, mail, security, outside
<1>5. NumbersTyped'
  <2>1. (RestoreNwkKey \/ UNCHANGED security) /\ nv' = nv
    BY DEF ProcessNetworkJoin, Receive, JoinAnswered, RejoinAnswered, NetworkInit, StartRouter,
         network, mail, security, outside
  <2>2. "FRAMECOUNTER" \in events' <=> "FRAMECOUNTER" \in events
    BY DEF ProcessNetworkJoin, Receive, JoinAnswered, RejoinAnswered, NetworkInit, StartRouter,
         network, mail, security, outside
  <2>3. zdoDiscCounter' = zdoDiscCounter \/ zdoDiscCounter' = 1
    BY DEF ProcessNetworkJoin, Receive, JoinAnswered, RejoinAnswered, NetworkInit, StartRouter,
         network, mail, security, outside
  <2>4. retryCnt' = retryCnt \/ retryCnt' = retryCnt + 1
    BY DEF ProcessNetworkJoin, Receive, JoinAnswered, RejoinAnswered, NetworkInit, StartRouter,
         network, mail, security, outside
  <2>5. UNCHANGED <<energy, frames, trouble>>
    BY DEF ProcessNetworkJoin, Receive, JoinAnswered, RejoinAnswered, NetworkInit, StartRouter,
         network, mail, security, outside
  <2>6. nwkFrameCounter' \in Nat /\ nwkFrameCounterChanges' \in 0 .. MaxChanges + 1 /\ unnoticed' \in Nat
    BY <2>1, <2>2, KeyRestored DEF IInv, Typed
  <2>7. QED
    BY <2>3, <2>4, <2>5, <2>6, ZdAppAssumption DEF IInv, Typed, NumbersTyped
<1>6. NvTyped'
  BY DEF IInv, Typed, NvTyped, NumbersTyped, FlagsTyped, ProcessNetworkJoin, Receive,
       JoinAnswered, RejoinAnswered, NetworkInit, StartRouter, RestoreNwkKey, network, mail,
       security, outside
<1>7. Waits'
  BY <1>1 DEF IInv, Typed, Waits, Roles, Joins, Restarts, Resets, Dormant, ModesTyped, Held,
       ProcessNetworkJoin, Receive, JoinAnswered, RejoinAnswered, NetworkInit, StartRouter,
       RestoreNwkKey, network, mail, security, outside
<1>8. KeyOrReset'
  BY DEF IInv, Typed, KeyOrReset, KeyKept, Excused, Resets, Roles, Joins, Knows, NvTyped,
       ProcessNetworkJoin, Receive, JoinAnswered, RejoinAnswered, NetworkInit, StartRouter,
       RestoreNwkKey, network, mail, security, outside
<1>9. ToldTheTruth'
  BY DEF IInv, Typed, ToldTheTruth, InNetwork, Held, ProcessNetworkJoin, Receive, JoinAnswered,
       RejoinAnswered, NetworkInit, StartRouter, RestoreNwkKey, network, mail, security, outside
<1>10. Roles'
  BY <1>1 DEF IInv, Typed, Roles, Joins, ModesTyped, Lost, ProcessNetworkJoin, Receive,
       JoinAnswered, RejoinAnswered, NetworkInit, StartRouter, RestoreNwkKey, network, mail,
       security, outside
<1>11. Timed'
  BY DEF IInv, Typed, Timed, Held, ProcessNetworkJoin, Receive, JoinAnswered, RejoinAnswered,
       NetworkInit, StartRouter, RestoreNwkKey, network, mail, security, outside
<1>12. Held'
  BY <1>1 DEF IInv, Typed, Held, InNetwork, ProcessNetworkJoin, Receive, JoinAnswered,
       RejoinAnswered, NetworkInit, StartRouter, RestoreNwkKey, network, mail, security, outside
<1>13. Knows'
  BY <1>1 DEF IInv, Typed, Knows, Joins, Roles, ModesTyped, Held, ProcessNetworkJoin, Receive,
       JoinAnswered, RejoinAnswered, NetworkInit, StartRouter, RestoreNwkKey, network, mail,
       security, outside
<1>14. Lost'
  BY <1>1 DEF IInv, Typed, Lost, Held, ProcessNetworkJoin, Receive, JoinAnswered, RejoinAnswered,
       NetworkInit, StartRouter, RestoreNwkKey, network, mail, security, outside
<1>15. KeyKept'
  BY DEF IInv, Typed, KeyKept, Excused, Resets, Joins, Knows, Roles, NvTyped, ModesTyped,
       ProcessNetworkJoin, Receive, JoinAnswered, RejoinAnswered, NetworkInit, StartRouter,
       RestoreNwkKey, network, mail, security, outside
<1>16. Counts'
  <2>1. (RestoreNwkKey \/ UNCHANGED security) /\ nv' = nv
    BY DEF ProcessNetworkJoin, Receive, JoinAnswered, RejoinAnswered, NetworkInit, StartRouter,
         network, mail, security, outside
  <2>2. "FRAMECOUNTER" \in events' <=> "FRAMECOUNTER" \in events
    BY DEF ProcessNetworkJoin, Receive, JoinAnswered, RejoinAnswered, NetworkInit, StartRouter,
         network, mail, security, outside
  <2>3. QED
    BY <2>1, <2>2, KeyRestored DEF IInv, Typed
<1>17. QED
  BY <1>1, <1>2, <1>3, <1>4, <1>5, <1>6, <1>7, <1>8, <1>9, <1>10, <1>11, <1>12, <1>13, <1>14,
       <1>15, <1>16 DEF IInv, Typed

\* The parent is lost.
LEMMA ParentKeeps == ASSUME IInv, ParentLost PROVE IInv'
<1>1. Mail = Mail' \cup {"lost"} /\ QueueTyped'
  <2>1. queue # <<>> /\ Head(queue) = "lost" /\ queue' = Tail(queue)
    BY DEF ParentLost, Receive, NetworkInit
  <2>2. QED
    BY <2>1, Taken DEF IInv, Typed
<1>2. ModesTyped'
  BY DEF IInv, Typed, ModesTyped, States, ParentLost, Receive, NetworkInit, network, mail,
       security, outside
<1>3. FlagsTyped'
  BY DEF IInv, Typed, FlagsTyped, NvTyped, ParentLost, Receive, NetworkInit, network, mail,
       security, outside
<1>4. SetsTyped'
  BY DEF IInv, Typed, SetsTyped, Bits, Requests, ParentLost, Receive, NetworkInit, network, mail,
       security, outside
<1>5. NumbersTyped'
  BY ZdAppAssumption DEF IInv, Typed, NumbersTyped, NvTyped, ParentLost, Receive, NetworkInit,
       network, mail, security, outside
<1>6. NvTyped'
  BY DEF IInv, Typed, NvTyped, NumbersTyped, FlagsTyped, ParentLost, Receive, NetworkInit,
       network, mail, security, outside
<1>7. Waits'
  BY <1>1 DEF IInv, Typed, Waits, Roles, Joins, Restarts, Resets, Dormant, ModesTyped, Held,
       ParentLost, Receive, NetworkInit, network, mail, security, outside
<1>8. KeyOrReset'
  BY DEF IInv, Typed, KeyOrReset, KeyKept, Excused, Resets, Roles, Joins, Knows, NvTyped,
       ParentLost, Receive, NetworkInit, network, mail, security, outside
<1>9. ToldTheTruth'
  BY DEF IInv, Typed, ToldTheTruth, InNetwork, Held, ParentLost, Receive, NetworkInit, network,
       mail, security, outside
<1>10. Roles'
  BY <1>1 DEF IInv, Typed, Roles, Joins, ModesTyped, Lost, ParentLost, Receive, NetworkInit,
       network, mail, security, outside
<1>11. Timed'
  BY DEF IInv, Typed, Timed, Held, ParentLost, Receive, NetworkInit, network, mail, security,
       outside
<1>12. Held'
  BY <1>1 DEF IInv, Typed, Held, InNetwork, ParentLost, Receive, NetworkInit, network, mail,
       security, outside
<1>13. Knows'
  BY <1>1 DEF IInv, Typed, Knows, Joins, Roles, ModesTyped, Held, Lost, ParentLost, Receive,
       NetworkInit, network, mail, security, outside
<1>14. Lost'
  BY <1>1 DEF IInv, Typed, Lost, Held, ParentLost, Receive, NetworkInit, network, mail, security,
       outside
<1>15. KeyKept'
  BY <1>1 DEF IInv, Typed, KeyKept, Excused, Resets, Joins, Knows, Roles, NvTyped, ModesTyped,
       Lost, ParentLost, Receive, NetworkInit, network, mail, security, outside
<1>16. Counts'
  BY ZdAppAssumption DEF IInv, Typed, Counts, NvTyped, NumbersTyped, ParentLost, Receive,
       NetworkInit, network, mail, security, outside
<1>17. QED
  BY <1>1, <1>2, <1>3, <1>4, <1>5, <1>6, <1>7, <1>8, <1>9, <1>10, <1>11, <1>12, <1>13, <1>14,
       <1>15, <1>16 DEF IInv, Typed

-----------------------------------------------------------------------------
\* ZDOInitDevice, with no more than a state change to be told: what NV holds is enough to resume on.
LEMMA Initialised ==
    ASSUME IInv, NEW p \in SUBSET {"STATE_CHANGE"}, ZDOInitDevice(p), build' = build,
           nwk' = {}, Mail' = {}, timers' = {}, QueueTyped',
           retryCnt' \in Nat, zdoDiscCounter' \in 0 .. DiscWidth - 1, energy' \in 0 .. EnergySteps,
           continueJoining' \in BOOLEAN, nwkStatus' \in BOOLEAN, busy' \in BOOLEAN, dropped' \in BOOLEAN,
           toldApp' \in States, trouble' \in 0 .. MaxTrouble, frames' \in 0 .. MaxDevFrames
    PROVE  IInv'
<1>1. /\ build \in Build /\ nv.saved \in BOOLEAN /\ nv.key \in BOOLEAN /\ nv.fresh \in BOOLEAN
      /\ nv.counter \in Nat /\ MaxChanges \in Nat
  BY ZdAppAssumption DEF IInv, Typed, ModesTyped, NvTyped
<1>2. build.type \in {"coordinator", "router", "device"} /\ build.secure \in BOOLEAN
  BY <1>1 DEF Build
<1> DEFINE hold == nv.leave = "hold"
           resume == RestoreNetworkState /\ ~hold
           keep == resume \/ (hold /\ ReadNetworkRestoreState)
           trust == build.secure /\ build.type = "coordinator"
<1>3. RestoreNetworkState = (RestoreNetworkState = TRUE) /\ (RestoreNetworkState => nv.saved)
  BY <1>1 DEF RestoreNetworkState, ReadNetworkRestoreState, Build
<1>4. LeaveCtrlStartup = "HOLD" <=> hold
  BY DEF LeaveCtrlStartup
<1>5. /\ devState' = IF hold THEN "HOLD" ELSE "INIT"
      /\ devStartMode' = IF resume THEN "RESUME" ELSE DetermineDeviceType
      /\ logical' = build.type /\ known' = resume
      /\ events' = p \cup {IF hold THEN "STATE_CHANGE" ELSE "NETWORK_INIT"}
  BY <1>4 DEF ZDOInitDevice, LeaveCtrlStartup
<1>6. nv' = [leave |-> "none", fresh |-> nv.fresh \/ hold, saved |-> nv.saved /\ (hold \/ resume),
             key |-> nv.key /\ keep, counter |-> IF keep THEN nv.counter ELSE 0]
  BY <1>4 DEF ZDOInitDevice
<1>7. /\ key' = (trust \/ (nv.key /\ resume)) /\ unnoticed' = 0
      /\ nwkFrameCounter' = IF trust /\ resume /\ nv.counter > 0 THEN nv.counter + MaxChanges ELSE 0
      /\ nwkFrameCounterChanges' = IF trust /\ resume THEN MaxChanges + 1 ELSE 0
  BY <1>4 DEF ZDOInitDevice, SecInit
<1>8. ModesTyped'
  BY <1>1, <1>2, <1>5 DEF ModesTyped, States, DetermineDeviceType
<1>9. FlagsTyped'
  BY <1>1, <1>5, <1>7 DEF FlagsTyped, RestoreNetworkState, ReadNetworkRestoreState
<1>10. SetsTyped'
  BY <1>5 DEF SetsTyped, Bits
<1>11. NumbersTyped'
  <2>1. nwkFrameCounter' \in Nat /\ nwkFrameCounterChanges' \in 0 .. MaxChanges + 1 /\ unnoticed' \in Nat
    BY <1>1, <1>7
  <2>2. QED
    BY <2>1 DEF NumbersTyped
<1>12. NvTyped'
  BY <1>1, <1>6 DEF NvTyped
<1>13. Waits'
  BY <1>5 DEF Waits, Restarts
<1>14. KeyOrReset' /\ ToldTheTruth'
  BY <1>5 DEF KeyOrReset, ToldTheTruth, InNetwork
<1>15. Roles'
  BY <1>2, <1>5 DEF Roles, Joins, DetermineDeviceType
<1>16. Timed'
  BY DEF Timed
<1>17. Held'
  BY <1>5 DEF Held, DetermineDeviceType
<1>18. Knows'
  BY <1>5 DEF Knows, DetermineDeviceType
<1>19. Lost'
  BY DEF Lost
<1>20. KeyKept'
  <2>1. "DEVICE_AUTH" \notin events' /\ devState' \in {"HOLD", "INIT"}
    BY <1>5
  <2>2. devStartMode' \in {"RESUME", "REJOIN"} => resume
    BY <1>5 DEF DetermineDeviceType
  <2>3. resume => key' \/ (nv'.saved /\ ~nv'.key)
    BY <1>3, <1>6, <1>7
  <2>4. QED
    BY <2>1, <2>2, <2>3 DEF KeyKept, Excused
<1>21. Counts'
  <2>1. nv'.counter = IF keep THEN nv.counter ELSE 0
    BY <1>6
  <2>2. nv'.counter > 0 => nwkFrameCounter' <= nv'.counter - 1 + nwkFrameCounterChanges'
    BY <1>1, <1>7, <2>1
  <2>3. QED
    BY <1>1, <1>7, <2>1, <2>2 DEF Counts
<1>22. QED
  BY <1>8, <1>9, <1>10, <1>11, <1>12, <1>13, <1>14, <1>15, <1>16, <1>17, <1>18, <1>19, <1>20, <1>21
     DEF IInv, Typed

\* A restart, whatever went on.
LEMMA BootKeeps == ASSUME IInv, Boot, trouble' \in 0 .. MaxTrouble PROVE IInv'
<1>1. /\ retryCnt' = 0 /\ zdoDiscCounter' = 1 /\ continueJoining' = TRUE /\ nwkStatus' = TRUE
      /\ timers' = {} /\ queue' = <<>> /\ busy' = FALSE /\ dropped' = FALSE
      /\ nwk' = {} /\ energy' = 0 /\ toldApp' = "INIT" /\ build' = build /\ frames' = frames
  BY DEF Boot
<1>2. Mail' = {} /\ QueueTyped'
  <2>1. Len(<<>>) = 0 /\ <<>> \in Seq(Messages)
    OBVIOUS
  <2>2. QED
    BY <1>1, <2>1, ZdAppAssumption DEF Mail, QueueTyped
<1>3. /\ retryCnt' \in Nat /\ zdoDiscCounter' \in 0 .. DiscWidth - 1 /\ energy' \in 0 .. EnergySteps
      /\ frames' \in 0 .. MaxDevFrames
  BY <1>1, ZdAppAssumption DEF IInv, Typed, NumbersTyped
<1>4. /\ continueJoining' \in BOOLEAN /\ nwkStatus' \in BOOLEAN /\ busy' \in BOOLEAN
      /\ dropped' \in BOOLEAN /\ toldApp' \in States
  BY <1>1 DEF States
<1>5. CASE ZDOInitDevice({})
  BY <1>1, <1>2, <1>3, <1>4, <1>5, Initialised
<1>6. CASE /\ devState' = "HOLD" /\ devStartMode' = IF Joins THEN "JOIN" ELSE "HARD"
           /\ logical' = build.type /\ known' = FALSE /\ events' = {} /\ key' = FALSE
           /\ nwkFrameCounter' = 0 /\ nwkFrameCounterChanges' = 0 /\ unnoticed' = 0
           /\ nv' = IF build.nvRestore /\ ~nv.fresh THEN nv ELSE [nv EXCEPT !.key = FALSE, !.counter = 0]
  <2>1. build \in Build /\ build.type \in {"coordinator", "router", "device"}
    BY DEF IInv, Typed, ModesTyped, Build
  <2>2. NvTyped' /\ nv'.counter \in Nat
    BY <1>6 DEF IInv, Typed, NvTyped
  <2>3. ModesTyped' /\ FlagsTyped' /\ SetsTyped'
    BY <1>1, <1>6, <2>1 DEF ModesTyped, FlagsTyped, SetsTyped, States
  <2>4. NumbersTyped'
    BY <1>3, <1>6, ZdAppAssumption DEF NumbersTyped
  <2>5. Waits' /\ KeyOrReset' /\ ToldTheTruth' /\ Timed' /\ Lost'
    BY <1>1, <1>2, <1>6 DEF Waits, KeyOrReset, ToldTheTruth, InNetwork, Timed, Lost
  <2>6. Roles' /\ Held' /\ Knows'
    BY <1>1, <1>2, <1>6, <2>1 DEF Roles, Held, Knows, Joins
  <2>7. KeyKept'
    BY <1>6 DEF KeyKept
  <2>8. Counts'
    BY <1>6, <2>2 DEF Counts
  <2>9. QED
    BY <1>2, <2>2, <2>3, <2>4, <2>5, <2>6, <2>7, <2>8 DEF IInv, Typed
<1>7. QED
  BY <1>5, <1>6 DEF Boot

\* Released from hold, where nothing is under way.
LEMMA ReleaseKeeps == ASSUME IInv, Release PROVE IInv'
<1>1. /\ devState = "HOLD" /\ ZDOInitDevice(events)
      /\ UNCHANGED <<build, retryCnt, zdoDiscCounter, continueJoining, nwkStatus, timers, queue, busy,
                     dropped, nwk, energy, toldApp, trouble, frames>>
  BY DEF Release, mail, outside
<1>2. Mail' = Mail /\ QueueTyped'
  BY <1>1, SameMail DEF IInv, Typed
<1>3. nwk' = {} /\ Mail' = {} /\ timers' = {} /\ events \in SUBSET {"STATE_CHANGE"}
  BY <1>1, <1>2 DEF IInv, Held
<1>4. /\ retryCnt' \in Nat /\ zdoDiscCounter' \in 0 .. DiscWidth - 1 /\ energy' \in 0 .. EnergySteps
      /\ trouble' \in 0 .. MaxTrouble /\ frames' \in 0 .. MaxDevFrames
  BY <1>1 DEF IInv, Typed, NumbersTyped
<1>5. /\ continueJoining' \in BOOLEAN /\ nwkStatus' \in BOOLEAN /\ busy' \in BOOLEAN
      /\ dropped' \in BOOLEAN /\ toldApp' \in States
  BY <1>1 DEF IInv, Typed, FlagsTyped, ModesTyped
<1>6. QED
  BY <1>1, <1>2, <1>3, <1>4, <1>5, Initialised

\* The initial states satisfy the invariant.
LEMMA InitHolds == ZdAppInit => IInv
<1> SUFFICES ASSUME ZdAppInit PROVE IInv
  OBVIOUS
<1>1. build \in Build /\ build.type \in {"coordinator", "router", "device"} /\ build.secure \in BOOLEAN
  BY ZdAppAssumption DEF ZdAppInit, Build
<1>2. Mail = {} /\ QueueTyped
  <2>1. Len(<<>>) = 0 /\ <<>> \in Seq(Messages)
    OBVIOUS
  <2>2. QED
    BY <2>1, ZdAppAssumption DEF ZdAppInit, Mail, QueueTyped
<1>3. ModesTyped /\ FlagsTyped /\ SetsTyped /\ NvTyped
  BY <1>1 DEF ZdAppInit, ModesTyped, FlagsTyped, SetsTyped, NvTyped, States, Bits, Joins
<1>4. NumbersTyped
  BY ZdAppAssumption DEF ZdAppInit, NumbersTyped
<1>5. Waits /\ KeyOrReset /\ ToldTheTruth /\ Timed
  BY DEF ZdAppInit, Waits, KeyOrReset, ToldTheTruth, InNetwork, Timed, Restarts
<1>6. Roles /\ Held /\ Knows /\ Lost
  BY <1>1, <1>2 DEF ZdAppInit, Roles, Held, Knows, Lost, Joins
<1>7. KeyKept
  BY DEF ZdAppInit, KeyKept, Joins
<1>8. Counts
  BY DEF ZdAppInit, Counts
<1>9. QED
  BY <1>2, <1>3, <1>4, <1>5, <1>6, <1>7, <1>8 DEF IInv, Typed

\* Every step keeps it.
LEMMA NextKeeps == IInv /\ [ZdAppNext]_zdAppVars => IInv'
<1> SUFFICES ASSUME IInv, [ZdAppNext]_zdAppVars PROVE IInv'
  OBVIOUS
<1>1. CASE Task
  <2>1. CASE DeviceResetEvt
    <3>1. Boot /\ trouble' \in 0 .. MaxTrouble
      BY <2>1 DEF DeviceResetEvt, IInv, Typed, NumbersTyped
    <3>2. QED
      BY <3>1, BootKeeps
  <2>2. CASE \E m \in {"disc ok", "disc fail"} : DiscoveryConfirm(m)
    BY <2>2, DiscoveryKeeps
  <2>3. CASE ~DeviceResetEvt /\ ~ \E m \in {"disc ok", "disc fail"} : DiscoveryConfirm(m)
    BY <1>1, <2>3, StartKeeps, NetworkStartKeeps, RouterStartKeeps, UpdateKeeps, SaveKeeps,
         AuthKeeps,
       CounterKeeps, JoinKeeps, ParentKeeps DEF Task
  <2>4. QED
    BY <2>1, <2>2, <2>3
<1>2. CASE Library
  BY <1>2, DiscoveryCBKeeps, StartCBKeeps, JoinCBKeeps DEF Library
<1>3. CASE SyncIndicationCB \/ AddrChangeIndicationCB \/ JoinIndicationCB
  BY <1>3, SyncKeeps, ChangedKeeps
<1>4. CASE \/ \E rejoin \in BOOLEAN : LeaveCnf(rejoin)
           \/ \E request, fromParent, removeChildren, rejoin \in BOOLEAN :
                 LeaveInd(request, fromParent, removeChildren, rejoin)
  BY <1>4, LeaveKeeps DEF LeaveCnf, LeaveInd
<1>5. CASE KeyArrives \/ SendFrame
  BY <1>5, KeyKeeps, FrameKeeps
<1>6. CASE \E b \in Bits : Expire(b)
  BY <1>6, ExpireKeeps
<1>7. CASE StartJoiningCycle \/ StopJoiningCycle
  BY <1>7, CycleKeeps
<1>8. CASE Release
  BY <1>8, ReleaseKeeps
<1>9. CASE PowerFails
  <2>1. Boot /\ trouble' \in 0 .. MaxTrouble
    <3>1. trouble \in 0 .. MaxTrouble /\ trouble > 0 /\ trouble' = trouble - 1 /\ Boot
      BY <1>9 DEF PowerFails, IInv, Typed, NumbersTyped
    <3>2. QED
      BY <3>1, Lowered
  <2>2. QED
    BY <2>1, BootKeeps
<1>10. CASE UNCHANGED zdAppVars
  <2>1. UNCHANGED <<build, logical, devState, devStartMode, retryCnt, zdoDiscCounter, known,
                    continueJoining, nwkStatus, events, timers, queue, busy, dropped, nwk, key,
                    nwkFrameCounter, nwkFrameCounterChanges, unnoticed, energy, nv, toldApp, trouble, frames>>
    BY <1>10 DEF zdAppVars, network, mail, security, outside
  <2>2. Mail' = Mail
    BY <2>1, SameMail
  <2>3. Typed'
    BY <2>1, SameMail DEF IInv, Typed, ModesTyped, FlagsTyped, SetsTyped, NumbersTyped, NvTyped
  <2>4. Waits' /\ KeyOrReset' /\ ToldTheTruth'
    BY <2>1, <2>2 DEF IInv, Waits, KeyOrReset, ToldTheTruth, InNetwork, Restarts, Resets, Dormant
  <2>5. Roles' /\ Timed' /\ Held' /\ Knows' /\ Lost' /\ KeyKept' /\ Counts'
    BY <2>1, <2>2 DEF IInv, Roles, Timed, Held, Knows, Lost, KeyKept, Excused, Resets, Counts, Joins
  <2>6. QED
    BY <2>3, <2>4, <2>5 DEF IInv
<1>11. QED
  BY <1>1, <1>2, <1>3, <1>4, <1>5, <1>6, <1>7, <1>8, <1>9, <1>10 DEF ZdAppNext

\* The invariant is strong enough.
LEMMA Sound == IInv => JoinerSound
<1> SUFFICES ASSUME IInv PROVE JoinerSound
  OBVIOUS
<1>1. ZdAppTypeOK
  BY DEF IInv, Typed, ModesTyped, FlagsTyped, SetsTyped, QueueTyped, NumbersTyped, NvTyped,
       Messages,
         ZdAppTypeOK
<1>2. NeverStranded
  <2>1. \A r, m : r \in nwk \/ m \cap Mail # {} => Awaits(r, m)
    BY DEF Awaits, Mail
  <2>2. CASE dropped \/ Dormant \/ ~continueJoining
    BY <2>2 DEF NeverStranded
  <2>3. CASE ~(dropped \/ Dormant) /\ continueJoining
    <3>1. /\ devState \in States
          /\ devState = "INIT" => Restarts
          /\ devState = "NWK_DISC" => Restarts \/ Awaits("disc", {"disc ok", "disc fail", "lost"})
          /\ devState = "NWK_JOINING" => Restarts \/ Awaits("join", {"join", "lost"})
          /\ devState = "NWK_REJOIN" => Restarts \/ Awaits("rejoin", {"join", "lost"})
          /\ devState = "NWK_ORPHAN" => Restarts \/ Awaits("orphan", {"join", "lost"})
          /\ devState = "COORD_STARTING" =>
                Restarts \/ nwk \cap {"form", "start"} # {} \/ "NETWORK_START" \in events
          /\ devState = "END_DEVICE_UNAUTH" => Resets \/ "DEVICE_AUTH" \in events
      BY <2>1, <2>3 DEF IInv, Typed, ModesTyped, Waits
    <3>2. QED
      BY <3>1 DEF NeverStranded, States
  <2>4. QED
    BY <2>2, <2>3
<1>3. CounterAhead
  <2>1. /\ nv.counter \in Nat /\ nwkFrameCounter \in Nat /\ unnoticed \in Nat /\ MaxChanges \in Nat
        /\ nwkFrameCounterChanges \in 0 .. MaxChanges + 1
    BY ZdAppAssumption DEF IInv, Typed, NumbersTyped, NvTyped
  <2>2. QED
    BY <2>1 DEF IInv, Counts, CounterAhead
<1>4. QED
  BY <1>1, <1>2, <1>3 DEF IInv, JoinerSound

\* The device application is sound (JoinerSound), for any builds and any bounds:
\* it never waits for nothing, is not in a secured network without the key
\* unnoticed, has told its applications the state it is in, and does not fall
\* behind the frame counter it would restore.
THEOREM JoinerIsSound == ZdAppSpec => []JoinerSound
<1>1. IInv /\ [ZdAppNext]_zdAppVars => IInv'
  BY NextKeeps
<1>2. QED
  BY <1>1, InitHolds, Sound, PTL DEF ZdAppSpec

-----------------------------------------------------------------------------
(* The trust centre: the parts of the inductive invariant. *)

\* What waits in the queue.
SecMail == {secQueue[i] : i \in 1 .. Len(secQueue)}

\* What may wait there.
SecMessage == [kind : {"cfm", "update"}, ami : Devices, parent : Parents]

\* The modes, the flags and the slot.
PlainTyped ==
    /\ secMode \in {"high", "standard"} /\ slot \in Devices \cup {Nobody}
    /\ permit \in BOOLEAN /\ timed \in BOOLEAN /\ preconfigured \in BOOLEAN
    /\ joins \in Nat /\ secTrouble \in Nat
    /\ secEvents \subseteq SecBits /\ secTimers \subseteq SecBits
    /\ short \in [Devices -> Addrs \cup {Nowhere}]

\* The sets of devices.
DevicesTyped ==
    /\ children \subseteq Devices /\ fresh \subseteq Devices /\ auth \subseteq Devices
    /\ done \subseteq Devices /\ crossed \subseteq Devices /\ keyed \subseteq Devices
    /\ failed \subseteq Devices /\ lost \subseteq Devices

MastersTyped == masters \subseteq Devices /\ IsFiniteSet(masters) /\ Cardinality(masters) <= Size

SecQueueTyped == secQueue \in Seq(SecMessage)

\* The tables: in order, no record in a state it only passes through, none in a
\* mode that needs none.
InOrder(s) == s \in Table /\ RecordsSound(s) /\ EntriesSound(s) /\ \A i \in Indices : s.ctrl[i].state # "INIT"

NoRecords == secMode = "standard" => Active(t) = {}

\* A device that is to be looked at has a short address; one that a router has
\* announced is not a child that has been looked at.
Placed ==
    /\ \A d \in fresh : short[d] \in Addrs
    /\ \A m \in SecMail :
          m.kind = "update" => short[m.ami] \in Addrs /\ m.ami \notin children \ fresh

\* The outcome of a key establishment that waits in the queue is that of this
\* joining, or crossed.
OutcomeKnown ==
    \A m \in SecMail, i \in Active(t) :
        m.kind = "cfm" /\ t.ctrl[i].state = "SKKE_WAIT" /\ t.ami[t.ctrl[i].entry] = m.ami
            => m.ami \in done \cup crossed

\* A record that is given up is that of a child whose key establishment failed.
GivenUp ==
    \A i \in Active(t) :
        t.ctrl[i].state = "SKKE_FAIL" /\ t.ami[t.ctrl[i].entry] \in children \ fresh
            => t.ami[t.ctrl[i].entry] \in failed

SecIInv ==
    /\ PlainTyped /\ DevicesTyped /\ MastersTyped /\ SecQueueTyped /\ InOrder(t)
    /\ Polled /\ KeyAfterSkke /\ Accounted /\ NoRecords /\ Placed /\ OutcomeKnown /\ GivenUp
-----------------------------------------------------------------------------
\* The device a record is for.
Who(s, i) == s.ami[s.ctrl[i].entry]

\* First finds a member, 0 if there is none: a set of indices has a lowest.
LEMMA FirstIn ==
    ASSUME NEW S \in SUBSET Indices
    PROVE  First(S) \in S \cup {0} /\ (First(S) = 0 <=> S = {})
<1>1. 0 \notin S
  BY SizeAssumption DEF Indices
<1>2. CASE S = {}
  BY <1>2 DEF First
<1>3. CASE S # {}
  <2>1. \E x \in S : \A y \in S : x <= y
    <3> DEFINE T == {0 .. x : x \in S}
    <3>1. T \subseteq FiniteSubsetsOf(0 .. Size) /\ T # {}
      <4>1. ASSUME NEW x \in S PROVE 0 .. x \subseteq 0 .. Size /\ IsFiniteSet(0 .. x)
        BY FS_Interval, SizeAssumption DEF Indices
      <4>2. QED
        BY <1>3, <4>1 DEF FiniteSubsetsOf
    <3>2. PICK u \in T : \A v \in T : ~ (<<v, u>> \in StrictSubsetOrdering(0 .. Size))
      <4> HIDE DEF T
      <4>1. QED
        BY <3>1, FS_StrictSubsetOrderingWellFounded, WFMin
    <3>3. PICK x \in S : u = 0 .. x
      BY <3>2
    <3>4. ASSUME NEW y \in S PROVE x <= y
      <4>1. 0 .. y \in T /\ 0 .. y \subseteq 0 .. Size /\ 0 .. x \subseteq 0 .. Size
        BY SizeAssumption DEF Indices
      <4>2. ~ (0 .. y \subseteq 0 .. x /\ 0 .. y # 0 .. x)
        BY <3>2, <3>3, <4>1 DEF StrictSubsetOrdering
      <4>3. x \in Nat /\ y \in Nat
        BY DEF Indices
      <4>4. QED
        BY <4>2, <4>3
    <3>5. QED
      BY <3>4
  <2>2. First(S) \in S
    BY <1>3, <2>1 DEF First
  <2>3. QED
    BY <1>1, <1>3, <2>2
<1>4. QED
  BY <1>2, <1>3

\* The parts of a table.
LEMMA Shape ==
    ASSUME NEW s \in Table
    PROVE  /\ s = [addr |-> s.addr, ami |-> s.ami, ctrl |-> s.ctrl]
           /\ s.addr \in [Devices -> Addrs \cup {Nowhere}]
           /\ s.ami \in [Indices -> Devices \cup {Nobody}]
           /\ \A i \in Indices :
                 /\ s.ctrl[i].state \in CtrlStates /\ s.ctrl[i].entry \in Indices
                 /\ s.ctrl[i].cntr \in Nat /\ s.ctrl[i].parent \in Parents \cup {Nowhere}
                 /\ s.ctrl[i].secure \in BOOLEAN
BY DEF Table

\* Storing an address touches only addresses, and the address is d's alone then.
LEMMA AddrStored ==
    ASSUME NEW s \in Table, NEW a \in Addrs, NEW d \in Devices
    PROVE  LET q == AddrStore(s, a, d) IN
           /\ q \in Table /\ q.ami = s.ami /\ q.ctrl = s.ctrl
           /\ \A x \in Devices : q.addr[x] = a <=> x = d
<1> DEFINE f == [x \in Devices |-> IF x = d THEN a ELSE IF s.addr[x] = a THEN Nowhere ELSE s.addr[x]]
<1>1. AddrStore(s, a, d) = [s EXCEPT !.addr = f]
  BY DEF AddrStore
<1>2. f \in [Devices -> Addrs \cup {Nowhere}]
  BY Shape
<1>3. \A x \in Devices : f[x] = a <=> x = d
  BY NobodyAssumption
<1> HIDE DEF f
<1>4. QED
  BY <1>1, <1>2, <1>3 DEF Table

\* A device d gets the entry e.
Entered(s, q, d, e) ==
    /\ e \in Indices /\ s.ami[e] \in {Nobody, d} /\ \A x \in Indices : s.ami[x] = d => x = e
    /\ q.ami = [s.ami EXCEPT ![e] = d]

\* The record i is for the entry e, and it is the only one.
Registered(s, q, dev, e, i) ==
    /\ i \in Indices /\ \A j \in Active(s) : s.ctrl[j].entry = e <=> j = i
    /\ q.ctrl = [s.ctrl EXCEPT ![i] = [state |-> "INIT", entry |-> e, cntr |-> 0,
                                       parent |-> dev.parent, secure |-> dev.secure]]

\* What DeviceEntryAdd may come to.
AddOutcome(s, dev, r) ==
    \/ r = Added(s, 0)
    \/ \E e, q :
          /\ r = Added(q, 0)
          /\ Entered(s, q, dev.ami, e) /\ q.addr = s.addr /\ q.ctrl = s.ctrl
          /\ q = [addr |-> q.addr, ami |-> q.ami, ctrl |-> q.ctrl]
    \/ \E e, i, q :
          /\ r = Added(q, i)
          /\ Entered(s, q, dev.ami, e) /\ q.addr = s.addr /\ Registered(s, q, dev, e, i)
          /\ q = [addr |-> q.addr, ami |-> q.ami, ctrl |-> q.ctrl]

\* DeviceEntryAdd gives the device its entry, the one it has or a free one; an entry with the same
\* address has become its own by then, so the branch that removes another device's is not taken.
LEMMA DeviceEntered ==
    ASSUME NEW s \in Table, RecordsSound(s), EntriesSound(s), NEW dev, dev.ami \in Devices,
           \A x \in Devices : s.addr[x] = dev.addr <=> x = dev.ami
    PROVE  AddOutcome(s, dev, DeviceEntryAdd(s, dev, TRUE))
<1> DEFINE d == dev.ami
           byAddr == EntryLookup(s, dev.addr)
           old == EntryLookupAMI(s, d)
           e == IF old # 0 THEN old ELSE EntryNew(s)
           p == [s EXCEPT !.ami[e] = d]
<1>1. byAddr # 0 => s.ami[byAddr] = d
  <2>1. byAddr # 0 => byAddr \in {i \in Indices : s.ami[i] # Nobody /\ s.addr[s.ami[i]] = dev.addr}
    BY FirstIn DEF EntryLookup
  <2>2. QED
    BY <2>1, Shape, NobodyAssumption
<1>2. old \in Indices \cup {0} /\ (old # 0 => s.ami[old] = d) /\ (old = 0 => \A x \in Indices : s.ami[x] # d)
  <2>1. old \in {i \in Indices : s.ami[i] = d} \cup {0} /\ (old = 0 <=> {i \in Indices : s.ami[i] = d} = {})
    BY FirstIn DEF EntryLookupAMI
  <2>2. QED
    BY <2>1
<1>3. EntryNew(s) \in Indices \cup {0} /\ (EntryNew(s) # 0 => s.ami[EntryNew(s)] = Nobody)
  <2>1. EntryNew(s) \in {i \in Indices : s.ami[i] = Nobody} \cup {0}
    BY FirstIn DEF EntryNew
  <2>2. 0 \notin Indices
    BY SizeAssumption DEF Indices
  <2>3. QED
    BY <2>1, <2>2
<1>4. e # 0 => /\ e \in Indices /\ s.ami[e] \in {Nobody, d} /\ \A x \in Indices : s.ami[x] = d => x = e
  BY <1>2, <1>3, NobodyAssumption DEF EntriesSound
<1>5. e # 0 => p.ami = [s.ami EXCEPT ![e] = d] /\ p.addr = s.addr /\ p.ctrl = s.ctrl
               /\ p = [addr |-> p.addr, ami |-> p.ami, ctrl |-> p.ctrl]
  BY Shape DEF Table
<1>6. AddrMgrUpdate(p, d, dev.addr) = p
  BY Shape DEF AddrMgrUpdate, Table
<1>7. DeviceEntryAdd(s, dev, TRUE) =
        IF e = 0 THEN Added(s, 0) ELSE IF old = 0 THEN CtrlAdd(p, dev, e) ELSE CtrlReset(p, dev, e)
  BY <1>1, <1>6 DEF DeviceEntryAdd
<1>8. CASE e = 0
  BY <1>7, <1>8 DEF AddOutcome
<1> HIDE DEF p, e, old, byAddr
<1>9. ASSUME e # 0, NEW i \in Indices, \A j \in Active(s) : s.ctrl[j].entry = e <=> j = i
      PROVE  \E q : /\ CtrlSet(p, dev, e, i) = q
                    /\ Entered(s, q, d, e) /\ q.addr = s.addr /\ Registered(s, q, dev, e, i)
                    /\ q = [addr |-> q.addr, ami |-> q.ami, ctrl |-> q.ctrl]
  <2>1. LET q == CtrlSet(p, dev, e, i) IN
        /\ q.ami = p.ami /\ q.addr = p.addr
        /\ q.ctrl = [s.ctrl EXCEPT ![i] = [state |-> "INIT", entry |-> e, cntr |-> 0,
                                           parent |-> dev.parent, secure |-> dev.secure]]
        /\ q = [addr |-> q.addr, ami |-> q.ami, ctrl |-> q.ctrl]
    BY <1>5, <1>9 DEF CtrlSet
  <2>2. QED
    BY <1>4, <1>5, <1>9, <2>1 DEF Entered, Registered
<1>10. e # 0 => Active(p) = Active(s) /\ Active(p) \subseteq Indices
  BY <1>5 DEF Active
<1> DEFINE n == First(Indices \ Active(p))
<1>11. n \in Indices \cup {0} /\ (n # 0 => n \notin Active(p)) /\ 0 \notin Indices
  <2>1. 0 \notin Indices
    BY SizeAssumption DEF Indices
  <2>2. QED
    BY <2>1, FirstIn
<1>12. CtrlAdd(p, dev, e) = IF n = 0 THEN Added(p, 0) ELSE Added(CtrlSet(p, dev, e, n), n)
  BY DEF CtrlAdd
<1> HIDE DEF n
<1>13. ASSUME e # 0, \A j \in Active(s) : s.ctrl[j].entry # e
       PROVE  \/ CtrlAdd(p, dev, e) = Added(p, 0)
              \/ n \in Indices /\ CtrlAdd(p, dev, e) = Added(CtrlSet(p, dev, e, n), n)
  BY <1>11, <1>12, <1>13
<1>14. ASSUME e # 0
       PROVE  \E f, q :
                 /\ Added(p, 0) = Added(q, 0)
                 /\ Entered(s, q, d, f) /\ q.addr = s.addr /\ q.ctrl = s.ctrl
                 /\ q = [addr |-> q.addr, ami |-> q.ami, ctrl |-> q.ctrl]
  BY <1>4, <1>5, <1>14 DEF Entered
<1>18. ASSUME e # 0, NEW i \in Indices, \A j \in Active(s) : s.ctrl[j].entry = e <=> j = i
       PROVE  \E f, g, q :
                 /\ Added(CtrlSet(p, dev, e, i), i) = Added(q, g)
                 /\ Entered(s, q, d, f) /\ q.addr = s.addr /\ Registered(s, q, dev, f, g)
                 /\ q = [addr |-> q.addr, ami |-> q.ami, ctrl |-> q.ctrl]
  <2>1. e \in Indices
    BY <1>4, <1>18
  <2>2. PICK q : /\ CtrlSet(p, dev, e, i) = q
                 /\ Entered(s, q, d, e) /\ q.addr = s.addr /\ Registered(s, q, dev, e, i)
                 /\ q = [addr |-> q.addr, ami |-> q.ami, ctrl |-> q.ctrl]
    BY <1>9, <1>18
  <2>3. QED
    BY <2>1, <2>2
<1>19. ASSUME e # 0, \A j \in Active(s) : s.ctrl[j].entry # e, DeviceEntryAdd(s, dev, TRUE) = CtrlAdd(p, dev, e)
       PROVE  AddOutcome(s, dev, DeviceEntryAdd(s, dev, TRUE))
  <2>1. CASE CtrlAdd(p, dev, e) = Added(p, 0)
    BY <1>14, <1>19, <2>1 DEF AddOutcome
  <2>2. CASE n \in Indices /\ CtrlAdd(p, dev, e) = Added(CtrlSet(p, dev, e, n), n)
    <3>1. \A j \in Active(s) : s.ctrl[j].entry = e <=> j = n
      BY <1>10, <1>11, <1>19, <2>2
    <3>2. \E f, g, q :
                 /\ Added(CtrlSet(p, dev, e, n), n) = Added(q, g)
                 /\ Entered(s, q, d, f) /\ q.addr = s.addr /\ Registered(s, q, dev, f, g)
                 /\ q = [addr |-> q.addr, ami |-> q.ami, ctrl |-> q.ctrl]
      BY <1>18, <1>19, <2>2, <3>1
    <3>3. DeviceEntryAdd(s, dev, TRUE) = Added(CtrlSet(p, dev, e, n), n)
      BY <1>19, <2>2
    <3>4. QED
      BY <3>2, <3>3 DEF AddOutcome
  <2>3. QED
    BY <1>13, <1>19, <2>1, <2>2
<1>15. CASE e # 0 /\ old = 0
  <2>1. \A j \in Active(s) : s.ctrl[j].entry # e
    <3>1. s.ami[e] = Nobody
      BY <1>3, <1>15 DEF e
    <3>2. QED
      BY <3>1 DEF RecordsSound
  <2>2. QED
    BY <1>7, <1>15, <1>19, <2>1
<1>16. CASE e # 0 /\ old # 0
  <2> DEFINE c == CtrlLookup(p, e)
  <2>1. /\ c \in Indices \cup {0} /\ (c # 0 => c \in Active(s) /\ s.ctrl[c].entry = e)
        /\ (c = 0 => \A j \in Active(s) : s.ctrl[j].entry # e)
    <3>1. {i \in Active(p) : p.ctrl[i].entry = e} \in SUBSET Indices
      BY <1>10, <1>16
    <3>2. c \in {i \in Active(p) : p.ctrl[i].entry = e} \cup {0} /\ (c = 0 => {i \in Active(p) : p.ctrl[i].entry = e} = {})
      BY <3>1, FirstIn DEF CtrlLookup
    <3>3. QED
      BY <1>5, <1>10, <1>16, <3>1, <3>2
  <2>2. CtrlReset(p, dev, e) = IF c # 0 THEN Added(CtrlSet(p, dev, e, c), c) ELSE CtrlAdd(p, dev, e)
    BY DEF CtrlReset
  <2> HIDE DEF c
  <2>3. CASE c # 0
    <3>1. \A j \in Active(s) : s.ctrl[j].entry = e <=> j = c
      BY <2>1, <2>3 DEF RecordsSound
    <3>2. c \in Indices
      BY <2>1, <2>3
    <3>3. \E f, g, q :
                 /\ Added(CtrlSet(p, dev, e, c), c) = Added(q, g)
                 /\ Entered(s, q, d, f) /\ q.addr = s.addr /\ Registered(s, q, dev, f, g)
                 /\ q = [addr |-> q.addr, ami |-> q.ami, ctrl |-> q.ctrl]
      BY <1>16, <1>18, <3>1, <3>2
    <3>4. DeviceEntryAdd(s, dev, TRUE) = Added(CtrlSet(p, dev, e, c), c)
      BY <1>7, <1>16, <2>2, <2>3
    <3>5. QED
      BY <3>3, <3>4 DEF AddOutcome
  <2>4. CASE c = 0
    BY <1>7, <1>16, <1>19, <2>1, <2>2, <2>4
  <2>5. QED
    BY <2>3, <2>4
<1>17. QED
  BY <1>8, <1>15, <1>16

-----------------------------------------------------------------------------
\* A record in use is that of a device.
LEMMA WhoIsThere ==
    ASSUME NEW s \in Table, RecordsSound(s), NEW i \in Active(s)
    PROVE  i \in Indices /\ s.ctrl[i].entry \in Indices /\ Who(s, i) \in Devices
BY Shape, NobodyAssumption DEF Active, RecordsSound, Who

\* The records are those of s.
SameRecords(s, q) ==
    /\ Active(q) = Active(s)
    /\ \A j \in Indices : q.ctrl[j].state = s.ctrl[j].state
    /\ \A j \in Active(s) : Who(q, j) = Who(s, j)

\* The record i is now the one for d and on its way.
TookIn(s, q, d, i) ==
    /\ i \in Indices /\ Active(q) = Active(s) \cup {i} /\ Who(q, i) = d
    /\ q.ctrl[i].state \in {"TK_MASTER", "SKKE_INIT", "SKKE_WAIT"}
    /\ \A j \in Indices \ {i} : q.ctrl[j].state = s.ctrl[j].state
    /\ \A j \in Active(s) \ {i} : Who(q, j) = Who(s, j) /\ Who(s, j) # d
    /\ i \in Active(s) => Who(s, i) = d

\* No device but d has got an entry.
NoOtherEntry(s, q, d) ==
    \A x \in Devices \ {d}, k \in Indices : q.ami[k] = x => s.ami[k] = x

\* An entry without a record keeps the tables in order.
LEMMA EntryOnly ==
    ASSUME NEW s, InOrder(s), NEW d \in Devices, NEW e, NEW q, Entered(s, q, d, e), q.addr = s.addr, q.ctrl = s.ctrl,
           q = [addr |-> q.addr, ami |-> q.ami, ctrl |-> q.ctrl]
    PROVE  InOrder(q) /\ SameRecords(s, q) /\ NoOtherEntry(s, q, d)
<1>1. s \in Table /\ e \in Indices /\ q.ami \in [Indices -> Devices \cup {Nobody}]
  BY Shape DEF InOrder, Entered
<1>2. q \in Table
  <2>1. s.ctrl \in [Indices -> [state : CtrlStates, entry : Indices, cntr : Nat,
                                parent : Parents \cup {Nowhere}, secure : BOOLEAN]]
    BY <1>1 DEF Table
  <2>2. q.ctrl \in [Indices -> [state : CtrlStates, entry : Indices, cntr : Nat,
                                parent : Parents \cup {Nowhere}, secure : BOOLEAN]]
    BY <2>1
  <2>3. q.addr \in [Devices -> Addrs \cup {Nowhere}]
    BY <1>1, Shape
  <2>4. QED
    BY <1>1, <2>2, <2>3 DEF Table
<1>3. \A x \in Indices : q.ami[x] = IF x = e THEN d ELSE s.ami[x]
  BY <1>1, Shape DEF Entered
<1>4. Active(q) = Active(s) /\ Active(s) \subseteq Indices
  BY DEF Active
<1>5. ASSUME NEW j \in Active(s) PROVE Who(q, j) = Who(s, j) /\ Who(s, j) \in Devices
  <2>1. s.ctrl[j].entry \in Indices /\ Who(s, j) \in Devices
    BY <1>1, WhoIsThere DEF InOrder
  <2>2. s.ctrl[j].entry = e => s.ami[e] = d
    BY <1>1, <2>1, NobodyAssumption DEF Who, Entered
  <2>3. QED
    BY <1>3, <2>1, <2>2 DEF Who
<1>6. RecordsSound(q)
  BY <1>4, <1>5, NobodyAssumption DEF InOrder, RecordsSound, Who
<1>7. EntriesSound(q)
  <2>1. ASSUME NEW x \in Indices, NEW y \in Indices, q.ami[x] = q.ami[y], q.ami[x] # Nobody PROVE x = y
    <3>1. x = e => y = e
      BY <1>3, <2>1 DEF Entered
    <3>2. y = e => x = e
      BY <1>3, <2>1 DEF Entered
    <3>3. x # e /\ y # e => x = y
      BY <1>3, <2>1 DEF InOrder, EntriesSound
    <3>4. QED
      BY <3>1, <3>2, <3>3
  <2>2. QED
    BY <2>1 DEF EntriesSound
<1>8. NoOtherEntry(s, q, d)
  BY <1>3 DEF NoOtherEntry
<1>9. QED
  BY <1>2, <1>4, <1>5, <1>6, <1>7, <1>8 DEF InOrder, SameRecords

\* The new record i has gone on to st.
Begun(q, r, dev, e, i, st) ==
    /\ r.addr = q.addr /\ r.ami = q.ami /\ r = [addr |-> r.addr, ami |-> r.ami, ctrl |-> r.ctrl]
    /\ \E c \in Nat : r.ctrl = [q.ctrl EXCEPT ![i] =
                                   [state |-> st, entry |-> e, cntr |-> c,
                                    parent |-> dev.parent, secure |-> dev.secure]]

\* So does an entry whose record is set and has taken its first step.
LEMMA Recorded ==
    ASSUME NEW s, InOrder(s), NEW dev, dev.ami \in Devices, dev.parent \in Parents, dev.secure \in BOOLEAN,
           NEW e, NEW i, NEW q, Entered(s, q, dev.ami, e), q.addr = s.addr, Registered(s, q, dev, e, i),
           NEW r, NEW st \in {"TK_MASTER", "SKKE_INIT", "SKKE_WAIT"}, Begun(q, r, dev, e, i, st)
    PROVE  InOrder(r) /\ TookIn(s, r, dev.ami, i) /\ NoOtherEntry(s, r, dev.ami)
<1>0. PICK c \in Nat : r.ctrl = [q.ctrl EXCEPT ![i] = [state |-> st, entry |-> e, cntr |-> c,
                                                       parent |-> dev.parent, secure |-> dev.secure]]
  BY DEF Begun
<1>a. r.addr = q.addr /\ r.ami = q.ami /\ r = [addr |-> r.addr, ami |-> r.ami, ctrl |-> r.ctrl]
  BY DEF Begun
<1> DEFINE d == dev.ami
           rec == [state |-> st, entry |-> e, cntr |-> c, parent |-> dev.parent, secure |-> dev.secure]
<1>1. s \in Table /\ e \in Indices /\ i \in Indices
  BY DEF InOrder, Entered, Registered
<1>2. rec \in [state : CtrlStates, entry : Indices, cntr : Nat, parent : Parents \cup {Nowhere}, secure : BOOLEAN]
  BY <1>1 DEF CtrlStates
<1>3. rec.state = st /\ rec.entry = e
  OBVIOUS
<1>4. s.ctrl \in [Indices -> [state : CtrlStates, entry : Indices, cntr : Nat,
                              parent : Parents \cup {Nowhere}, secure : BOOLEAN]]
  BY <1>1 DEF Table
<1>5. r.ctrl = [s.ctrl EXCEPT ![i] = rec]
  <2> HIDE DEF rec
  <2>1. r.ctrl = [q.ctrl EXCEPT ![i] = rec]
    BY <1>0 DEF rec
  <2>2. PICK w : q.ctrl = [s.ctrl EXCEPT ![i] = w]
    BY DEF Registered
  <2>3. QED
    BY <1>1, <1>4, <2>1, <2>2
<1> HIDE DEF rec
<1>6. r \in Table
  <2>1. r.ctrl \in [Indices -> [state : CtrlStates, entry : Indices, cntr : Nat,
                                parent : Parents \cup {Nowhere}, secure : BOOLEAN]]
    BY <1>2, <1>4, <1>5
  <2>2. r.addr \in [Devices -> Addrs \cup {Nowhere}] /\ r.ami \in [Indices -> Devices \cup {Nobody}]
    BY <1>1, <1>a, Shape DEF Entered
  <2>3. QED
    BY <1>a, <2>1, <2>2 DEF Table
<1>7. \A x \in Indices : r.ami[x] = IF x = e THEN d ELSE s.ami[x]
  BY <1>1, <1>a, Shape DEF Entered
<1>8. \A j \in Indices : r.ctrl[j] = IF j = i THEN rec ELSE s.ctrl[j]
  BY <1>1, <1>4, <1>5
<1>9. Active(r) = Active(s) \cup {i} /\ Active(s) \subseteq Indices
  BY <1>1, <1>3, <1>8 DEF Active
<1>10. Who(r, i) = d
  BY <1>1, <1>3, <1>7, <1>8 DEF Who
<1>11. ASSUME NEW j \in Active(s) \ {i}
       PROVE  /\ Who(r, j) = Who(s, j) /\ Who(s, j) # d /\ Who(s, j) \in Devices
              /\ r.ctrl[j].entry = s.ctrl[j].entry /\ s.ctrl[j].entry # e
  <2>1. j \in Indices /\ s.ctrl[j].entry \in Indices /\ Who(s, j) \in Devices
    BY <1>1, WhoIsThere DEF InOrder
  <2>2. s.ctrl[j].entry # e
    BY DEF Registered
  <2>3. s.ami[s.ctrl[j].entry] # d
    BY <2>1, <2>2 DEF Entered
  <2>4. QED
    BY <1>7, <1>8, <2>1, <2>2, <2>3 DEF Who
<1>12. RecordsSound(r)
  <2>1. ASSUME NEW j \in Active(r) PROVE r.ami[r.ctrl[j].entry] # Nobody
    <3>1. CASE j = i
      BY <1>10, <3>1, NobodyAssumption DEF Who
    <3>2. CASE j # i
      BY <1>9, <1>11, <3>2, NobodyAssumption DEF Who
    <3>3. QED
      BY <3>1, <3>2
  <2>2. ASSUME NEW j \in Active(r), NEW k \in Active(r), r.ctrl[k].entry = r.ctrl[j].entry PROVE k = j
    <3>1. r.ctrl[i].entry = e
      BY <1>1, <1>3, <1>8
    <3>2. CASE j = i \/ k = i
      BY <1>9, <1>11, <2>2, <3>1, <3>2
    <3>3. CASE j # i /\ k # i
      <4>1. j \in Active(s) /\ k \in Active(s) /\ s.ctrl[k].entry = s.ctrl[j].entry
        BY <1>9, <1>11, <2>2, <3>3
      <4>2. QED
        BY <4>1 DEF InOrder, RecordsSound
    <3>4. QED
      BY <3>2, <3>3
  <2>3. QED
    BY <2>1, <2>2 DEF RecordsSound
<1>13. EntriesSound(r)
  <2>1. ASSUME NEW x \in Indices, NEW y \in Indices, r.ami[x] = r.ami[y], r.ami[x] # Nobody PROVE x = y
    <3>1. x = e => y = e
      BY <1>7, <2>1 DEF Entered
    <3>2. y = e => x = e
      BY <1>7, <2>1 DEF Entered
    <3>3. x # e /\ y # e => x = y
      BY <1>7, <2>1 DEF InOrder, EntriesSound
    <3>4. QED
      BY <3>1, <3>2, <3>3
  <2>2. QED
    BY <2>1 DEF EntriesSound
<1>14. \A j \in Indices : r.ctrl[j].state # "INIT"
  BY <1>3, <1>8 DEF InOrder
<1>15. NoOtherEntry(s, r, d)
  BY <1>7 DEF NoOtherEntry
<1>16. \A j \in Indices \ {i} : r.ctrl[j].state = s.ctrl[j].state
  BY <1>8
<1>17. r.ctrl[i].state = st
  BY <1>1, <1>3, <1>8
<1>18. TookIn(s, r, d, i)
  <2>1. ASSUME i \in Active(s) PROVE Who(s, i) = d
    <3>1. s.ctrl[i].entry = e /\ s.ami[e] # Nobody
      BY <2>1 DEF Registered, InOrder, RecordsSound
    <3>2. QED
      BY <3>1 DEF Entered, Who
  <2>2. QED
    BY <1>1, <1>9, <1>10, <1>11, <1>16, <1>17, <2>1 DEF TookIn
<1>19. QED
  BY <1>6, <1>12, <1>13, <1>14, <1>15, <1>18 DEF InOrder

-----------------------------------------------------------------------------
(* The handler of a record. *)

\* The record i with another state and counter.
Restated(s, i, to, n) ==
    [s EXCEPT !.ctrl[i] = [state |-> to, entry |-> s.ctrl[i].entry, cntr |-> n,
                           parent |-> s.ctrl[i].parent, secure |-> s.ctrl[i].secure]]

WithState(s, i, to) == [s EXCEPT !.ctrl[i].state = to]
WithBoth(s, i, to, n) == [s EXCEPT !.ctrl[i].state = to, !.ctrl[i].cntr = n]
StateOf(s, i) == s.ctrl[i].state

\* What the assignments to two fields of a record come to.
LEMMA RestatedIs ==
    ASSUME NEW s \in Table, NEW i \in Indices, NEW to, NEW n
    PROVE  /\ WithBoth(s, i, to, n) = Restated(s, i, to, n)
           /\ WithState(s, i, to) = Restated(s, i, to, s.ctrl[i].cntr)
           /\ StateOf(Restated(s, i, to, n), i) = to
<1> DEFINE w == s.ctrl[i]
<1>1. /\ s.ctrl = [k \in Indices |-> s.ctrl[k]]
      /\ w = [state |-> w.state, entry |-> w.entry, cntr |-> w.cntr, parent |-> w.parent, secure |-> w.secure]
  BY DEF Table
<1>2. [w EXCEPT !.state = to] = [state |-> to, entry |-> w.entry, cntr |-> w.cntr, parent |-> w.parent, secure |-> w.secure]
  BY <1>1
<1>3. [w EXCEPT !.state = to, !.cntr = n] = [state |-> to, entry |-> w.entry, cntr |-> n, parent |-> w.parent, secure |-> w.secure]
  <2> DEFINE w1 == [w EXCEPT !.state = to]
  <2>1. [w EXCEPT !.state = to, !.cntr = n] = [w1 EXCEPT !.cntr = n]
    OBVIOUS
  <2>2. /\ w1 = [state |-> w1.state, entry |-> w1.entry, cntr |-> w1.cntr, parent |-> w1.parent, secure |-> w1.secure]
        /\ w1.state = to /\ w1.entry = w.entry /\ w1.parent = w.parent /\ w1.secure = w.secure
    BY <1>2
  <2> HIDE DEF w1
  <2>3. [w1 EXCEPT !.cntr = n] = [state |-> to, entry |-> w.entry, cntr |-> n, parent |-> w.parent, secure |-> w.secure]
    BY <2>2
  <2>4. QED
    BY <2>1, <2>3
<1>4. [s EXCEPT !.ctrl[i].state = to] = [s EXCEPT !.ctrl = [@ EXCEPT ![i] = [w EXCEPT !.state = to]]]
  OBVIOUS
<1>5. [s EXCEPT !.ctrl[i].state = to, !.ctrl[i].cntr = n] = [s EXCEPT !.ctrl = [@ EXCEPT ![i] = [w EXCEPT !.state = to, !.cntr = n]]]
  BY <1>1 DEF Table
<1>6. QED
  BY <1>1, <1>2, <1>3, <1>4, <1>5 DEF Restated, Table, WithBoth, WithState, StateOf

\* They leave the entries and the other records alone.
LEMMA OthersSame ==
    ASSUME NEW s \in Table, NEW i \in Indices, NEW to \in CtrlStates, NEW n \in Nat,
           NEW q, q = Restated(s, i, to, n)
    PROVE  /\ q \in Table /\ q.ami = s.ami /\ q.addr = s.addr
           /\ \A j \in Indices : /\ q.ctrl[j].entry = s.ctrl[j].entry
                                /\ q.ctrl[j].state = IF j = i THEN to ELSE s.ctrl[j].state
<1>1. /\ s.ctrl \in [Indices -> [state : CtrlStates, entry : Indices, cntr : Nat,
                              parent : Parents \cup {Nowhere}, secure : BOOLEAN]]
      /\ s = [addr |-> s.addr, ami |-> s.ami, ctrl |-> s.ctrl]
  BY Shape DEF Table
<1> DEFINE w == [state |-> to, entry |-> s.ctrl[i].entry, cntr |-> n,
                 parent |-> s.ctrl[i].parent, secure |-> s.ctrl[i].secure]
<1>2. /\ w \in [state : CtrlStates, entry : Indices, cntr : Nat, parent : Parents \cup {Nowhere}, secure : BOOLEAN]
      /\ w.state = to /\ w.entry = s.ctrl[i].entry
  BY <1>1
<1>3. q = [s EXCEPT !.ctrl[i] = w]
  BY DEF Restated
<1> HIDE DEF w
<1>4. q.ctrl = [s.ctrl EXCEPT ![i] = w] /\ q.ami = s.ami /\ q.addr = s.addr /\ q = [addr |-> q.addr, ami |-> q.ami, ctrl |-> q.ctrl]
  BY <1>1, <1>3
<1>5. q \in Table
  BY <1>1, <1>2, <1>4 DEF Table
<1>6. QED
  BY <1>1, <1>2, <1>4, <1>5

\* ... and the fields they do not name.
LEMMA RecordMoved ==
    ASSUME NEW s \in Table, NEW i \in Indices, NEW to \in CtrlStates, NEW n \in Nat,
           NEW q, q = Restated(s, i, to, n)
    PROVE  /\ q.ctrl = [s.ctrl EXCEPT ![i] = [state |-> to, entry |-> s.ctrl[i].entry, cntr |-> n,
                           parent |-> s.ctrl[i].parent, secure |-> s.ctrl[i].secure]]
           /\ q = [addr |-> q.addr, ami |-> q.ami, ctrl |-> q.ctrl]
<1>1. s = [addr |-> s.addr, ami |-> s.ami, ctrl |-> s.ctrl]
  BY Shape
<1> DEFINE w == [state |-> to, entry |-> s.ctrl[i].entry, cntr |-> n,
                 parent |-> s.ctrl[i].parent, secure |-> s.ctrl[i].secure]
<1>2. q = [s EXCEPT !.ctrl[i] = w]
  BY DEF Restated
<1> HIDE DEF w
<1>3. q.ctrl = [s.ctrl EXCEPT ![i] = w] /\ q = [addr |-> q.addr, ami |-> q.ami, ctrl |-> q.ctrl]
  BY <1>1, <1>2
<1>4. QED
  BY <1>3 DEF w

\* What a step of a record for d does.
Moved(from, to, d) ==
    \/ from = "TK_MASTER" /\ to \in {"TK_MASTER", "SKKE_INIT"} /\ keyed' = keyed
    \/ from = "SKKE_INIT" /\ to \in {"SKKE_INIT", "SKKE_WAIT"} /\ keyed' = keyed
    \/ from = "SKKE_WAIT" /\ to = "SKKE_WAIT" /\ keyed' = keyed
    \/ from = "SKKE_FAIL" /\ to = "NONE" /\ keyed' = keyed
    \/ from = "TK_NWK" /\ to = "TK_NWK" /\ keyed' = keyed
    \/ from = "TK_NWK" /\ to = "NONE" /\ keyed' = keyed \cup {d}

\* ZDSecMgrDeviceCtrlHandler moves its record along the protocol or leaves it, and starts the timer
\* unless it has released it.
LEMMA Handled ==
    ASSUME NEW s \in Table, NEW i \in Active(s), s.ctrl[i].state # "INIT", NEW others, CtrlHandler(s, i, others),
           secTrouble \in Nat
    PROVE  \E to \in CtrlStates, n \in Nat :
              /\ t' = Restated(s, i, to, n)
              /\ Moved(s.ctrl[i].state, to, Who(s, i))
              /\ secTimers' = others \cup IF to # "NONE" THEN {"SECMGR"} ELSE {}
              /\ slot' \in {slot, Who(s, i)} /\ secTrouble' \in Nat
<1>1. i \in Indices /\ s.ctrl[i].state \in CtrlStates \ {"NONE", "INIT"} /\ s.ctrl[i].cntr \in Nat
  BY Shape DEF Active
<1> DEFINE from == s.ctrl[i].state
           d == Who(s, i)
<1>2. PICK ok \in BOOLEAN :
        /\ CASE from = "TK_MASTER" -> SendMasterKey(ok) /\ UNCHANGED <<slot, keyed>>
             [] from = "SKKE_INIT" -> EstablishKey(ok, d) /\ UNCHANGED keyed
             [] from = "TK_NWK" -> SendNwkKey(ok, d) /\ UNCHANGED slot
             [] OTHER -> ok /\ UNCHANGED <<slot, keyed, secTrouble>>
        /\ t' = Stepped(s, i, ok)
        /\ secTimers' = others \cup IF t'.ctrl[i].state # "NONE" THEN {"SECMGR"} ELSE {}
  BY DEF CtrlHandler, Who
<1> DEFINE next == CASE from = "TK_MASTER" /\ ok -> "SKKE_INIT"
                     [] from = "SKKE_INIT" /\ ok -> "SKKE_WAIT"
                     [] from = "SKKE_WAIT" -> from
                     [] from \in {"TK_MASTER", "SKKE_INIT", "TK_NWK"} /\ ~ok -> from
                     [] OTHER -> "NONE"
<1>3. t' = IF next = "NONE" THEN CtrlRelease(s, i)
                            ELSE [s EXCEPT !.ctrl[i].state = next, !.ctrl[i].cntr = 1]
  BY <1>2 DEF Stepped
<1>4. secTrouble' \in Nat /\ slot' \in {slot, d}
  <2>1. ASSUME NEW b \in BOOLEAN, Send(b) PROVE secTrouble' \in Nat
    BY <2>1 DEF Send
  <2>2. CASE from = "TK_MASTER"
    BY <1>2, <2>1, <2>2 DEF SendMasterKey
  <2>3. CASE from = "SKKE_INIT"
    <3>1. EstablishKey(ok, d)
      BY <1>2, <2>3
    <3>2. QED
      BY <2>1, <3>1 DEF EstablishKey
  <2>4. CASE from = "TK_NWK"
    BY <1>2, <2>1, <2>4 DEF SendNwkKey
  <2>5. CASE from \notin {"TK_MASTER", "SKKE_INIT", "TK_NWK"}
    BY <1>2, <2>5
  <2>6. QED
    BY <2>2, <2>3, <2>4, <2>5
<1>5. Moved(from, next, d) /\ next \in CtrlStates
  <2>1. CASE from = "TK_MASTER"
    <3>1. next = IF ok THEN "SKKE_INIT" ELSE from
      BY <2>1
    <3>2. QED
      BY <1>2, <2>1, <3>1 DEF Moved, CtrlStates
  <2>2. CASE from = "SKKE_INIT"
    <3>1. next = IF ok THEN "SKKE_WAIT" ELSE from
      BY <2>2
    <3>2. QED
      BY <1>2, <2>2, <3>1 DEF Moved, CtrlStates
  <2>3. CASE from = "TK_NWK"
    <3>1. next = IF ok THEN "NONE" ELSE from
      BY <2>3
    <3>2. QED
      BY <1>2, <2>3, <3>1 DEF Moved, CtrlStates, SendNwkKey
  <2>4. CASE from = "SKKE_WAIT"
    <3>1. next = from
      BY <2>4
    <3>2. QED
      BY <1>2, <2>4, <3>1 DEF Moved, CtrlStates
  <2>5. CASE from = "SKKE_FAIL"
    <3>1. next = "NONE"
      BY <2>5
    <3>2. QED
      BY <1>2, <2>5, <3>1 DEF Moved, CtrlStates
  <2>6. QED
    BY <1>1, <2>1, <2>2, <2>3, <2>4, <2>5 DEF CtrlStates
<1> HIDE DEF next, d, from
<1>6. CASE next = "NONE"
  <2>1. t' = WithState(s, i, next)
    BY <1>3, <1>6 DEF CtrlRelease, WithState
  <2>2. t' = Restated(s, i, next, s.ctrl[i].cntr) /\ StateOf(t', i) = next
    BY <1>1, <2>1, RestatedIs
  <2>3. t'.ctrl[i].state = next
    BY <2>2 DEF StateOf
  <2>4. QED
    BY <1>1, <1>2, <1>4, <1>5, <2>2, <2>3 DEF from, d
<1>7. CASE next # "NONE"
  <2>1. t' = WithBoth(s, i, next, 1)
    BY <1>3, <1>7 DEF WithBoth
  <2>2. t' = Restated(s, i, next, 1) /\ StateOf(t', i) = next
    BY <1>1, <2>1, RestatedIs
  <2>3. t'.ctrl[i].state = next
    BY <2>2 DEF StateOf
  <2>4. QED
    BY <1>1, <1>2, <1>4, <1>5, <2>2, <2>3 DEF from, d
<1>8. QED
  BY <1>6, <1>7

-----------------------------------------------------------------------------
(* A device joins. *)

\* A record that is set up takes its first step at once, and waits for its next.
LEMMA SetUp ==
    ASSUME NEW s, InOrder(s), NEW dev, dev.ami \in Devices, dev.parent \in Parents, dev.secure \in BOOLEAN,
           NEW e, NEW i, NEW q, Entered(s, q, dev.ami, e), q.addr = s.addr, Registered(s, q, dev, e, i),
           q = [addr |-> q.addr, ami |-> q.ami, ctrl |-> q.ctrl],
           NEW running, CtrlSetup(q, i, running), secTrouble \in Nat
    PROVE  /\ InOrder(t') /\ TookIn(s, t', dev.ami, i) /\ NoOtherEntry(s, t', dev.ami)
           /\ secTimers' = running \cup {"SECMGR"} /\ keyed' = keyed
           /\ slot' \in {slot, dev.ami} /\ secTrouble' \in Nat
<1> DEFINE rec == [state |-> "INIT", entry |-> e, cntr |-> 0, parent |-> dev.parent, secure |-> dev.secure]
           st == IF q.ctrl[i].secure THEN "SKKE_INIT" ELSE "TK_MASTER"
           q2 == WithState(q, i, st)
<1>1. s \in Table /\ e \in Indices /\ i \in Indices
  BY DEF InOrder, Entered, Registered
<1>2. q \in Table /\ q.ctrl[i] = rec
  <2>1. rec \in [state : CtrlStates, entry : Indices, cntr : Nat, parent : Parents \cup {Nowhere}, secure : BOOLEAN]
    BY <1>1 DEF CtrlStates
  <2>2. s.ctrl \in [Indices -> [state : CtrlStates, entry : Indices, cntr : Nat,
                              parent : Parents \cup {Nowhere}, secure : BOOLEAN]]
    BY <1>1 DEF Table
  <2>3. q.ctrl = [s.ctrl EXCEPT ![i] = rec]
    BY DEF Registered
  <2> HIDE DEF rec
  <2>4. /\ q.ctrl \in [Indices -> [state : CtrlStates, entry : Indices, cntr : Nat,
                              parent : Parents \cup {Nowhere}, secure : BOOLEAN]]
        /\ q.ctrl[i] = rec
    BY <1>1, <2>1, <2>2, <2>3
  <2>5. q.addr \in [Devices -> Addrs \cup {Nowhere}] /\ q.ami \in [Indices -> Devices \cup {Nobody}]
    BY <1>1, Shape DEF Entered
  <2>6. QED
    BY <2>4, <2>5 DEF Table
<1>3. q2 = Restated(q, i, st, 0)
  BY <1>1, <1>2, RestatedIs
<1>4. st \in {"TK_MASTER", "SKKE_INIT"} /\ st \in CtrlStates
  BY DEF CtrlStates
<1>5. CtrlHandler(q2, i, running)
  BY DEF CtrlSetup, WithState
<1> HIDE DEF q2, st
<1>6. /\ q2 \in Table /\ q2.ami = q.ami /\ q2.addr = q.addr
      /\ \A j \in Indices : q2.ctrl[j].entry = q.ctrl[j].entry /\ q2.ctrl[j].state = IF j = i THEN st ELSE q.ctrl[j].state
      /\ q2.ctrl = [q.ctrl EXCEPT ![i] = [state |-> st, entry |-> q.ctrl[i].entry, cntr |-> 0,
                           parent |-> q.ctrl[i].parent, secure |-> q.ctrl[i].secure]]
  <2>1. q \in Table /\ i \in Indices /\ st \in CtrlStates /\ 0 \in Nat
    BY <1>1, <1>2, <1>4
  <2>2. /\ q2 \in Table /\ q2.ami = q.ami /\ q2.addr = q.addr
        /\ \A j \in Indices : /\ q2.ctrl[j].entry = q.ctrl[j].entry
                             /\ q2.ctrl[j].state = IF j = i THEN st ELSE q.ctrl[j].state
    BY <1>3, <2>1, OthersSame
  <2>3. q2.ctrl = [q.ctrl EXCEPT ![i] = [state |-> st, entry |-> q.ctrl[i].entry, cntr |-> 0,
                           parent |-> q.ctrl[i].parent, secure |-> q.ctrl[i].secure]]
    BY <1>3, <2>1, RecordMoved
  <2>4. QED
    BY <2>2, <2>3
<1>7. i \in Active(q2) /\ q2.ctrl[i].state = st /\ st # "INIT" /\ Who(q2, i) = dev.ami
  <2>1. q.ami[e] = dev.ami
    BY <1>1, Shape DEF Entered
  <2>2. QED
    BY <1>1, <1>2, <1>4, <1>6, <2>1 DEF Active, Who
<1>8. PICK to \in CtrlStates, n \in Nat :
              /\ t' = Restated(q2, i, to, n)
              /\ Moved(st, to, dev.ami)
              /\ secTimers' = running \cup IF to # "NONE" THEN {"SECMGR"} ELSE {}
              /\ slot' \in {slot, dev.ami} /\ secTrouble' \in Nat
  <2>1. q2.ctrl[i].state # "INIT"
    BY <1>7
  <2>2. \E to \in CtrlStates, n \in Nat :
              /\ t' = Restated(q2, i, to, n)
              /\ Moved(q2.ctrl[i].state, to, Who(q2, i))
              /\ secTimers' = running \cup IF to # "NONE" THEN {"SECMGR"} ELSE {}
              /\ slot' \in {slot, Who(q2, i)} /\ secTrouble' \in Nat
    BY <1>5, <1>6, <1>7, <2>1, Handled
  <2>3. QED
    BY <1>7, <2>2
<1>9. to \in {"TK_MASTER", "SKKE_INIT", "SKKE_WAIT"} /\ keyed' = keyed
  BY <1>4, <1>8 DEF Moved
<1>10. /\ t'.ami = q2.ami /\ t'.addr = q2.addr
       /\ t'.ctrl = [q2.ctrl EXCEPT ![i] = [state |-> to, entry |-> q2.ctrl[i].entry, cntr |-> n,
                           parent |-> q2.ctrl[i].parent, secure |-> q2.ctrl[i].secure]]
       /\ t' = [addr |-> t'.addr, ami |-> t'.ami, ctrl |-> t'.ctrl]
  <2>1. q2 \in Table /\ i \in Indices /\ to \in CtrlStates /\ n \in Nat /\ t' = Restated(q2, i, to, n)
    BY <1>1, <1>6, <1>8
  <2> HIDE <1>6, <1>8
  <2>2. t'.ami = q2.ami /\ t'.addr = q2.addr
    BY <2>1, OthersSame
  <2>3. /\ t'.ctrl = [q2.ctrl EXCEPT ![i] = [state |-> to, entry |-> q2.ctrl[i].entry, cntr |-> n,
                           parent |-> q2.ctrl[i].parent, secure |-> q2.ctrl[i].secure]]
        /\ t' = [addr |-> t'.addr, ami |-> t'.ami, ctrl |-> t'.ctrl]
    BY <2>1, RecordMoved
  <2>4. QED
    BY <2>2, <2>3
<1>11. t'.ctrl = [q.ctrl EXCEPT ![i] = [state |-> to, entry |-> e, cntr |-> n, parent |-> dev.parent, secure |-> dev.secure]]
  <2> DEFINE w == [state |-> st, entry |-> e, cntr |-> 0, parent |-> dev.parent, secure |-> dev.secure]
             v == [state |-> to, entry |-> e, cntr |-> n, parent |-> dev.parent, secure |-> dev.secure]
  <2>1. q2.ctrl = [q.ctrl EXCEPT ![i] = w]
    BY <1>2, <1>6
  <2>2. q.ctrl \in [Indices -> [state : CtrlStates, entry : Indices, cntr : Nat,
                              parent : Parents \cup {Nowhere}, secure : BOOLEAN]]
    BY <1>2 DEF Table
  <2>3. w.entry = e /\ w.parent = dev.parent /\ w.secure = dev.secure
    OBVIOUS
  <2> HIDE DEF w
  <2>4. q2.ctrl[i] = w
    BY <1>1, <2>1, <2>2
  <2>5. t'.ctrl = [q2.ctrl EXCEPT ![i] = v]
    BY <1>10, <2>3, <2>4
  <2> HIDE DEF v
  <2>6. t'.ctrl = [q.ctrl EXCEPT ![i] = v]
    BY <1>1, <2>1, <2>2, <2>5
  <2>7. QED
    BY <2>6 DEF v
<1>12. t'.ami = q.ami /\ t'.addr = q.addr
  BY <1>6, <1>10
<1>13. InOrder(t') /\ TookIn(s, t', dev.ami, i) /\ NoOtherEntry(s, t', dev.ami)
  <2>1. Begun(q, t', dev, e, i, to)
    BY <1>8, <1>10, <1>11, <1>12 DEF Begun
  <2>2. QED
    BY <1>9, <2>1, Recorded
<1>14. QED
  BY <1>8, <1>9, <1>13

\* The records of another table, but the same entries or one more for d.
SameOr(d) == InOrder(t') /\ SameRecords(t, t') /\ NoOtherEntry(t, t', d)

Refused(d, running) ==
    /\ SameOr(d) /\ secTimers' = running
    /\ done' = done /\ crossed' = crossed /\ keyed' = keyed

TakenIn(d, running) ==
    /\ secMode = "high" /\ InOrder(t') /\ NoOtherEntry(t, t', d)
    /\ \E i : TookIn(t, t', d, i)
    /\ secTimers' = running \cup {"SECMGR"} /\ keyed' = keyed
    /\ done' = done \ {d}
    /\ crossed' = IF Confirmed(d) THEN crossed \cup {d} ELSE crossed \ {d}

SentKey(d, sent, running) ==
    /\ SameOr(d) /\ secTimers' = running /\ done' = done /\ crossed' = crossed
    /\ keyed' = IF sent THEN keyed \cup {d} ELSE keyed

\* Changes of addresses and counters alone matter to nobody.
LEMMA SameTable ==
    ASSUME NEW s, InOrder(s), NEW q, q \in Table, q.ami = s.ami,
           \A j \in Indices : q.ctrl[j].entry = s.ctrl[j].entry /\ q.ctrl[j].state = s.ctrl[j].state
    PROVE  InOrder(q) /\ SameRecords(s, q) /\ \A d : NoOtherEntry(s, q, d)
<1>1. Active(q) = Active(s) /\ Active(s) \subseteq Indices
  BY DEF Active
<1>2. RecordsSound(q) /\ EntriesSound(q)
  BY <1>1 DEF InOrder, RecordsSound, EntriesSound
<1>3. SameRecords(s, q)
  BY <1>1 DEF SameRecords, Who
<1>4. QED
  BY <1>2, <1>3 DEF InOrder, NoOtherEntry

\* The list of master keys stays within its bounds.
LEMMA MasterLoaded ==
    ASSUME NEW S, S \subseteq Devices, IsFiniteSet(S), Cardinality(S) <= Size, NEW d \in Devices
    PROVE  LET T == IF Cardinality(S) < Size THEN S \cup {d} ELSE S IN
           T \subseteq Devices /\ IsFiniteSet(T) /\ Cardinality(T) <= Size
<1>1. IsFiniteSet(S \cup {d}) /\ Cardinality(S \cup {d}) \in {Cardinality(S), Cardinality(S) + 1}
  BY FS_AddElement
<1>2. Cardinality(S) \in Nat /\ Size \in Nat
  BY FS_CardinalityType, SizeAssumption
<1>3. QED
  BY <1>1, <1>2

\* ZDSecMgrDeviceJoin ends in one of three ways, which the status tells.
LEMMA Joined ==
    ASSUME SecIInv, NEW dev, dev.ami \in Devices, dev.addr \in Addrs, dev.parent \in Parents, dev.secure \in BOOLEAN,
           NEW status, NEW running, DeviceJoin(dev, status, running)
    PROVE  /\ MastersTyped' /\ slot' \in {slot, dev.ami} /\ secTrouble' \in Nat
           /\ \/ status = "unknown" /\ Refused(dev.ami, running)
              \/ status = "success" /\ TakenIn(dev.ami, running)
              \/ status # "unknown" /\ secMode = "standard" /\ SentKey(dev.ami, status = "success", running)
<1> DEFINE d == dev.ami
<1>1. PICK r \in DeviceValidate(dev) :
        /\ masters' = IF secMode = "high" /\ permit THEN MasterKeyLoad(dev.ami) ELSE masters
        /\ IF r.ctrl = 0
              THEN /\ status = "unknown"
                   /\ t' = r.table /\ secTimers' = running
                   /\ UNCHANGED <<slot, done, crossed, keyed, secTrouble>>
           ELSE IF secMode = "high"
              THEN /\ status = "success" /\ done' = done \ {dev.ami}
                   /\ crossed' = IF Confirmed(dev.ami) THEN crossed \cup {dev.ami}
                                                     ELSE crossed \ {dev.ami}
                   /\ CtrlSetup(r.table, r.ctrl, running)
           ELSE    /\ t' = r.table /\ secTimers' = running
                   /\ SendNwkKey(status = "success", dev.ami)
                   /\ status # "unknown"
                   /\ UNCHANGED <<slot, done, crossed>>
  BY DEF DeviceJoin
<1>2. /\ t \in Table /\ InOrder(t) /\ RecordsSound(t) /\ EntriesSound(t) /\ secTrouble \in Nat
      /\ secMode \in {"high", "standard"} /\ MastersTyped
  BY DEF SecIInv, InOrder, PlainTyped
<1>3. MastersTyped'
  BY <1>1, <1>2, MasterLoaded DEF MastersTyped, MasterKeyLoad
<1> DEFINE u == AddrStore(t, dev.addr, d)
<1>4. u \in Table /\ u.ami = t.ami /\ u.ctrl = t.ctrl /\ \A x \in Devices : u.addr[x] = dev.addr <=> x = d
  BY <1>2, AddrStored
<1> HIDE DEF u
<1>5. InOrder(u) /\ SameRecords(t, u) /\ \A x : NoOtherEntry(t, u, x)
  BY <1>2, <1>4, SameTable
<1>6. InOrder(t) /\ SameRecords(t, t) /\ \A x : NoOtherEntry(t, t, x)
  BY <1>2, SameTable
<1>7. r = Added(t, 0) \/ (secMode = "high" /\ r = DeviceEntryAdd(u, dev, TRUE)) \/ (secMode = "standard" /\ r = Added(u, 1))
  BY <1>1, <1>2 DEF DeviceValidate, ValidateCM, ValidateRM, u
<1>8. \A q, i : Added(q, i).table = q /\ Added(q, i).ctrl = i
  BY DEF Added
<1>9. 0 \notin Indices
  BY SizeAssumption DEF Indices
<1>10. ASSUME r.ctrl = 0, InOrder(r.table), SameRecords(t, r.table), NoOtherEntry(t, r.table, d)
       PROVE  slot' \in {slot, d} /\ secTrouble' \in Nat /\ status = "unknown" /\ Refused(d, running)
  <2>1. /\ status = "unknown" /\ t' = r.table /\ secTimers' = running
        /\ slot' = slot /\ done' = done /\ crossed' = crossed /\ keyed' = keyed /\ secTrouble' = secTrouble
    BY <1>1, <1>10
  <2>2. QED
    BY <1>2, <1>10, <2>1 DEF Refused, SameOr
<1>11. CASE r = Added(t, 0)
  BY <1>3, <1>6, <1>8, <1>10, <1>11
<1>12. CASE secMode = "standard" /\ r = Added(u, 1)
  <2>1. r.ctrl # 0 /\ r.table = u
    BY <1>8, <1>12
  <2>2. /\ t' = u /\ secTimers' = running
        /\ SendNwkKey(status = "success", d)
        /\ status # "unknown"
        /\ slot' = slot /\ done' = done /\ crossed' = crossed
    BY <1>1, <1>12, <2>1
  <2>3. secTrouble' \in Nat /\ keyed' = IF status = "success" THEN keyed \cup {d} ELSE keyed
    BY <1>2, <2>2 DEF SendNwkKey, Send
  <2>4. SentKey(d, status = "success", running)
    BY <1>5, <2>2, <2>3 DEF SentKey, SameOr
  <2>5. QED
    BY <1>3, <1>12, <2>2, <2>3, <2>4
<1>13. CASE secMode = "high" /\ r = DeviceEntryAdd(u, dev, TRUE)
  <2>1. \/ r = Added(u, 0)
        \/ \E e, q :
                 /\ r = Added(q, 0)
                 /\ Entered(u, q, d, e) /\ q.addr = u.addr /\ q.ctrl = u.ctrl
                 /\ q = [addr |-> q.addr, ami |-> q.ami, ctrl |-> q.ctrl]
        \/ \E e, i, q :
                 /\ r = Added(q, i)
                 /\ Entered(u, q, d, e) /\ q.addr = u.addr /\ Registered(u, q, dev, e, i)
                 /\ q = [addr |-> q.addr, ami |-> q.ami, ctrl |-> q.ctrl]
    <3>1. u \in Table /\ RecordsSound(u) /\ EntriesSound(u) /\ d \in Devices
      BY <1>4, <1>5 DEF InOrder
    <3>2. AddOutcome(u, dev, DeviceEntryAdd(u, dev, TRUE))
      BY <1>4, <3>1, DeviceEntered
    <3>3. QED
      BY <1>13, <3>2 DEF AddOutcome
  <2>2. CASE r = Added(u, 0)
    BY <1>3, <1>5, <1>8, <1>10, <2>2
  <2>3. CASE \E e, q :
                 /\ r = Added(q, 0)
                 /\ Entered(u, q, d, e) /\ q.addr = u.addr /\ q.ctrl = u.ctrl
                 /\ q = [addr |-> q.addr, ami |-> q.ami, ctrl |-> q.ctrl]
    <3>1. PICK e, q :
                 /\ r = Added(q, 0)
                 /\ Entered(u, q, d, e) /\ q.addr = u.addr /\ q.ctrl = u.ctrl
                 /\ q = [addr |-> q.addr, ami |-> q.ami, ctrl |-> q.ctrl]
      BY <2>3
    <3>2. InOrder(q) /\ SameRecords(u, q) /\ NoOtherEntry(u, q, d)
      BY <1>5, <3>1, EntryOnly
    <3>3. SameRecords(t, q) /\ NoOtherEntry(t, q, d)
      BY <1>5, <3>2 DEF SameRecords, NoOtherEntry
    <3>4. QED
      BY <1>3, <1>8, <1>10, <3>1, <3>2, <3>3
  <2>4. CASE \E e, i, q :
                 /\ r = Added(q, i)
                 /\ Entered(u, q, d, e) /\ q.addr = u.addr /\ Registered(u, q, dev, e, i)
                 /\ q = [addr |-> q.addr, ami |-> q.ami, ctrl |-> q.ctrl]
    <3>1. PICK e, i, q :
                 /\ r = Added(q, i)
                 /\ Entered(u, q, d, e) /\ q.addr = u.addr /\ Registered(u, q, dev, e, i)
                 /\ q = [addr |-> q.addr, ami |-> q.ami, ctrl |-> q.ctrl]
      BY <2>4
    <3>2. r.ctrl = i /\ i # 0 /\ r.table = q
      BY <1>8, <1>9, <3>1 DEF Registered
    <3>3. /\ status = "success" /\ done' = done \ {d}
          /\ crossed' = IF Confirmed(d) THEN crossed \cup {d} ELSE crossed \ {d}
          /\ CtrlSetup(q, i, running)
      BY <1>1, <1>13, <3>2
    <3>4. /\ InOrder(t') /\ TookIn(u, t', d, i) /\ NoOtherEntry(u, t', d)
          /\ secTimers' = running \cup {"SECMGR"} /\ keyed' = keyed
          /\ slot' \in {slot, d} /\ secTrouble' \in Nat
      BY <1>2, <1>5, <3>1, <3>3, SetUp
    <3>5. TookIn(t, t', d, i) /\ NoOtherEntry(t, t', d)
      BY <1>5, <3>4 DEF TookIn, SameRecords, NoOtherEntry, Active
    <3>6. QED
      BY <1>3, <1>13, <3>3, <3>4, <3>5 DEF TakenIn
  <2>5. QED
    BY <2>1, <2>2, <2>3, <2>4
<1>14. QED
  BY <1>7, <1>11, <1>12, <1>13

-----------------------------------------------------------------------------
(* What the tables come to when a device has joined. *)

\* The records of a device ...
LEMMA RecordIs ==
    ASSUME NEW d
    PROVE  Record(d) = {i \in Active(t) : Who(t, i) = d}
BY DEF Record, Who

\* ... and in the next state.
LEMMA NextRecordIs ==
    ASSUME NEW d
    PROVE  Record(d)' = {i \in Active(t') : Who(t', i) = d}
BY DEF Record, Who, Active

\* No entry is found just if there is none.
LEMMA NoEntryIs ==
    ASSUME NEW s, NEW d
    PROVE  EntryLookupAMI(s, d) = 0 <=> \A k \in Indices : s.ami[k] # d
<1>1. {i \in Indices : s.ami[i] = d} \in SUBSET Indices
  OBVIOUS
<1>2. QED
  BY <1>1, FirstIn DEF EntryLookupAMI

\* What every device but d keeps.
OthersKeep(d) ==
    \A x \in Devices \ {d} :
        /\ Record(x) # {} => Record(x)' # {}
        /\ EntryLookupAMI(t, x) = 0 => EntryLookupAMI(t', x) = 0
        /\ x \in keyed => x \in keyed'

\* A record that is given up was given up before, and is not that of x.
FailuresKept(x) ==
    \A i \in Active(t') :
        t'.ctrl[i].state = "SKKE_FAIL" =>
            /\ i \in Active(t) /\ t.ctrl[i].state = "SKKE_FAIL"
            /\ Who(t', i) = Who(t, i) /\ Who(t', i) # x

\* The tables are as they should be, whatever the queue does.
TablesKept(running) ==
    /\ InOrder(t') /\ secTimers' \in {running, running \cup {"SECMGR"}}
    /\ Active(t') # {} => "SECMGR" \in secEvents \cup secTimers'
    /\ secMode = "standard" => Active(t') = {}
    /\ done' \subseteq Devices /\ crossed' \subseteq Devices /\ keyed' \subseteq Devices
    /\ \A i \in Active(t') : t'.ctrl[i].state = "TK_NWK" => Who(t', i) \in done' \cup crossed'
    /\ \A m \in SecMail, i \in Active(t') :
          m.kind = "cfm" /\ t'.ctrl[i].state = "SKKE_WAIT" /\ Who(t', i) = m.ami
              => m.ami \in done' \cup crossed'

\* What holds after a device was refused, or sent the key at once.
LEMMA SameKept ==
    ASSUME SecIInv, NEW d \in Devices, NEW running, secTimers \subseteq running,
           SameOr(d), secTimers' = running, done' = done, crossed' = crossed,
           keyed' \in {keyed, keyed \cup {d}}
    PROVE  /\ TablesKept(running) /\ OthersKeep(d) /\ FailuresKept(Nobody)
           /\ Record(d) # {} => Record(d)' # {}
<1>1. /\ InOrder(t) /\ InOrder(t') /\ Active(t') = Active(t) /\ Active(t) \subseteq Indices
      /\ \A j \in Indices : t'.ctrl[j].state = t.ctrl[j].state
      /\ \A j \in Active(t) : Who(t', j) = Who(t, j)
      /\ NoOtherEntry(t, t', d)
  BY DEF SecIInv, SameOr, SameRecords, Active
<1>2. \A x : Record(x)' = Record(x)
  BY <1>1, RecordIs, NextRecordIs
<1>3. OthersKeep(d)
  BY <1>1, <1>2, NoEntryIs DEF OthersKeep, NoOtherEntry
<1>4. ASSUME NEW j \in Active(t) PROVE Who(t, j) \in Devices /\ Who(t, j) # Nobody
  BY <1>1, WhoIsThere, NobodyAssumption DEF InOrder
<1>5. FailuresKept(Nobody)
  BY <1>1, <1>4 DEF FailuresKept
<1>6. TablesKept(running)
  <2>1. Active(t') # {} => "SECMGR" \in secEvents \cup secTimers'
    BY <1>1 DEF SecIInv, Polled
  <2>2. secMode = "standard" => Active(t') = {}
    BY <1>1 DEF SecIInv, NoRecords
  <2>3. done' \subseteq Devices /\ crossed' \subseteq Devices /\ keyed' \subseteq Devices
    BY DEF SecIInv, DevicesTyped
  <2>4. \A i \in Active(t') : t'.ctrl[i].state = "TK_NWK" => Who(t', i) \in done' \cup crossed'
    BY <1>1 DEF SecIInv, KeyAfterSkke, Who
  <2>5. \A m \in SecMail, i \in Active(t') :
          m.kind = "cfm" /\ t'.ctrl[i].state = "SKKE_WAIT" /\ Who(t', i) = m.ami
              => m.ami \in done' \cup crossed'
    BY <1>1 DEF SecIInv, OutcomeKnown, Who
  <2>6. QED
    BY <1>1, <2>1, <2>2, <2>3, <2>4, <2>5 DEF TablesKept
<1>7. QED
  BY <1>2, <1>3, <1>5, <1>6

\* Confirmed, over what waits in the queue.
LEMMA ConfirmedIs ==
    ASSUME NEW d
    PROVE  Confirmed(d) <=> \E m \in SecMail : m.kind = "cfm" /\ m.ami = d
BY DEF Confirmed, SecMail

\* What holds after a device was taken in: it has a record, and if an older confirmation is still in the
\* queue it is marked.
LEMMA TakenKept ==
    ASSUME SecIInv, NEW d \in Devices, NEW running, secTimers \subseteq running, TakenIn(d, running)
    PROVE  /\ TablesKept(running) /\ OthersKeep(d) /\ FailuresKept(d)
           /\ Record(d)' # {}
<1>1. PICK n : TookIn(t, t', d, n)
  BY DEF TakenIn
<1>2. /\ InOrder(t) /\ InOrder(t') /\ n \in Indices /\ Active(t') = Active(t) \cup {n} /\ Active(t) \subseteq Indices
      /\ Who(t', n) = d /\ t'.ctrl[n].state \in {"TK_MASTER", "SKKE_INIT", "SKKE_WAIT"}
      /\ \A j \in Indices \ {n} : t'.ctrl[j].state = t.ctrl[j].state
      /\ \A j \in Active(t) \ {n} : Who(t', j) = Who(t, j) /\ Who(t, j) # d
      /\ n \in Active(t) => Who(t, n) = d
      /\ NoOtherEntry(t, t', d)
  BY <1>1 DEF TakenIn, TookIn, SecIInv, Active
<1>3. Record(d)' # {} /\ \A x \in Devices \ {d} : Record(x) # {} => Record(x)' # {}
  BY <1>2, RecordIs, NextRecordIs
<1>4. OthersKeep(d)
  BY <1>2, <1>3, NoEntryIs DEF OthersKeep, NoOtherEntry, TakenIn
<1>5. FailuresKept(d)
  <2>1. ASSUME NEW i \in Active(t'), t'.ctrl[i].state = "SKKE_FAIL"
        PROVE  /\ i \in Active(t) /\ t.ctrl[i].state = "SKKE_FAIL"
               /\ Who(t', i) = Who(t, i) /\ Who(t', i) # d
    <3>1. i # n
      BY <1>2, <2>1
    <3>2. QED
      BY <1>2, <2>1, <3>1
  <2>2. QED
    BY <2>1 DEF FailuresKept
<1>6. TablesKept(running)
  <2>1. Active(t') # {} => "SECMGR" \in secEvents \cup secTimers'
    BY DEF TakenIn
  <2>2. secMode = "standard" => Active(t') = {}
    BY DEF TakenIn
  <2>3. done' \subseteq Devices /\ crossed' \subseteq Devices /\ keyed' \subseteq Devices
    BY DEF SecIInv, DevicesTyped, TakenIn
  <2>4. ASSUME NEW i \in Active(t'), t'.ctrl[i].state = "TK_NWK" PROVE Who(t', i) \in done' \cup crossed'
    <3>1. i # n
      BY <1>2, <2>4
    <3>2. Who(t, i) \in done \cup crossed /\ Who(t', i) = Who(t, i) /\ Who(t, i) # d
      BY <1>2, <2>4, <3>1 DEF SecIInv, KeyAfterSkke, Who
    <3>3. QED
      BY <3>2 DEF TakenIn
  <2>5. ASSUME NEW m \in SecMail, NEW i \in Active(t'),
               m.kind = "cfm", t'.ctrl[i].state = "SKKE_WAIT", Who(t', i) = m.ami
        PROVE  m.ami \in done' \cup crossed'
    <3>1. CASE i = n
      <4>1. m.ami = d /\ Confirmed(d)
        BY <1>2, <2>5, <3>1, ConfirmedIs
      <4>2. QED
        BY <4>1 DEF TakenIn
    <3>2. CASE i # n
      <4>1. m.ami \in done \cup crossed /\ m.ami # d
        BY <1>2, <2>5, <3>2 DEF SecIInv, OutcomeKnown, Who
      <4>2. QED
        BY <4>1 DEF TakenIn
    <3>3. QED
      BY <3>1, <3>2
  <2>6. QED
    BY <1>2, <2>1, <2>2, <2>3, <2>4, <2>5 DEF TablesKept, TakenIn
<1>7. QED
  BY <1>3, <1>4, <1>5, <1>6

-----------------------------------------------------------------------------
(* The task's handlers. *)

\* What the two ways of joining have in common.
LEMMA JoinPreserves ==
    ASSUME SecIInv, NEW d \in Devices, NEW x, NEW running, secTimers \subseteq running, running \subseteq SecBits,
           TablesKept(running), FailuresKept(x), MastersTyped',
           slot' \in {slot, d}, secTrouble' \in Nat,
           UNCHANGED <<secMode, short, permit, timed, preconfigured, failed, lost, joins>>,
           children' \subseteq children, fresh' \subseteq fresh, auth' \subseteq Devices,
           children' \ fresh' \subseteq (children \ fresh) \cup {x},
           secEvents' \subseteq secEvents, secEvents \subseteq secEvents' \cup {"NEW_DEVICE"},
           fresh' # {} => "NEW_DEVICE" \in secEvents' \cup secTimers',
           SecQueueTyped', SecMail' \subseteq SecMail, Placed', Accounted'
    PROVE  SecIInv'
<1>1. PlainTyped'
  BY DEF SecIInv, PlainTyped, TablesKept, SecBits
<1>2. DevicesTyped'
  BY DEF SecIInv, DevicesTyped, TablesKept
<1>3. InOrder(t') /\ InOrder(t)' /\ Active(t)' = Active(t')
  BY DEF TablesKept, InOrder, Active, Table, RecordsSound, EntriesSound
<1>4. Polled'
  <2>1. Active(t)' # {} => "SECMGR" \in secEvents' \cup secTimers'
    BY <1>3 DEF TablesKept
  <2>2. QED
    BY <2>1 DEF Polled
<1>5. KeyAfterSkke'
  BY <1>3 DEF KeyAfterSkke, TablesKept, Who
<1>6. NoRecords'
  BY <1>3 DEF NoRecords, TablesKept
<1>7. OutcomeKnown'
  BY <1>3 DEF OutcomeKnown, TablesKept, Who
<1>8. GivenUp'
  <2>1. ASSUME NEW i \in Active(t'), t'.ctrl[i].state = "SKKE_FAIL", Who(t', i) \in children' \ fresh'
        PROVE  Who(t', i) \in failed
    <3>1. i \in Active(t) /\ t.ctrl[i].state = "SKKE_FAIL" /\ Who(t', i) = Who(t, i) /\ Who(t, i) \in children \ fresh
      BY <2>1 DEF FailuresKept
    <3>2. QED
      BY <3>1 DEF SecIInv, GivenUp, Who
  <2>2. QED
    BY <1>3, <2>1 DEF GivenUp, Who
<1>9. QED
  BY <1>1, <1>2, <1>3, <1>4, <1>5, <1>6, <1>7, <1>8 DEF SecIInv

\* A search of the next tables.
LEMMA NextEntryIs ==
    ASSUME NEW d
    PROVE  EntryLookupAMI(t, d)' = EntryLookupAMI(t', d)
BY DEF EntryLookupAMI, First

\* Devices that are accounted for are so still.
LEMMA AccountedKept ==
    ASSUME SecIInv, NEW d \in Devices, OthersKeep(d), failed' = failed, secMode' = secMode,
           NEW x \in Devices \ {d}, x \in children \ fresh
    PROVE  \/ x \in keyed' \/ Record(x)' # {} \/ x \in failed'
           \/ (secMode' = "high" /\ EntryLookupAMI(t, x)' = 0)
<1>1. x \in keyed \/ Record(x) # {} \/ x \in failed \/ (secMode = "high" /\ EntryLookupAMI(t, x) = 0)
  BY DEF SecIInv, Accounted
<1>2. EntryLookupAMI(t, x)' = EntryLookupAMI(t', x)
  BY NextEntryIs
<1>3. QED
  BY <1>1, <1>2 DEF OthersKeep

\* ZDSecMgrNewDeviceEvent.  No message is in the queue when the event is served.
LEMMA NewDevicePreserves ==
    ASSUME SecIInv, NewDeviceEvent
    PROVE  SecIInv'
<1>1. /\ secQueue = <<>> /\ secEvents' = secEvents \ {"NEW_DEVICE"} /\ secQueue' = secQueue
      /\ UNCHANGED <<secMode, short, permit, timed, preconfigured, failed, lost, joins>>
  BY DEF NewDeviceEvent, SecHandles, joining
<1>2. SecMail = {} /\ SecMail' = {} /\ SecQueueTyped'
  BY <1>1 DEF SecMail, SecIInv, SecQueueTyped
<1>3. CASE fresh = {}
  <2>1. UNCHANGED <<t, masters, children, fresh, auth, secTimers, slot, done, crossed, keyed, secTrouble>>
    BY <1>3 DEF NewDeviceEvent, secTables, secNetwork
  <2>2. PlainTyped' /\ DevicesTyped' /\ MastersTyped'
    BY <1>1, <2>1 DEF SecIInv, PlainTyped, DevicesTyped, MastersTyped
  <2>3. InOrder(t)' /\ Polled' /\ KeyAfterSkke' /\ NoRecords' /\ GivenUp'
    BY <1>1, <1>3, <2>1 DEF SecIInv, InOrder, Polled, KeyAfterSkke, NoRecords, GivenUp, Active, Table, RecordsSound, EntriesSound
  <2>4. Accounted'
    BY <1>1, <2>1 DEF SecIInv, Accounted, Record, Active, EntryLookupAMI
  <2>5. Placed' /\ OutcomeKnown'
    BY <1>2, <1>3, <2>1 DEF Placed, OutcomeKnown
  <2>6. QED
    BY <1>2, <2>2, <2>3, <2>4, <2>5 DEF SecIInv
<1>4. CASE fresh # {}
  <2> DEFINE running == secTimers \cup {"NEW_DEVICE"}
             Dev(d) == [ami |-> d, addr |-> short[d], parent |-> Self, secure |-> preconfigured]
  <2>1. PICK d \in fresh, status \in {"success", "unknown", "failure"} :
          /\ DeviceJoin(Dev(d), status, running)
          /\ LET early == IF preconfigured THEN auth \cup {d} ELSE auth IN
             CASE status = "success" ->
                    fresh' = fresh \ {d} /\ auth' = early \cup {d} /\ UNCHANGED children
               [] status = "unknown" ->
                    /\ children' = children \ {d} /\ fresh' = fresh \ {d}
                    /\ auth' = early \ {d}
               [] OTHER -> auth' = early /\ UNCHANGED <<children, fresh>>
    BY <1>4 DEF NewDeviceEvent
  <2>2. /\ d \in Devices /\ Dev(d).ami = d /\ Dev(d).addr \in Addrs /\ Dev(d).parent \in Parents
        /\ Dev(d).secure \in BOOLEAN /\ Dev(d).ami \in Devices
    BY SecAssumption DEF SecIInv, Placed, DevicesTyped, PlainTyped
  <2> DEFINE dev == Dev(d)
  <2>3. DeviceJoin(dev, status, running)
    BY <2>1
  <2>4. /\ dev.ami \in Devices /\ dev.addr \in Addrs /\ dev.parent \in Parents /\ dev.secure \in BOOLEAN /\ dev.ami = d
    BY <2>2
  <2> HIDE DEF dev
  <2>5. /\ MastersTyped' /\ slot' \in {slot, d} /\ secTrouble' \in Nat
        /\ \/ status = "unknown" /\ Refused(d, running)
           \/ status = "success" /\ TakenIn(d, running)
           \/ status # "unknown" /\ secMode = "standard" /\ SentKey(d, status = "success", running)
    <3>1. /\ MastersTyped' /\ slot' \in {slot, dev.ami} /\ secTrouble' \in Nat
          /\ \/ status = "unknown" /\ Refused(dev.ami, running)
             \/ status = "success" /\ TakenIn(dev.ami, running)
             \/ status # "unknown" /\ secMode = "standard" /\ SentKey(dev.ami, status = "success", running)
      BY <2>3, <2>4, Joined
    <3>2. QED
      BY <2>4, <3>1
  <2>6. auth' \subseteq Devices /\ children' \subseteq children /\ fresh' \subseteq fresh
    BY <2>1, <2>2 DEF SecIInv, DevicesTyped
  <2>7. /\ status = "success" => fresh' = fresh \ {d} /\ children' = children
        /\ status = "unknown" => fresh' = fresh \ {d} /\ children' = children \ {d}
        /\ status = "failure" => fresh' = fresh /\ children' = children
    BY <2>1
  <2>8. Placed'
    BY <1>1, <1>2, <2>6 DEF SecIInv, Placed
  <2>9. secTimers \subseteq running /\ running \subseteq SecBits /\ "NEW_DEVICE" \in running
    BY DEF SecIInv, PlainTyped, SecBits
  <2> HIDE DEF running
  <2>10. ASSUME NEW x, TablesKept(running), FailuresKept(x), OthersKeep(d),
                children' \ fresh' \subseteq (children \ fresh) \cup {x},
                d \in children' \ fresh' => d \in keyed' \/ Record(d)' # {}
         PROVE  SecIInv'
    <3>1. Accounted'
      <4>1. ASSUME NEW y \in children' \ fresh', y # d
            PROVE  \/ y \in keyed' \/ Record(y)' # {} \/ y \in failed'
                   \/ (secMode' = "high" /\ EntryLookupAMI(t, y)' = 0)
        <5>1. y \in Devices /\ y \in children \ fresh
          BY <2>6, <2>7, <4>1 DEF SecIInv, DevicesTyped
        <5>2. failed' = failed /\ secMode' = secMode
          BY <1>1
        <5>3. QED
          BY <2>2, <2>10, <4>1, <5>1, <5>2, AccountedKept
      <4>2. QED
        BY <2>10, <4>1 DEF Accounted
    <3>2. "NEW_DEVICE" \in secEvents' \cup secTimers'
      BY <2>9, <2>10 DEF TablesKept
    <3>3. SecMail' \subseteq SecMail /\ secEvents' \subseteq secEvents /\ secEvents \subseteq secEvents' \cup {"NEW_DEVICE"}
      BY <1>1, <1>2
    <3>4. QED
      BY <1>1, <1>2, <2>2, <2>5, <2>6, <2>8, <2>9, <2>10, <3>1, <3>2, <3>3, JoinPreserves
  <2>11. CASE status = "unknown" /\ Refused(d, running)
    <3>1. TablesKept(running) /\ OthersKeep(d) /\ FailuresKept(Nobody)
      BY <2>2, <2>9, <2>11, SameKept DEF Refused
    <3>2. children' \ fresh' \subseteq (children \ fresh) \cup {Nobody} /\ d \notin children'
      BY <2>7, <2>11
    <3>3. QED
      BY <2>10, <3>1, <3>2
  <2>12. CASE status = "success" /\ TakenIn(d, running)
    <3>1. TablesKept(running) /\ OthersKeep(d) /\ FailuresKept(d) /\ Record(d)' # {}
      BY <2>2, <2>9, <2>12, TakenKept
    <3>2. children' \ fresh' \subseteq (children \ fresh) \cup {d}
      BY <2>7, <2>12
    <3>3. QED
      BY <2>10, <3>1, <3>2
  <2>13. CASE status # "unknown" /\ secMode = "standard" /\ SentKey(d, status = "success", running)
    <3>1. TablesKept(running) /\ OthersKeep(d) /\ FailuresKept(Nobody)
      BY <2>2, <2>9, <2>13, SameKept DEF SentKey
    <3>2. FailuresKept(d)
      <4>1. Active(t') = {}
        BY <2>13, <3>1 DEF TablesKept
      <4>2. QED
        BY <4>1 DEF FailuresKept
    <3>3. /\ children' \ fresh' \subseteq (children \ fresh) \cup {d}
          /\ d \in children' \ fresh' => d \in keyed'
      <4>1. status \in {"success", "failure"}
        BY <2>13
      <4>2. CASE status = "success"
        BY <2>7, <2>13, <4>2 DEF SentKey
      <4>3. CASE status = "failure"
        BY <2>7, <4>3
      <4>4. QED
        BY <4>1, <4>2, <4>3
    <3>4. QED
      BY <2>10, <3>1, <3>2, <3>3
  <2>14. QED
    BY <2>5, <2>11, <2>12, <2>13
<1>5. QED
  BY <1>3, <1>4

\* A message is taken: what is left was there before.
LEMMA HeadTaken ==
    ASSUME SecQueueTyped, secQueue # <<>>, secQueue' = Tail(secQueue)
    PROVE  /\ SecQueueTyped' /\ SecMail' \subseteq SecMail
           /\ Head(secQueue) \in SecMail /\ Head(secQueue) \in SecMessage
<1>1. secQueue \in Seq(SecMessage) /\ Len(secQueue) \in Nat \ {0} /\ Head(secQueue) = secQueue[1]
  BY DEF SecQueueTyped
<1>2. /\ Tail(secQueue) \in Seq(SecMessage) /\ Len(Tail(secQueue)) = Len(secQueue) - 1
      /\ \A k \in 1 .. Len(Tail(secQueue)) : Tail(secQueue)[k] = secQueue[k + 1]
  BY <1>1
<1>3. SecMail' = {Tail(secQueue)[k] : k \in 1 .. Len(Tail(secQueue))}
  BY DEF SecMail
<1>4. ASSUME NEW k \in 1 .. Len(Tail(secQueue)) PROVE k + 1 \in 1 .. Len(secQueue)
  BY <1>1, <1>2
<1>5. SecMail' \subseteq SecMail
  BY <1>2, <1>3, <1>4 DEF SecMail
<1>6. 1 \in 1 .. Len(secQueue)
  BY <1>1
<1>7. secQueue[1] \in SecMessage
  BY <1>1, <1>6
<1>8. QED
  BY <1>1, <1>2, <1>5, <1>6, <1>7 DEF SecMail, SecQueueTyped

\* ZDSecMgrUpdateDeviceInd.  The device it is about is no child that has been looked at, so that nobody is
\* forgotten when it is refused though an entry was made for it.
LEMMA UpdatePreserves ==
    ASSUME SecIInv, UpdateDeviceInd
    PROVE  SecIInv'
<1> DEFINE m == Head(secQueue)
           d == m.ami
           dev == [ami |-> m.ami, addr |-> short[m.ami], parent |-> m.parent, secure |-> preconfigured]
<1>1. /\ secQueue # <<>> /\ m.kind = "update" /\ secQueue' = Tail(secQueue)
      /\ UNCHANGED <<secMode, short, permit, timed, preconfigured, failed, lost, joins>>
      /\ UNCHANGED <<children, fresh, auth, secEvents>>
  BY DEF UpdateDeviceInd, joining, secNetwork
<1>2. PICK status \in {"success", "unknown", "failure"} : DeviceJoin(dev, status, secTimers)
  BY DEF UpdateDeviceInd
<1>3. SecQueueTyped' /\ SecMail' \subseteq SecMail /\ m \in SecMail /\ m \in SecMessage
  BY <1>1, HeadTaken DEF SecIInv
<1> HIDE DEF m
<1>4. /\ dev.ami \in Devices /\ dev.addr \in Addrs /\ dev.parent \in Parents /\ dev.secure \in BOOLEAN
      /\ dev.ami = d /\ d \notin children \ fresh
  BY <1>1, <1>3 DEF SecIInv, Placed, SecMessage, PlainTyped
<1> HIDE DEF dev
<1>5. /\ MastersTyped' /\ slot' \in {slot, d} /\ secTrouble' \in Nat
      /\ \/ status = "unknown" /\ Refused(d, secTimers)
         \/ status = "success" /\ TakenIn(d, secTimers)
         \/ status # "unknown" /\ secMode = "standard" /\ SentKey(d, status = "success", secTimers)
  <2>1. /\ MastersTyped' /\ slot' \in {slot, dev.ami} /\ secTrouble' \in Nat
        /\ \/ status = "unknown" /\ Refused(dev.ami, secTimers)
           \/ status = "success" /\ TakenIn(dev.ami, secTimers)
           \/ status # "unknown" /\ secMode = "standard" /\ SentKey(dev.ami, status = "success", secTimers)
    BY <1>2, <1>4, Joined
  <2>2. QED
    BY <1>4, <2>1
<1>6. \E x : TablesKept(secTimers) /\ OthersKeep(d) /\ FailuresKept(x)
  <2>1. CASE Refused(d, secTimers)
    BY <1>4, <2>1, SameKept DEF Refused
  <2>2. CASE TakenIn(d, secTimers)
    BY <1>4, <2>2, TakenKept
  <2>3. CASE SentKey(d, status = "success", secTimers)
    BY <1>4, <2>3, SameKept DEF SentKey
  <2>4. QED
    BY <1>5, <2>1, <2>2, <2>3
<1>7. PICK x : TablesKept(secTimers) /\ OthersKeep(d) /\ FailuresKept(x)
  BY <1>6
<1>8. Placed'
  BY <1>1, <1>3 DEF SecIInv, Placed
<1>9. Accounted'
  <2>1. ASSUME NEW y \in children' \ fresh'
        PROVE  \/ y \in keyed' \/ Record(y)' # {} \/ y \in failed'
               \/ (secMode' = "high" /\ EntryLookupAMI(t, y)' = 0)
    <3>1. y \in Devices \ {d} /\ y \in children \ fresh /\ d \in Devices
      BY <1>1, <1>4, <2>1 DEF SecIInv, DevicesTyped
    <3>2. failed' = failed /\ secMode' = secMode
      BY <1>1
    <3>3. QED
      BY <1>7, <3>1, <3>2, AccountedKept
  <2>2. QED
    BY <2>1 DEF Accounted
<1>10. /\ secTimers \subseteq SecBits /\ auth' \subseteq Devices /\ children' \subseteq children /\ fresh' \subseteq fresh
       /\ children' \ fresh' \subseteq (children \ fresh) \cup {x}
       /\ secEvents' \subseteq secEvents /\ secEvents \subseteq secEvents' \cup {"NEW_DEVICE"}
  BY <1>1 DEF SecIInv, PlainTyped, DevicesTyped
<1>11. fresh' # {} => "NEW_DEVICE" \in secEvents' \cup secTimers'
  BY <1>1, <1>7 DEF SecIInv, Polled, TablesKept
<1>12. QED
  BY <1>1, <1>3, <1>4, <1>5, <1>7, <1>8, <1>9, <1>10, <1>11, JoinPreserves

-----------------------------------------------------------------------------
(* The records move on. *)

\* The record i is in the state to now.
MovedOn(s, q, i, to) ==
    /\ InOrder(q) /\ i \in Active(s) /\ q.ami = s.ami
    /\ Active(q) = IF to = "NONE" THEN Active(s) \ {i} ELSE Active(s)
    /\ q.ctrl[i].state = to /\ \A j \in Indices \ {i} : q.ctrl[j].state = s.ctrl[j].state
    /\ \A j \in Active(s) : Who(q, j) = Who(s, j)

\* A record with another state is still in order.
LEMMA MovedIs ==
    ASSUME NEW s, InOrder(s), NEW i \in Active(s),
           NEW to \in CtrlStates, to # "INIT", NEW n \in Nat,
           NEW q, q = Restated(s, i, to, n)
    PROVE  MovedOn(s, q, i, to)
<1>1. s \in Table /\ i \in Indices /\ to \in CtrlStates
  BY DEF InOrder, Active
<1>2. /\ q \in Table /\ q.ami = s.ami
      /\ \A j \in Indices : q.ctrl[j].entry = s.ctrl[j].entry /\ q.ctrl[j].state = IF j = i THEN to ELSE s.ctrl[j].state
  BY <1>1, OthersSame
<1>3. Active(q) = IF to = "NONE" THEN Active(s) \ {i} ELSE Active(s)
  BY <1>1, <1>2 DEF Active
<1>4. Active(q) \subseteq Active(s) /\ Active(s) \subseteq Indices
  BY <1>3 DEF Active
<1>5. RecordsSound(q) /\ EntriesSound(q) /\ \A j \in Indices : q.ctrl[j].state # "INIT"
  BY <1>2, <1>4 DEF InOrder, RecordsSound, EntriesSound
<1>6. \A j \in Active(s) : Who(q, j) = Who(s, j)
  BY <1>2, <1>4 DEF Who
<1>7. QED
  BY <1>1, <1>2, <1>3, <1>5, <1>6 DEF MovedOn, InOrder

\* ZDSecMgrDeviceCtrlUpdate changes at most the record of its device, if it waits for the outcome.
LEMMA Updated ==
    ASSUME SecIInv, NEW d \in Devices, NEW ok \in BOOLEAN, CtrlUpdate(d, ok)
    PROVE  \/ t' = t
           \/ \E i \in Active(t) :
                /\ t.ctrl[i].state = "SKKE_WAIT" /\ Who(t, i) = d
                /\ MovedOn(t, t', i, IF ok THEN "TK_NWK" ELSE "SKKE_FAIL")
<1> DEFINE e == EntryLookupExt(t, d)
           i == IF e = 0 THEN 0 ELSE CtrlLookup(t, e)
           to == IF ok THEN "TK_NWK" ELSE "SKKE_FAIL"
<1>1. CASE i = 0 \/ t.ctrl[i].state # "SKKE_WAIT"
  BY <1>1 DEF CtrlUpdate
<1>2. CASE ~ (i = 0 \/ t.ctrl[i].state # "SKKE_WAIT")
  <2>1. t' = WithBoth(t, i, to, 1)
    BY <1>2 DEF CtrlUpdate, WithBoth
  <2>2. e \in {k \in Indices : t.ami[k] = d} \cup {0}
    BY FirstIn DEF EntryLookupExt, EntryLookupAMI
  <2>3. {k \in Active(t) : t.ctrl[k].entry = e} \in SUBSET Indices
    BY DEF Active
  <2>4. CtrlLookup(t, e) \in {k \in Active(t) : t.ctrl[k].entry = e} \cup {0}
    BY <2>3, FirstIn DEF CtrlLookup
  <2>5. i \in Active(t) /\ i \in Indices /\ Who(t, i) = d /\ t.ctrl[i].state = "SKKE_WAIT"
    BY <1>2, <2>2, <2>4 DEF Who, Active
  <2>6. InOrder(t) /\ t \in Table
    BY DEF SecIInv, InOrder
  <2> HIDE DEF i
  <2>7. to \in CtrlStates /\ to # "INIT" /\ 1 \in Nat
    BY DEF CtrlStates
  <2> HIDE DEF to
  <2>8. t' = Restated(t, i, to, 1)
    BY <2>1, <2>5, <2>6, RestatedIs
  <2>9. MovedOn(t, t', i, to)
    BY <2>5, <2>6, <2>7, <2>8, MovedIs
  <2>10. QED
    BY <2>5, <2>9 DEF to
<1>3. QED
  BY <1>1, <1>2

\* What a step of the task or the library leaves alone, when it only moves
\* records on.
NotJoining == UNCHANGED <<secMode, short, masters, children, fresh, auth, permit, timed, preconfigured, crossed, joins>>

\* Types, for steps of this kind.
LEMMA TypesKept ==
    ASSUME SecIInv, NotJoining, slot' \in Devices \cup {Nobody}, secTrouble' \in Nat,
           secEvents' \subseteq SecBits, secTimers' \subseteq SecBits,
           done' \subseteq Devices, keyed' \subseteq Devices, failed' \subseteq Devices, lost' \subseteq Devices
    PROVE  PlainTyped' /\ DevicesTyped' /\ MastersTyped'
BY DEF SecIInv, NotJoining, PlainTyped, DevicesTyped, MastersTyped

\* Placed, for steps of this kind.
LEMMA PlacedKept ==
    ASSUME SecIInv, NotJoining, \A m \in SecMail' : m.kind = "update" => m \in SecMail
    PROVE  Placed'
BY DEF SecIInv, NotJoining, Placed

\* InOrder of the next tables.
LEMMA InOrderNext ==
    ASSUME InOrder(t')
    PROVE  InOrder(t)'
BY DEF InOrder, Active, Table, RecordsSound, EntriesSound

\* ZDSecMgrEstablishKeyCfm.  OutcomeKnown is what lets the record go on to the network key.
LEMMA CfmPreserves ==
    ASSUME SecIInv, EstablishKeyCfm
    PROVE  SecIInv'
<1> DEFINE d == Head(secQueue).ami
<1>1. /\ secQueue # <<>> /\ Head(secQueue).kind = "cfm" /\ secQueue' = Tail(secQueue) /\ CtrlUpdate(d, TRUE)
      /\ NotJoining /\ UNCHANGED <<secEvents, secTimers, slot, done, crossed, keyed, failed, lost, secTrouble, secMode, children, fresh>>
  BY DEF EstablishKeyCfm, NotJoining, joining, secNetwork, history, secOutside
<1>2. SecQueueTyped' /\ SecMail' \subseteq SecMail /\ Head(secQueue) \in SecMail /\ d \in Devices
  BY <1>1, HeadTaken DEF SecIInv, SecMessage
<1>3. PlainTyped' /\ DevicesTyped' /\ MastersTyped'
  BY <1>1, TypesKept DEF SecIInv, PlainTyped, DevicesTyped
<1>4. Placed'
  BY <1>1, <1>2, PlacedKept
<1>5. \/ t' = t
      \/ \E i \in Active(t) :
           t.ctrl[i].state = "SKKE_WAIT" /\ Who(t, i) = d /\ MovedOn(t, t', i, "TK_NWK")
  BY <1>2, <1>1, Updated
<1>6. ASSUME NEW i \in Active(t), t.ctrl[i].state = "SKKE_WAIT", Who(t, i) = d
      PROVE  d \in done \cup crossed
  BY <1>1, <1>2, <1>6 DEF SecIInv, OutcomeKnown, Who
<1> HIDE DEF d
<1>7. /\ InOrder(t') /\ Active(t') = Active(t) /\ Active(t) \subseteq Indices /\ t'.ami = t.ami
      /\ \A j \in Active(t) : Who(t', j) = Who(t, j)
      /\ \A j \in Active(t) : t'.ctrl[j].state \in {t.ctrl[j].state, "TK_NWK"}
      /\ \A j \in Active(t) : t'.ctrl[j].state = "TK_NWK" => Who(t, j) \in done \cup crossed
  <2>1. CASE t' = t
    BY <2>1 DEF SecIInv, KeyAfterSkke, Who, Active
  <2>2. CASE \E i \in Active(t) :
           t.ctrl[i].state = "SKKE_WAIT" /\ Who(t, i) = d /\ MovedOn(t, t', i, "TK_NWK")
    <3>1. PICK i \in Active(t) :
           t.ctrl[i].state = "SKKE_WAIT" /\ Who(t, i) = d /\ MovedOn(t, t', i, "TK_NWK")
      BY <2>2
    <3>2. Active(t') = Active(t) /\ Active(t) \subseteq Indices
      BY <3>1 DEF MovedOn, Active
    <3>3. ASSUME NEW j \in Active(t), t'.ctrl[j].state = "TK_NWK" PROVE Who(t, j) \in done \cup crossed
      <4>1. CASE j = i
        BY <1>6, <3>1, <4>1
      <4>2. CASE j # i
        BY <3>1, <3>2, <3>3, <4>2 DEF MovedOn, SecIInv, KeyAfterSkke, Who
      <4>3. QED
        BY <4>1, <4>2
    <3>4. QED
      BY <3>1, <3>2, <3>3 DEF MovedOn
  <2>3. QED
    BY <1>5, <2>1, <2>2
<1>8. InOrder(t)' /\ Active(t)' = Active(t')
  BY <1>7, InOrderNext DEF Active
<1>9. Polled' /\ NoRecords' /\ KeyAfterSkke'
  BY <1>1, <1>7, <1>8 DEF SecIInv, Polled, NoRecords, KeyAfterSkke, Who
<1>10. OutcomeKnown'
  <2>1. ASSUME NEW m \in SecMail', NEW j \in Active(t), m.kind = "cfm", t'.ctrl[j].state = "SKKE_WAIT", Who(t', j) = m.ami
        PROVE  m.ami \in done \cup crossed
    <3>1. t.ctrl[j].state = "SKKE_WAIT" /\ Who(t, j) = m.ami /\ m \in SecMail
      BY <1>2, <1>7, <2>1
    <3>2. QED
      BY <2>1, <3>1 DEF SecIInv, OutcomeKnown, Who
  <2>2. QED
    BY <1>1, <1>7, <1>8, <2>1 DEF OutcomeKnown, Who
<1>11. GivenUp'
  <2>1. ASSUME NEW j \in Active(t), t'.ctrl[j].state = "SKKE_FAIL", Who(t', j) \in children \ fresh
        PROVE  Who(t', j) \in failed
    <3>1. t.ctrl[j].state = "SKKE_FAIL" /\ Who(t', j) = Who(t, j)
      BY <1>7, <2>1
    <3>2. QED
      BY <2>1, <3>1 DEF SecIInv, GivenUp, Who
  <2>2. QED
    BY <1>1, <1>7, <1>8, <2>1 DEF GivenUp, Who
<1>12. Accounted'
  <2>1. ASSUME NEW x PROVE Record(x)' = Record(x) /\ (EntryLookupAMI(t, x)' = 0 <=> EntryLookupAMI(t, x) = 0)
    <3>1. Record(x)' = Record(x)
      BY <1>7, RecordIs, NextRecordIs
    <3>2. EntryLookupAMI(t, x)' = 0 <=> EntryLookupAMI(t, x) = 0
      BY <1>7, NextEntryIs, NoEntryIs
    <3>3. QED
      BY <3>1, <3>2
  <2>2. QED
    BY <1>1, <2>1 DEF SecIInv, Accounted
<1>13. QED
  BY <1>2, <1>3, <1>4, <1>8, <1>9, <1>10, <1>11, <1>12 DEF SecIInv

\* Counting down changes nothing else.
LEMMA CountedIs ==
    ASSUME SecIInv
    PROVE  InOrder(Counted) /\ SameRecords(t, Counted) /\ Counted.ami = t.ami
<1> DEFINE Down(r, i) == [r EXCEPT !.cntr = IF i \in Active(t) /\ @ > 0 THEN @ - 1 ELSE @]
           c == [i \in Indices |-> Down(t.ctrl[i], i)]
           Rec == [state : CtrlStates, entry : Indices, cntr : Nat, parent : Parents \cup {Nowhere}, secure : BOOLEAN]
<1>1. Counted = [t EXCEPT !.ctrl = c]
  BY DEF Counted
<1>2. InOrder(t) /\ t \in Table /\ t.ctrl \in [Indices -> Rec]
  BY DEF SecIInv, InOrder, Table
<1>3. ASSUME NEW i \in Indices PROVE Down(t.ctrl[i], i) \in Rec
  <2>1. t.ctrl[i] \in Rec
    BY <1>2
  <2> DEFINE r == t.ctrl[i]
             k == IF i \in Active(t) /\ r.cntr > 0 THEN r.cntr - 1 ELSE r.cntr
  <2>2. r.cntr \in Nat
    BY <2>1
  <2>3. k \in Nat
    BY <2>2
  <2>4. Down(r, i) = [r EXCEPT !.cntr = k]
    OBVIOUS
  <2> HIDE DEF k, r
  <2>5. [r EXCEPT !.cntr = k] \in Rec
    BY <2>1, <2>3 DEF r
  <2>6. QED
    BY <2>4, <2>5 DEF r
<1>4. ASSUME NEW i \in Indices
      PROVE  Down(t.ctrl[i], i).state = t.ctrl[i].state /\ Down(t.ctrl[i], i).entry = t.ctrl[i].entry
  BY <1>2
<1> HIDE DEF Down
<1>5. c \in [Indices -> Rec] /\ \A i \in Indices : c[i].state = t.ctrl[i].state /\ c[i].entry = t.ctrl[i].entry
  BY <1>3, <1>4
<1> HIDE DEF c
<1>6. Counted.ctrl = c /\ Counted.ami = t.ami /\ Counted \in Table
  BY <1>1, <1>2, <1>5 DEF Table
<1>7. QED
  BY <1>2, <1>5, <1>6, SameTable

\* How a step of the record i ends.
Stepping(i, to) ==
    /\ i \in Active(t) /\ MovedOn(t, t', i, to) /\ to # "INIT"
    /\ Moved(t.ctrl[i].state, to, Who(t, i))

\* ZDSecMgrEvent moves one record at most, and as long as one is in use its timer runs.
LEMMA SecMgrOutcome ==
    ASSUME SecIInv, SecMgrEvent
    PROVE  /\ slot' \in Devices \cup {Nobody} /\ secTrouble' \in Nat
           /\ secTimers \subseteq secTimers' /\ secTimers' \subseteq secTimers \cup {"SECMGR"}
           /\ Active(t') # {} => "SECMGR" \in secTimers'
           /\ \/ InOrder(t') /\ SameRecords(t, t') /\ t'.ami = t.ami /\ keyed' = keyed
              \/ \E i, to : Stepping(i, to)
<1> DEFINE i == First({j \in Active(Counted) : Counted.ctrl[j].cntr = 0})
           others == Active(Counted) \ {i}
           running == IF others = {} THEN secTimers ELSE secTimers \cup {"SECMGR"}
<1>1. IF i = 0 THEN t' = Counted /\ secTimers' = running /\ UNCHANGED <<slot, keyed, secTrouble>>
                ELSE CtrlHandler(Counted, i, running)
  BY DEF SecMgrEvent
<1>2. InOrder(Counted) /\ SameRecords(t, Counted) /\ Counted.ami = t.ami /\ Active(Counted) = Active(t) /\ Active(t) \subseteq Indices
  BY CountedIs DEF SameRecords, Active
<1>3. i \in Active(Counted) \cup {0}
  <2>1. {j \in Active(Counted) : Counted.ctrl[j].cntr = 0} \in SUBSET Indices
    BY <1>2
  <2>2. QED
    BY <2>1, FirstIn
<1>4. 0 \notin Indices
  BY SizeAssumption DEF Indices
<1>5. /\ slot \in Devices \cup {Nobody} /\ secTrouble \in Nat /\ InOrder(t)
  BY DEF SecIInv, PlainTyped
<1>6. secTimers \subseteq running /\ running \subseteq secTimers \cup {"SECMGR"}
  OBVIOUS
<1> HIDE DEF i
<1>7. CASE i = 0
  <2>1. t' = Counted /\ secTimers' = running /\ slot' = slot /\ keyed' = keyed /\ secTrouble' = secTrouble
    BY <1>1, <1>7
  <2>2. Active(t) # {} => others # {}
    BY <1>2, <1>4, <1>7
  <2>3. QED
    BY <1>2, <1>5, <1>6, <2>1, <2>2
<1>8. CASE i # 0
  <2>1. i \in Active(Counted) /\ CtrlHandler(Counted, i, running) /\ Counted \in Table
    BY <1>1, <1>2, <1>3, <1>8 DEF InOrder
  <2>2. Counted.ctrl[i].state # "INIT"
    BY <1>2, <2>1 DEF InOrder
  <2>3. PICK to \in CtrlStates, n \in Nat :
              /\ t' = Restated(Counted, i, to, n)
              /\ Moved(Counted.ctrl[i].state, to, Who(Counted, i))
              /\ secTimers' = running \cup IF to # "NONE" THEN {"SECMGR"} ELSE {}
              /\ slot' \in {slot, Who(Counted, i)} /\ secTrouble' \in Nat
    <3> HIDE DEF running
    <3>1. QED
      BY <1>5, <2>1, <2>2, Handled
  <2>4. Who(Counted, i) = Who(t, i) /\ Counted.ctrl[i].state = t.ctrl[i].state /\ Who(t, i) \in Devices
    <3>1. Who(t, i) \in Devices
      BY <1>2, <1>5, <2>1, WhoIsThere DEF InOrder
    <3>2. QED
      BY <1>2, <2>1, <3>1 DEF SameRecords
  <2>5. to # "INIT"
    BY <2>3 DEF Moved
  <2>6. MovedOn(Counted, t', i, to)
    BY <1>2, <2>1, <2>3, <2>5, MovedIs
  <2>7. MovedOn(t, t', i, to)
    <3>1. \A j \in Active(t) : Who(t', j) = Who(t, j)
      BY <1>2, <2>6 DEF MovedOn, SameRecords
    <3>2. QED
      BY <1>2, <2>6, <3>1 DEF MovedOn, SameRecords
  <2>8. Active(t') # {} => "SECMGR" \in secTimers'
    <3>1. CASE to = "NONE"
      BY <1>2, <2>3, <2>6, <3>1 DEF MovedOn
    <3>2. CASE to # "NONE"
      BY <2>3, <3>2
    <3>3. QED
      BY <3>1, <3>2
  <2>9. secTimers \subseteq secTimers' /\ secTimers' \subseteq secTimers \cup {"SECMGR"}
    BY <1>6, <2>3
  <2>10. slot' \in Devices \cup {Nobody} /\ secTrouble' \in Nat
    BY <1>5, <2>3, <2>4
  <2>11. Stepping(i, to)
    BY <1>2, <2>1, <2>3, <2>4, <2>5, <2>7 DEF Stepping
  <2>12. QED
    BY <2>8, <2>9, <2>10, <2>11
<1>9. QED
  BY <1>7, <1>8

\* ZDSecMgrEvent.  A record is given up only once its device has the key, or is known to have failed.
LEMMA SecMgrPreserves ==
    ASSUME SecIInv, SecMgrEvent
    PROVE  SecIInv'
<1>1. /\ secQueue = <<>> /\ secQueue' = secQueue /\ secEvents' = secEvents \ {"SECMGR"}
      /\ NotJoining /\ UNCHANGED <<done, failed, lost, secMode, children, fresh, crossed>>
  BY DEF SecMgrEvent, SecHandles, NotJoining, joining, secNetwork
<1>2. SecMail = {} /\ SecMail' = {} /\ SecQueueTyped'
  BY <1>1 DEF SecMail, SecIInv, SecQueueTyped
<1>3. /\ slot' \in Devices \cup {Nobody} /\ secTrouble' \in Nat
      /\ secTimers \subseteq secTimers' /\ secTimers' \subseteq secTimers \cup {"SECMGR"}
      /\ Active(t') # {} => "SECMGR" \in secTimers'
      /\ \/ InOrder(t') /\ SameRecords(t, t') /\ t'.ami = t.ami /\ keyed' = keyed
         \/ \E i, to : Stepping(i, to)
  BY SecMgrOutcome
<1>4. /\ InOrder(t') /\ Active(t') \subseteq Active(t) /\ Active(t) \subseteq Indices /\ t'.ami = t.ami
      /\ \A j \in Active(t) : Who(t', j) = Who(t, j) /\ Who(t, j) \in Devices
      /\ \A j \in Active(t') : t'.ctrl[j].state \in {"TK_NWK", "SKKE_FAIL"} => t'.ctrl[j].state = t.ctrl[j].state
      /\ keyed \subseteq keyed' /\ keyed' \subseteq Devices
      /\ \A j \in Active(t) \ Active(t') : Who(t, j) \in keyed' \/ (Who(t, j) \in children \ fresh => Who(t, j) \in failed)
  <2>1. InOrder(t) /\ Active(t) \subseteq Indices /\ keyed \subseteq Devices /\ \A j \in Active(t) : Who(t, j) \in Devices
    <3>1. InOrder(t) /\ t \in Table /\ RecordsSound(t) /\ keyed \subseteq Devices
      BY DEF SecIInv, InOrder, DevicesTyped
    <3>2. QED
      BY <3>1, WhoIsThere DEF Active
  <2>2. CASE InOrder(t') /\ SameRecords(t, t') /\ t'.ami = t.ami /\ keyed' = keyed
    BY <2>1, <2>2 DEF SameRecords
  <2>3. CASE \E i, to : Stepping(i, to)
    <3>1. PICK i, to : Stepping(i, to)
      BY <2>3
    <3>2. /\ i \in Active(t) /\ MovedOn(t, t', i, to) /\ Moved(t.ctrl[i].state, to, Who(t, i))
      BY <3>1 DEF Stepping
    <3>3. /\ InOrder(t') /\ t'.ami = t.ami
          /\ Active(t') = IF to = "NONE" THEN Active(t) \ {i} ELSE Active(t)
          /\ t'.ctrl[i].state = to /\ \A j \in Indices \ {i} : t'.ctrl[j].state = t.ctrl[j].state
          /\ \A j \in Active(t) : Who(t', j) = Who(t, j)
      BY <3>2 DEF MovedOn
    <3>4. /\ keyed' \in {keyed, keyed \cup {Who(t, i)}}
          /\ to \in {"TK_NWK", "SKKE_FAIL"} => to = t.ctrl[i].state
          /\ to = "NONE" => Who(t, i) \in keyed' \/ t.ctrl[i].state = "SKKE_FAIL"
      BY <3>2 DEF Moved
    <3>5. \A j \in Active(t') : t'.ctrl[j].state \in {"TK_NWK", "SKKE_FAIL"} => t'.ctrl[j].state = t.ctrl[j].state
      BY <2>1, <3>3, <3>4
    <3>6. ASSUME NEW j \in Active(t) \ Active(t')
          PROVE  Who(t, j) \in keyed' \/ (Who(t, j) \in children \ fresh => Who(t, j) \in failed)
      <4>1. j = i /\ to = "NONE"
        BY <3>3
      <4>2. t.ctrl[i].state = "SKKE_FAIL" => (Who(t, i) \in children \ fresh => Who(t, i) \in failed)
        BY <3>2 DEF SecIInv, GivenUp, Who
      <4>3. QED
        BY <3>4, <4>1, <4>2
    <3>7. Active(t') \subseteq Active(t) /\ keyed \subseteq keyed' /\ keyed' \subseteq Devices
      BY <2>1, <3>2, <3>3, <3>4
    <3>8. QED
      BY <2>1, <3>3, <3>5, <3>6, <3>7
  <2>4. QED
    BY <1>3, <2>2, <2>3
<1>5. PlainTyped' /\ DevicesTyped' /\ MastersTyped'
  <2>1. /\ secEvents' \subseteq SecBits /\ secTimers' \subseteq SecBits
        /\ done' \subseteq Devices /\ failed' \subseteq Devices /\ lost' \subseteq Devices
    BY <1>1, <1>3 DEF SecIInv, PlainTyped, DevicesTyped, SecBits
  <2>2. QED
    BY <1>1, <1>3, <1>4, <2>1, TypesKept
<1>6. Placed'
  BY <1>1, <1>2, PlacedKept
<1>7. InOrder(t)' /\ Active(t)' = Active(t')
  BY <1>4, InOrderNext DEF Active
<1>8. Polled'
  BY <1>1, <1>3, <1>7 DEF SecIInv, Polled
<1>9. NoRecords'
  BY <1>1, <1>4, <1>7 DEF SecIInv, NoRecords
<1>10. KeyAfterSkke'
  <2>1. ASSUME NEW j \in Active(t'), t'.ctrl[j].state = "TK_NWK" PROVE Who(t', j) \in done \cup crossed
    <3>1. t.ctrl[j].state = "TK_NWK" /\ j \in Active(t) /\ Who(t', j) = Who(t, j)
      BY <1>4, <2>1
    <3>2. QED
      BY <3>1 DEF SecIInv, KeyAfterSkke, Who
  <2>2. QED
    BY <1>1, <1>7, <2>1 DEF KeyAfterSkke, Who
<1>11. OutcomeKnown'
  BY <1>2 DEF OutcomeKnown
<1>12. GivenUp'
  <2>1. ASSUME NEW j \in Active(t'), t'.ctrl[j].state = "SKKE_FAIL", Who(t', j) \in children \ fresh
        PROVE  Who(t', j) \in failed
    <3>1. t.ctrl[j].state = "SKKE_FAIL" /\ j \in Active(t) /\ Who(t', j) = Who(t, j)
      BY <1>4, <2>1
    <3>2. QED
      BY <2>1, <3>1 DEF SecIInv, GivenUp, Who
  <2>2. QED
    BY <1>1, <1>7, <2>1 DEF GivenUp, Who
<1>13. Accounted'
  <2>1. ASSUME NEW x \in children \ fresh
        PROVE  \/ x \in keyed' \/ Record(x)' # {} \/ x \in failed
               \/ (secMode = "high" /\ EntryLookupAMI(t, x)' = 0)
    <3>1. CASE x \in keyed \/ x \in failed
      BY <1>4, <3>1
    <3>2. CASE secMode = "high" /\ EntryLookupAMI(t, x) = 0
      <4>1. EntryLookupAMI(t, x)' = 0
        BY <1>4, <3>2, NextEntryIs, NoEntryIs
      <4>2. QED
        BY <3>2, <4>1
    <3>3. CASE Record(x) # {}
      <4>1. PICK j \in Active(t) : Who(t, j) = x
        BY <3>3, RecordIs
      <4>2. CASE j \in Active(t')
        BY <1>4, <4>1, <4>2, NextRecordIs
      <4>3. CASE j \notin Active(t')
        BY <1>4, <4>1, <4>3
      <4>4. QED
        BY <4>2, <4>3
    <3>4. QED
      BY <3>1, <3>2, <3>3 DEF SecIInv, Accounted
  <2>2. QED
    BY <1>1, <2>1 DEF Accounted
<1>14. QED
  BY <1>2, <1>5, <1>6, <1>7, <1>8, <1>9, <1>10, <1>11, <1>12, <1>13 DEF SecIInv

-----------------------------------------------------------------------------
(* The library. *)

\* Nothing about the tables changes if they do not.
LEMMA SameTableNext ==
    ASSUME t' = t, InOrder(t)
    PROVE  /\ InOrder(t)' /\ Active(t)' = Active(t) /\ \A i : Who(t, i)' = Who(t, i)
           /\ \A x : Record(x)' = Record(x) /\ EntryLookupAMI(t, x)' = EntryLookupAMI(t, x)
BY DEF InOrder, Active, Table, RecordsSound, EntriesSound, Who, Record, EntryLookupAMI

\* The library ends a key establishment: a record that waits for it is marked before the message is taken.
LEMMA EstablishedPreserves ==
    ASSUME SecIInv, Established
    PROVE  SecIInv'
<1>1. /\ slot # Nobody /\ slot' = Nobody /\ NotJoining
      /\ UNCHANGED <<t, secEvents, secTimers, keyed, failed, secMode, children, fresh, crossed>>
      /\ done' = IF \E i \in Record(slot) : t.ctrl[i].state = "SKKE_WAIT" THEN done \cup {slot} ELSE done
  BY DEF Established, NotJoining, joining, secNetwork, secTables
<1>2. slot \in Devices /\ secTrouble \in Nat /\ lost \subseteq Devices /\ secQueue \in Seq(SecMessage) /\ InOrder(t)
  BY <1>1 DEF SecIInv, PlainTyped, DevicesTyped, SecQueueTyped
<1>3. secTrouble' \in Nat /\ lost' \subseteq Devices
  BY <1>2 DEF Established
<1> DEFINE m0 == [kind |-> "cfm", ami |-> slot, parent |-> Self]
<1>4. m0 \in SecMessage /\ m0.kind = "cfm" /\ m0.ami = slot
  BY <1>2, SecAssumption DEF SecMessage
<1>5. secQueue' = secQueue \/ secQueue' = Append(secQueue, m0)
  BY DEF Established
<1> HIDE DEF m0
<1>6. SecQueueTyped' /\ SecMail' \subseteq SecMail \cup {m0}
  <2>1. CASE secQueue' = secQueue
    BY <1>2, <2>1 DEF SecQueueTyped, SecMail
  <2>2. CASE secQueue' = Append(secQueue, m0)
    <3>1. /\ Append(secQueue, m0) \in Seq(SecMessage) /\ Len(Append(secQueue, m0)) = Len(secQueue) + 1
          /\ \A k \in 1 .. Len(secQueue) + 1 :
                Append(secQueue, m0)[k] = IF k = Len(secQueue) + 1 THEN m0 ELSE secQueue[k]
      BY <1>2, <1>4
    <3>2. \A k \in 1 .. Len(secQueue) + 1 : k # Len(secQueue) + 1 => k \in 1 .. Len(secQueue)
      BY <1>2
    <3>3. QED
      BY <2>2, <3>1, <3>2 DEF SecQueueTyped, SecMail
  <2>3. QED
    BY <1>5, <2>1, <2>2
<1>7. PlainTyped' /\ DevicesTyped' /\ MastersTyped'
  <2>1. /\ slot' \in Devices \cup {Nobody} /\ secEvents' \subseteq SecBits /\ secTimers' \subseteq SecBits
        /\ done' \subseteq Devices /\ failed' \subseteq Devices /\ keyed' \subseteq Devices
    BY <1>1, <1>2 DEF SecIInv, PlainTyped, DevicesTyped
  <2>2. QED
    BY <1>1, <1>3, <2>1, TypesKept
<1>8. Placed'
  <2>1. \A m \in SecMail' : m.kind = "update" => m \in SecMail
    BY <1>4, <1>6
  <2>2. QED
    BY <1>1, <2>1, PlacedKept
<1>9. /\ InOrder(t)' /\ Active(t)' = Active(t) /\ \A i : Who(t, i)' = Who(t, i)
      /\ \A x : Record(x)' = Record(x) /\ EntryLookupAMI(t, x)' = EntryLookupAMI(t, x)
  BY <1>1, <1>2, SameTableNext
<1>10. Polled' /\ NoRecords' /\ Accounted' /\ GivenUp'
  BY <1>1, <1>9 DEF SecIInv, Polled, NoRecords, Accounted, GivenUp, Who
<1>11. KeyAfterSkke'
  BY <1>1, <1>9 DEF SecIInv, KeyAfterSkke, Who
<1>12. OutcomeKnown'
  <2>1. ASSUME NEW m \in SecMail', NEW i \in Active(t), m.kind = "cfm", t.ctrl[i].state = "SKKE_WAIT", Who(t, i) = m.ami
        PROVE  m.ami \in done' \cup crossed
    <3>1. CASE m \in SecMail
      BY <1>1, <2>1, <3>1 DEF SecIInv, OutcomeKnown, Who
    <3>2. CASE m = m0
      <4>1. i \in Record(slot)
        BY <1>4, <2>1, <3>2, RecordIs
      <4>2. QED
        BY <1>1, <1>4, <2>1, <3>2, <4>1
    <3>3. QED
      BY <1>6, <3>1, <3>2
  <2>2. QED
    BY <1>1, <1>9, <2>1 DEF OutcomeKnown, Who
<1>13. QED
  BY <1>6, <1>7, <1>8, <1>9, <1>10, <1>11, <1>12 DEF SecIInv

\* APSME_SKA_TimerExpired: the device whose record gives up has failed.
LEMMA ExpiredPreserves ==
    ASSUME SecIInv, SKA_TimerExpired
    PROVE  SecIInv'
<1>1. /\ slot # Nobody /\ slot' = Nobody /\ failed' = failed \cup {slot} /\ CtrlUpdate(slot, FALSE)
      /\ NotJoining /\ secTrouble > 0 /\ secTrouble' = secTrouble - 1
      /\ UNCHANGED <<secEvents, secTimers, secQueue, done, crossed, keyed, lost, secMode, children, fresh>>
  BY DEF SKA_TimerExpired, NotJoining, joining, secNetwork, task
<1>2. slot \in Devices /\ secTrouble \in Nat /\ failed \subseteq Devices /\ FALSE \in BOOLEAN
  BY <1>1 DEF SecIInv, PlainTyped, DevicesTyped
<1>3. SecQueueTyped' /\ SecMail' = SecMail
  BY <1>1 DEF SecIInv, SecQueueTyped, SecMail
<1>4. PlainTyped' /\ DevicesTyped' /\ MastersTyped'
  <2>1. secTrouble' \in Nat
    BY <1>1, <1>2
  <2>2. /\ slot' \in Devices \cup {Nobody} /\ secEvents' \subseteq SecBits /\ secTimers' \subseteq SecBits
        /\ done' \subseteq Devices /\ failed' \subseteq Devices /\ keyed' \subseteq Devices /\ lost' \subseteq Devices
    BY <1>1, <1>2 DEF SecIInv, PlainTyped, DevicesTyped
  <2>3. QED
    BY <1>1, <2>1, <2>2, TypesKept
<1>5. Placed'
  BY <1>1, <1>3, PlacedKept
<1>6. \/ t' = t
      \/ \E i \in Active(t) :
           t.ctrl[i].state = "SKKE_WAIT" /\ Who(t, i) = slot /\ MovedOn(t, t', i, "SKKE_FAIL")
  BY <1>1, <1>2, Updated
<1>7. /\ InOrder(t') /\ Active(t') = Active(t) /\ Active(t) \subseteq Indices /\ t'.ami = t.ami
      /\ \A j \in Active(t) : Who(t', j) = Who(t, j)
      /\ \A j \in Active(t) : t'.ctrl[j].state = t.ctrl[j].state \/ (t'.ctrl[j].state = "SKKE_FAIL" /\ Who(t, j) = slot)
  <2>1. CASE t' = t
    BY <2>1 DEF SecIInv, Active
  <2>2. CASE \E i \in Active(t) :
           t.ctrl[i].state = "SKKE_WAIT" /\ Who(t, i) = slot /\ MovedOn(t, t', i, "SKKE_FAIL")
    <3>1. PICK i \in Active(t) :
           t.ctrl[i].state = "SKKE_WAIT" /\ Who(t, i) = slot /\ MovedOn(t, t', i, "SKKE_FAIL")
      BY <2>2
    <3>2. Active(t') = Active(t) /\ Active(t) \subseteq Indices
      BY <3>1 DEF MovedOn, Active
    <3>3. QED
      BY <3>1, <3>2 DEF MovedOn
  <2>3. QED
    BY <1>6, <2>1, <2>2
<1>8. InOrder(t)' /\ Active(t)' = Active(t')
  BY <1>7, InOrderNext DEF Active
<1>9. Polled' /\ NoRecords' /\ KeyAfterSkke'
  <2>1. Polled' /\ NoRecords'
    BY <1>1, <1>7, <1>8 DEF SecIInv, Polled, NoRecords
  <2>2. ASSUME NEW j \in Active(t), t'.ctrl[j].state = "TK_NWK" PROVE Who(t', j) \in done \cup crossed
    <3>1. t.ctrl[j].state = "TK_NWK" /\ Who(t', j) = Who(t, j)
      BY <1>7, <2>2
    <3>2. QED
      BY <3>1 DEF SecIInv, KeyAfterSkke, Who
  <2>3. QED
    BY <1>1, <1>7, <1>8, <2>1, <2>2 DEF KeyAfterSkke, Who
<1>10. OutcomeKnown'
  <2>1. ASSUME NEW m \in SecMail, NEW j \in Active(t), m.kind = "cfm", t'.ctrl[j].state = "SKKE_WAIT", Who(t', j) = m.ami
        PROVE  m.ami \in done \cup crossed
    <3>1. t.ctrl[j].state = "SKKE_WAIT" /\ Who(t, j) = m.ami
      BY <1>7, <2>1
    <3>2. QED
      BY <2>1, <3>1 DEF SecIInv, OutcomeKnown, Who
  <2>2. QED
    BY <1>1, <1>3, <1>7, <1>8, <2>1 DEF OutcomeKnown, Who
<1>11. GivenUp'
  <2>1. ASSUME NEW j \in Active(t), t'.ctrl[j].state = "SKKE_FAIL", Who(t', j) \in children \ fresh
        PROVE  Who(t', j) \in failed'
    <3>1. CASE t.ctrl[j].state = "SKKE_FAIL"
      BY <1>1, <1>7, <2>1, <3>1 DEF SecIInv, GivenUp, Who
    <3>2. CASE Who(t, j) = slot
      BY <1>1, <1>7, <3>2
    <3>3. QED
      BY <1>7, <2>1, <3>1, <3>2
  <2>2. QED
    BY <1>1, <1>7, <1>8, <2>1 DEF GivenUp, Who
<1>12. Accounted'
  <2>1. ASSUME NEW x PROVE Record(x)' = Record(x) /\ (EntryLookupAMI(t, x)' = 0 <=> EntryLookupAMI(t, x) = 0)
    <3>1. Record(x)' = Record(x)
      BY <1>7, RecordIs, NextRecordIs
    <3>2. EntryLookupAMI(t, x)' = 0 <=> EntryLookupAMI(t, x) = 0
      BY <1>7, NextEntryIs, NoEntryIs
    <3>3. QED
      BY <3>1, <3>2
  <2>2. QED
    BY <1>1, <2>1 DEF SecIInv, Accounted
<1>13. QED
  BY <1>3, <1>4, <1>5, <1>8, <1>9, <1>10, <1>11, <1>12 DEF SecIInv

-----------------------------------------------------------------------------
(* The rest of the world. *)

\* A device that comes anew has a short address.
LEMMA NewcomerIs ==
    ASSUME SecIInv, NEW d \in Devices, NEW a \in Addrs, Newcomer(d, a)
    PROVE  /\ joins' \in Nat /\ short' \in [Devices -> Addrs \cup {Nowhere}]
           /\ short' = [short EXCEPT ![d] = a]
           /\ \A x \in Devices : short[x] \in Addrs \/ x = d => short'[x] \in Addrs
           /\ keyed' = keyed \ {d} /\ failed' = failed \ {d} /\ lost' = lost \ {d}
<1>1. /\ joins > 0 /\ joins' = joins - 1 /\ short' = [short EXCEPT ![d] = a]
      /\ keyed' = keyed \ {d} /\ failed' = failed \ {d} /\ lost' = lost \ {d}
  BY DEF Newcomer
<1>2. joins \in Nat /\ short \in [Devices -> Addrs \cup {Nowhere}]
  BY DEF SecIInv, PlainTyped
<1>3. joins' \in Nat
  BY <1>1, <1>2
<1>4. QED
  BY <1>1, <1>2, <1>3

\* A device that associates is new, so nothing is claimed of it yet.
LEMMA AssociatePreserves ==
    ASSUME SecIInv, NEW d \in Devices, NEW a \in Addrs, Associate(d, a)
    PROVE  SecIInv'
<1>1. /\ Newcomer(d, a)
      /\ children' = children \cup {d} /\ fresh' = fresh \cup {d} /\ auth' = auth \ {d}
      /\ secTimers' = secTimers \cup {"NEW_DEVICE"}
      /\ UNCHANGED <<secMode, t, masters, permit, timed, preconfigured, secEvents, secQueue, slot, done, crossed, secTrouble>>
  BY DEF Associate, secTables, joining
<1>2. /\ joins' \in Nat /\ short' \in [Devices -> Addrs \cup {Nowhere}]
      /\ \A x \in Devices : short[x] \in Addrs \/ x = d => short'[x] \in Addrs
      /\ keyed' = keyed \ {d} /\ failed' = failed \ {d} /\ lost' = lost \ {d}
  BY <1>1, NewcomerIs
<1>3. PlainTyped' /\ DevicesTyped' /\ MastersTyped' /\ SecQueueTyped' /\ SecMail' = SecMail
  BY <1>1, <1>2 DEF SecIInv, PlainTyped, DevicesTyped, MastersTyped, SecQueueTyped, SecMail, SecBits
<1>4. /\ InOrder(t)' /\ Active(t)' = Active(t) /\ \A i : Who(t, i)' = Who(t, i)
      /\ \A x : Record(x)' = Record(x) /\ EntryLookupAMI(t, x)' = EntryLookupAMI(t, x)
  BY <1>1, SameTableNext DEF SecIInv
<1>5. children' \ fresh' = (children \ fresh) \ {d}
  BY <1>1
<1>6. Placed'
  <2>1. \A x \in fresh' : short'[x] \in Addrs
    BY <1>1, <1>2 DEF SecIInv, Placed, DevicesTyped
  <2>2. ASSUME NEW m \in SecMail, m.kind = "update" PROVE short'[m.ami] \in Addrs /\ m.ami \notin children' \ fresh'
    <3>1. secQueue \in Seq(SecMessage)
      BY DEF SecIInv, SecQueueTyped
    <3>2. m \in SecMessage
      BY <3>1 DEF SecMail
    <3>3. m.ami \in Devices
      BY <3>2 DEF SecMessage
    <3>4. QED
      BY <1>2, <1>5, <2>2, <3>3 DEF SecIInv, Placed
  <2>3. QED
    BY <1>3, <2>1, <2>2 DEF Placed
<1>7. Polled' /\ NoRecords' /\ KeyAfterSkke' /\ OutcomeKnown'
  BY <1>1, <1>3, <1>4 DEF SecIInv, Polled, NoRecords, KeyAfterSkke, OutcomeKnown
<1>8. GivenUp'
  BY <1>1, <1>2, <1>4, <1>5 DEF SecIInv, GivenUp
<1>9. Accounted'
  BY <1>1, <1>2, <1>4, <1>5 DEF SecIInv, Accounted
<1>10. QED
  BY <1>3, <1>4, <1>6, <1>7, <1>8, <1>9 DEF SecIInv

\* A device that a router announces is nobody's child here.
LEMMA AnnouncePreserves ==
    ASSUME SecIInv, NEW d \in Devices, NEW a \in Addrs, NEW p \in Parents, Announce(d, a, p)
    PROVE  SecIInv'
<1> DEFINE m0 == [kind |-> "update", ami |-> d, parent |-> p]
<1>1. /\ Newcomer(d, a) /\ d \notin children /\ secQueue' = Append(secQueue, m0)
      /\ UNCHANGED <<secMode, t, masters, children, fresh, auth, permit, timed, preconfigured, secEvents, secTimers,
                     slot, done, crossed, secTrouble>>
  BY DEF Announce, secTables, secNetwork, joining
<1>2. /\ joins' \in Nat /\ short' \in [Devices -> Addrs \cup {Nowhere}]
      /\ \A x \in Devices : short[x] \in Addrs \/ x = d => short'[x] \in Addrs
      /\ keyed' = keyed \ {d} /\ failed' = failed \ {d} /\ lost' = lost \ {d}
  BY <1>1, NewcomerIs
<1>3. m0 \in SecMessage /\ m0.kind = "update" /\ m0.ami = d
  BY DEF SecMessage
<1> HIDE DEF m0
<1>4. PlainTyped' /\ DevicesTyped' /\ MastersTyped'
  BY <1>1, <1>2 DEF SecIInv, PlainTyped, DevicesTyped, MastersTyped
<1>5. secQueue \in Seq(SecMessage)
  BY DEF SecIInv, SecQueueTyped
<1>6. SecQueueTyped' /\ SecMail' \subseteq SecMail \cup {m0}
  <2>1. /\ Append(secQueue, m0) \in Seq(SecMessage) /\ Len(Append(secQueue, m0)) = Len(secQueue) + 1
        /\ \A k \in 1 .. Len(secQueue) + 1 :
              Append(secQueue, m0)[k] = IF k = Len(secQueue) + 1 THEN m0 ELSE secQueue[k]
    BY <1>3, <1>5
  <2>2. \A k \in 1 .. Len(secQueue) + 1 : k # Len(secQueue) + 1 => k \in 1 .. Len(secQueue)
    BY <1>5
  <2>3. QED
    BY <1>1, <2>1, <2>2 DEF SecQueueTyped, SecMail
<1>7. /\ InOrder(t)' /\ Active(t)' = Active(t) /\ \A i : Who(t, i)' = Who(t, i)
      /\ \A x : Record(x)' = Record(x) /\ EntryLookupAMI(t, x)' = EntryLookupAMI(t, x)
  BY <1>1, SameTableNext DEF SecIInv
<1>8. Placed'
  <2>1. \A x \in fresh' : short'[x] \in Addrs
    BY <1>1, <1>2 DEF SecIInv, Placed, DevicesTyped
  <2>2. ASSUME NEW m \in SecMail, m.kind = "update" PROVE short'[m.ami] \in Addrs /\ m.ami \notin children' \ fresh'
    <3>1. m \in SecMessage
      BY <1>5 DEF SecMail
    <3>2. m.ami \in Devices
      BY <3>1 DEF SecMessage
    <3>3. QED
      BY <1>1, <1>2, <2>2, <3>2 DEF SecIInv, Placed
  <2>3. short'[m0.ami] \in Addrs /\ m0.ami \notin children' \ fresh'
    BY <1>1, <1>2, <1>3
  <2>4. QED
    BY <1>6, <2>1, <2>2, <2>3 DEF Placed
<1>9. Polled' /\ NoRecords' /\ KeyAfterSkke'
  BY <1>1, <1>7 DEF SecIInv, Polled, NoRecords, KeyAfterSkke
<1>10. OutcomeKnown'
  <2>1. \A m \in SecMail' : m.kind = "cfm" => m \in SecMail
    BY <1>3, <1>6
  <2>2. QED
    BY <1>1, <1>7, <2>1 DEF SecIInv, OutcomeKnown
<1>11. GivenUp' /\ Accounted'
  BY <1>1, <1>2, <1>7 DEF SecIInv, GivenUp, Accounted
<1>12. QED
  BY <1>4, <1>6, <1>7, <1>8, <1>9, <1>10, <1>11 DEF SecIInv

\* Steps that change neither the tables nor the queue, and forget nobody.
LEMMA QuietPreserves ==
    ASSUME SecIInv,
           UNCHANGED <<secMode, short, t, masters, preconfigured, secQueue, slot, done, crossed, keyed, failed, lost, joins>>,
           permit' \in BOOLEAN, timed' \in BOOLEAN, secTrouble' \in Nat,
           secEvents' \subseteq SecBits, secTimers' \subseteq SecBits,
           secEvents \cup secTimers \subseteq secEvents' \cup secTimers',
           children' \subseteq children, fresh' \subseteq fresh, auth' \subseteq auth,
           children' \ fresh' \subseteq children \ fresh
    PROVE  SecIInv'
<1>1. PlainTyped' /\ DevicesTyped' /\ MastersTyped' /\ SecQueueTyped' /\ SecMail' = SecMail
  BY DEF SecIInv, PlainTyped, DevicesTyped, MastersTyped, SecQueueTyped, SecMail
<1>2. /\ InOrder(t)' /\ Active(t)' = Active(t) /\ \A i : Who(t, i)' = Who(t, i)
      /\ \A x : Record(x)' = Record(x) /\ EntryLookupAMI(t, x)' = EntryLookupAMI(t, x)
  BY SameTableNext DEF SecIInv
<1>3. Polled' /\ NoRecords' /\ KeyAfterSkke' /\ OutcomeKnown'
  BY <1>1, <1>2 DEF SecIInv, Polled, NoRecords, KeyAfterSkke, OutcomeKnown
<1>4. Placed' /\ GivenUp' /\ Accounted'
  BY <1>1, <1>2 DEF SecIInv, Placed, GivenUp, Accounted
<1>5. QED
  BY <1>1, <1>2, <1>3, <1>4 DEF SecIInv

\* A child leaves.
LEMMA LeavePreserves ==
    ASSUME SecIInv, NEW d \in Devices, Leave(d)
    PROVE  SecIInv'
<1>1. /\ secTrouble > 0 /\ secTrouble' = secTrouble - 1
      /\ children' = children \ {d} /\ fresh' = fresh \ {d} /\ auth' = auth \ {d}
      /\ UNCHANGED <<secMode, short, t, masters, permit, timed, preconfigured, secEvents, secTimers, secQueue, slot,
                     done, crossed, keyed, failed, lost, joins>>
  BY DEF Leave, secTables, joining, task, history
<1>2. PlainTyped /\ secTrouble \in Nat
  BY DEF SecIInv, PlainTyped
<1>3. secTrouble' \in Nat
  BY <1>1, <1>2
<1>4. /\ permit' \in BOOLEAN /\ timed' \in BOOLEAN /\ secEvents' \subseteq SecBits /\ secTimers' \subseteq SecBits
  BY <1>1, <1>2 DEF PlainTyped
<1>5. QED
  BY <1>1, <1>3, <1>4, QuietPreserves

\* ZDSecMgrPermitJoining.
LEMMA PermitPreserves ==
    ASSUME SecIInv, NEW duration, PermitJoining(duration)
    PROVE  SecIInv'
<1>1. /\ permit' = (duration # "none") /\ timed' = (duration = "a while")
      /\ UNCHANGED <<secMode, short, t, masters, children, fresh, auth, preconfigured, secEvents, secTimers, secQueue,
                     slot, done, crossed, keyed, failed, lost, joins>>
  BY DEF PermitJoining, secTables, secNetwork, task, history
<1>2. PlainTyped /\ secTrouble \in Nat
  BY DEF SecIInv, PlainTyped
<1>3. secTrouble' \in Nat
  <2>1. secTrouble > 0 /\ secTrouble' = secTrouble - 1
    BY DEF PermitJoining
  <2>2. QED
    BY <1>2, <2>1
<1>4. /\ permit' \in BOOLEAN /\ timed' \in BOOLEAN
  BY <1>1
<1>5. secEvents' \subseteq SecBits /\ secTimers' \subseteq SecBits
  BY <1>1, <1>2 DEF PlainTyped
<1>6. QED
  BY <1>1, <1>3, <1>4, <1>5, QuietPreserves

\* ZDSecMgrPermitJoiningTimeout.
LEMMA TimeoutPreserves ==
    ASSUME SecIInv, PermitJoiningTimeout
    PROVE  SecIInv'
<1>1. /\ permit' = FALSE /\ timed' = FALSE
      /\ UNCHANGED <<secMode, short, t, masters, children, fresh, auth, preconfigured, secEvents, secTimers, secQueue,
                     slot, done, crossed, keyed, failed, lost, joins, secTrouble>>
  BY DEF PermitJoiningTimeout, secTables, secNetwork, task, history, secOutside
<1>2. secTrouble' \in Nat /\ secEvents' \subseteq SecBits /\ secTimers' \subseteq SecBits
  BY <1>1 DEF SecIInv, PlainTyped
<1>3. permit' \in BOOLEAN /\ timed' \in BOOLEAN
  BY <1>1
<1>4. QED
  BY <1>1, <1>2, <1>3, QuietPreserves

\* A timer's bit becomes an event.
LEMMA ExpirePreserves ==
    ASSUME SecIInv, NEW b \in SecBits, SecExpire(b)
    PROVE  SecIInv'
<1>1. /\ secTimers' = secTimers \ {b} /\ secEvents' = secEvents \cup {b}
      /\ UNCHANGED <<secMode, short, t, masters, children, fresh, auth, permit, timed, preconfigured, secQueue,
                     slot, done, crossed, keyed, failed, lost, joins, secTrouble>>
  BY DEF SecExpire, secTables, secNetwork, joining, history, secOutside
<1>2. PlainTyped
  BY DEF SecIInv
<1>3. secTrouble' \in Nat /\ permit' \in BOOLEAN /\ timed' \in BOOLEAN
  BY <1>1, <1>2 DEF PlainTyped
<1>4. secEvents' \subseteq SecBits /\ secTimers' \subseteq SecBits
  BY <1>1, <1>2 DEF PlainTyped
<1>5. secEvents \cup secTimers \subseteq secEvents' \cup secTimers'
  BY <1>1
<1>6. QED
  BY <1>1, <1>3, <1>4, <1>5, QuietPreserves

\* Nothing happens.
LEMMA StutterPreserves ==
    ASSUME SecIInv, UNCHANGED secVars
    PROVE  SecIInv'
<1>1. UNCHANGED <<secMode, short, t, masters, children, fresh, auth, permit, timed, preconfigured, secEvents, secTimers,
                  secQueue, slot, done, crossed, keyed, failed, lost, joins, secTrouble>>
  BY DEF secVars, secTables, secNetwork, joining, task, history, secOutside
<1>2. PlainTyped
  BY DEF SecIInv
<1>3. secTrouble' \in Nat /\ permit' \in BOOLEAN /\ timed' \in BOOLEAN
  BY <1>1, <1>2 DEF PlainTyped
<1>4. secEvents' \subseteq SecBits /\ secTimers' \subseteq SecBits
  BY <1>1, <1>2 DEF PlainTyped
<1>5. QED
  BY <1>1, <1>3, <1>4, QuietPreserves

\* ZDSecMgrDeviceEntryRemove: the entry and its record are free, the others as they were.
LEMMA EntryRemoved ==
    ASSUME NEW s, InOrder(s), NEW e \in Indices, NEW q, q = DeviceEntryRemove(s, e)
    PROVE  /\ InOrder(q) /\ \A k \in Indices : q.ami[k] = IF k = e THEN Nobody ELSE s.ami[k]
           /\ Active(q) = {j \in Active(s) : s.ctrl[j].entry # e}
           /\ \A j \in Active(q) : Who(q, j) = Who(s, j) /\ q.ctrl[j].state = s.ctrl[j].state
<1> DEFINE i == CtrlLookup(s, e)
           p == CtrlTerm(s, e)
<1>1. s \in Table /\ RecordsSound(s) /\ EntriesSound(s) /\ Active(s) \subseteq Indices
  BY DEF InOrder, Active
<1>2. /\ i \in {j \in Active(s) : s.ctrl[j].entry = e} \cup {0}
      /\ i = 0 <=> {j \in Active(s) : s.ctrl[j].entry = e} = {}
  <2>1. {j \in Active(s) : s.ctrl[j].entry = e} \in SUBSET Indices
    BY <1>1
  <2>2. QED
    BY <2>1, FirstIn DEF CtrlLookup
<1>3. p = IF i # 0 THEN WithState(s, i, "NONE") ELSE s
  BY DEF CtrlTerm, CtrlRelease, WithState
<1>4. q = [p EXCEPT !.ami[e] = Nobody]
  BY DEF DeviceEntryRemove, EntryFree
<1> HIDE DEF i, p
<1>5. 0 \notin Indices
  BY SizeAssumption DEF Indices
<1>6. /\ p \in Table /\ p.ami = s.ami
      /\ \A j \in Indices : /\ p.ctrl[j].entry = s.ctrl[j].entry
                            /\ p.ctrl[j].state = IF j = i THEN "NONE" ELSE s.ctrl[j].state
  <2>1. CASE i = 0
    BY <1>1, <1>3, <1>5, <2>1
  <2>2. CASE i # 0
    <3>1. i \in Indices /\ "NONE" \in CtrlStates
      BY <1>1, <1>2, <2>2 DEF CtrlStates
    <3>2. p = Restated(s, i, "NONE", s.ctrl[i].cntr) /\ s.ctrl[i].cntr \in Nat
      BY <1>1, <1>3, <2>2, <3>1, RestatedIs, Shape
    <3>3. QED
      BY <1>1, <3>1, <3>2, OthersSame
  <2>3. QED
    BY <2>1, <2>2
<1>7. /\ q \in Table /\ q.ctrl = p.ctrl
      /\ \A k \in Indices : q.ami[k] = IF k = e THEN Nobody ELSE s.ami[k]
  <2>1. p.ami \in [Indices -> Devices \cup {Nobody}] /\ p = [addr |-> p.addr, ami |-> p.ami, ctrl |-> p.ctrl]
    BY <1>6, Shape
  <2>2. q.ami = [p.ami EXCEPT ![e] = Nobody] /\ q.ctrl = p.ctrl /\ q.addr = p.addr
        /\ q = [addr |-> q.addr, ami |-> q.ami, ctrl |-> q.ctrl]
    BY <1>4, <2>1
  <2>3. q.ami \in [Indices -> Devices \cup {Nobody}]
    BY <2>1, <2>2
  <2>4. q \in Table
    BY <1>6, <2>2, <2>3 DEF Table
  <2>5. QED
    BY <1>6, <2>1, <2>2, <2>4
<1>8. Active(q) = {j \in Active(s) : s.ctrl[j].entry # e}
  <2>1. Active(q) = Active(s) \ {i}
    BY <1>5, <1>6, <1>7 DEF Active
  <2>2. ASSUME NEW j \in Active(s) PROVE j = i <=> s.ctrl[j].entry = e
    <3>1. j = i => s.ctrl[j].entry = e
      BY <1>1, <1>2, <1>5
    <3>2. s.ctrl[j].entry = e => j = i
      <4>1. ASSUME s.ctrl[j].entry = e PROVE i \in Active(s) /\ s.ctrl[i].entry = e
        BY <1>2, <4>1
      <4>2. QED
        BY <1>1, <4>1 DEF RecordsSound
    <3>3. QED
      BY <3>1, <3>2
  <2>3. QED
    BY <2>1, <2>2
<1>9. ASSUME NEW j \in Active(q)
      PROVE  /\ j \in Active(s) /\ j \in Indices /\ q.ctrl[j].entry = s.ctrl[j].entry /\ s.ctrl[j].entry # e
             /\ Who(q, j) = Who(s, j) /\ q.ctrl[j].state = s.ctrl[j].state
  <2>1. j \in Active(s) /\ j \in Indices /\ s.ctrl[j].entry # e
    BY <1>1, <1>8
  <2>2. s.ctrl[j].entry \in Indices /\ q.ctrl[j].entry = s.ctrl[j].entry
    BY <1>1, <1>6, <1>7, <2>1, Shape
  <2>3. j # i
    BY <1>2, <1>5, <2>1
  <2>4. QED
    BY <1>6, <1>7, <2>1, <2>2, <2>3 DEF Who
<1>10. RecordsSound(q)
  <2>1. ASSUME NEW j \in Active(q) PROVE q.ami[q.ctrl[j].entry] # Nobody
    BY <1>1, <1>9 DEF RecordsSound, Who
  <2>2. ASSUME NEW j \in Active(q), NEW k \in Active(q), q.ctrl[k].entry = q.ctrl[j].entry PROVE k = j
    BY <1>1, <1>9, <2>2 DEF RecordsSound
  <2>3. QED
    BY <2>1, <2>2 DEF RecordsSound
<1>11. EntriesSound(q)
  BY <1>1, <1>7 DEF EntriesSound
<1>12. \A j \in Indices : q.ctrl[j].state # "INIT"
  BY <1>6, <1>7 DEF InOrder
<1>13. QED
  BY <1>7, <1>8, <1>9, <1>10, <1>11, <1>12 DEF InOrder

\* ZDSecMgrDeviceRemoveByExtAddr.  A device without an entry is excused in high security, and in standard
\* security no device is accounted for by a record.
LEMMA RemovePreserves ==
    ASSUME SecIInv, NEW d \in Devices, DeviceRemoveByExtAddr(d)
    PROVE  SecIInv'
<1> DEFINE e == EntryLookupExt(t, d)
<1>1. e # 0 /\ t' = DeviceEntryRemove(t, e) /\ secTrouble > 0 /\ secTrouble' = secTrouble - 1
  BY DEF DeviceRemoveByExtAddr
<1>2. UNCHANGED <<secMode, short, masters, children, fresh, auth, permit, timed, preconfigured, secEvents, secTimers,
                  secQueue, slot, done, crossed, keyed, failed, lost, joins>>
  BY DEF DeviceRemoveByExtAddr, secNetwork, joining, task, history
<1>3. e \in {k \in Indices : t.ami[k] = d} \cup {0}
  BY FirstIn DEF EntryLookupExt, EntryLookupAMI
<1>4. e \in Indices /\ t.ami[e] = d /\ InOrder(t) /\ PlainTyped /\ secTrouble \in Nat
  BY <1>1, <1>3 DEF SecIInv, PlainTyped
<1> HIDE DEF e
<1>5. /\ InOrder(t') /\ \A k \in Indices : t'.ami[k] = IF k = e THEN Nobody ELSE t.ami[k]
      /\ Active(t') = {j \in Active(t) : t.ctrl[j].entry # e}
      /\ \A j \in Active(t') : Who(t', j) = Who(t, j) /\ t'.ctrl[j].state = t.ctrl[j].state
  BY <1>1, <1>4, EntryRemoved
<1>6. secTrouble' \in Nat
  BY <1>1, <1>4
<1>7. PlainTyped' /\ DevicesTyped' /\ MastersTyped' /\ SecQueueTyped' /\ SecMail' = SecMail /\ Placed'
  BY <1>2, <1>6 DEF SecIInv, PlainTyped, DevicesTyped, MastersTyped, SecQueueTyped, SecMail, Placed
<1>8. InOrder(t)' /\ Active(t)' = Active(t') /\ Active(t') \subseteq Active(t)
  BY <1>5, InOrderNext DEF Active
<1>9. Polled' /\ NoRecords'
  BY <1>2, <1>8 DEF SecIInv, Polled, NoRecords
<1>10. KeyAfterSkke' /\ OutcomeKnown' /\ GivenUp'
  BY <1>2, <1>5, <1>7, <1>8 DEF SecIInv, KeyAfterSkke, OutcomeKnown, GivenUp, Who
<1>11. Accounted'
  <2>1. ASSUME NEW x \in children \ fresh
        PROVE  \/ x \in keyed \/ Record(x)' # {} \/ x \in failed
               \/ (secMode = "high" /\ EntryLookupAMI(t, x)' = 0)
    <3>1. CASE x = d
      <4>1. \A k \in Indices : t'.ami[k] # d
        <5>1. d # Nobody
          BY NobodyAssumption
        <5>2. \A k \in Indices : t.ami[k] = d => k = e
          BY <1>4, <5>1 DEF InOrder, EntriesSound
        <5>3. QED
          BY <1>5, <5>1, <5>2
      <4>2. EntryLookupAMI(t, d)' = 0
        BY <4>1, NextEntryIs, NoEntryIs
      <4>3. secMode = "standard" => Record(d) = {} /\ secMode # "high"
        BY RecordIs DEF SecIInv, NoRecords
      <4>4. secMode \in {"high", "standard"}
        BY <1>4 DEF PlainTyped
      <4>5. x \in keyed \/ Record(x) # {} \/ x \in failed \/ secMode = "high"
        BY DEF SecIInv, Accounted
      <4>6. QED
        BY <3>1, <4>2, <4>3, <4>4, <4>5
    <3>2. CASE x # d
      <4>1. Record(x) # {} => Record(x)' # {}
        <5>1. ASSUME NEW j \in Active(t), Who(t, j) = x PROVE j \in Active(t') /\ Who(t', j) = x
          <6>1. t.ctrl[j].entry # e
            BY <1>4, <3>2, <5>1 DEF Who
          <6>2. QED
            BY <1>5, <5>1, <6>1
        <5>2. QED
          BY <5>1, RecordIs, NextRecordIs
      <4>2. EntryLookupAMI(t, x) = 0 => EntryLookupAMI(t, x)' = 0
        <5>1. x # Nobody
          BY NobodyAssumption DEF SecIInv, DevicesTyped
        <5>2. QED
          BY <1>5, <5>1, NextEntryIs, NoEntryIs
      <4>3. QED
        BY <4>1, <4>2 DEF SecIInv, Accounted
    <3>3. QED
      BY <3>1, <3>2
  <2>2. QED
    BY <1>2, <2>1 DEF Accounted
<1>12. QED
  BY <1>7, <1>8, <1>9, <1>10, <1>11 DEF SecIInv

-----------------------------------------------------------------------------
(* The theorem. *)

\* Initially, whatever NV holds.
LEMMA TrustStarts ==
    ASSUME SecMgrInit
    PROVE  SecIInv
<1>1. /\ secMode \in Modes /\ preconfigured \in BOOLEAN /\ short = [d \in Devices |-> Nowhere]
      /\ masters = {} /\ children = {} /\ fresh = {} /\ auth = {}
      /\ permit = TRUE /\ timed = FALSE
      /\ secEvents = {} /\ secTimers = {} /\ secQueue = <<>> /\ slot = Nobody
      /\ done = {} /\ crossed = {} /\ keyed = {} /\ failed = {} /\ lost = {}
      /\ joins = MaxJoins /\ secTrouble = MaxSecTrouble
  BY DEF SecMgrInit
<1>2. PICK r \in Restores :
          t = [addr |-> short, ctrl |-> CtrlInit,
               ami |-> [i \in Indices |-> IF i <= Len(r) THEN r[i] ELSE Nobody]]
  BY DEF SecMgrInit
<1>3. PlainTyped /\ DevicesTyped
  BY <1>1, SecAssumption DEF PlainTyped, DevicesTyped
<1>4. MastersTyped
  <2>1. IsFiniteSet({}) /\ Cardinality({}) = 0 /\ Size \in Nat
    BY FS_EmptySet, SizeAssumption
  <2>2. 0 <= Size
    BY <2>1
  <2>3. QED
    BY <1>1, <2>1, <2>2 DEF MastersTyped
<1>5. SecQueueTyped /\ SecMail = {}
  BY <1>1 DEF SecQueueTyped, SecMail
<1>6. t.ctrl = CtrlInit /\ \A i \in Indices : t.ctrl[i].state = "NONE"
  BY <1>2 DEF CtrlInit
<1>7. Active(t) = {}
  BY <1>6 DEF Active
<1> DEFINE f == [i \in Indices |-> IF i <= Len(r) THEN r[i] ELSE Nobody]
<1>8. /\ r \in Seq(Devices) /\ Len(r) \in Nat
      /\ \A i, j \in 1 .. Len(r) : r[i] = r[j] => i = j
  BY RestoresAssumption
<1>9. \A i \in Indices : i <= Len(r) => i \in 1 .. Len(r)
  BY <1>8 DEF Indices
<1>10. f \in [Indices -> Devices \cup {Nobody}]
  BY <1>8, <1>9
<1>11. \A i, j \in Indices : f[i] = f[j] /\ f[i] # Nobody => i = j
  BY <1>8, <1>9
<1> HIDE DEF f
<1>12. t.ami = f /\ t = [addr |-> short, ctrl |-> CtrlInit, ami |-> f]
  BY <1>2 DEF f
<1>13. t \in Table
  <2>1. CtrlInit \in [Indices -> [state : CtrlStates, entry : Indices, cntr : Nat,
                                  parent : Parents \cup {Nowhere}, secure : BOOLEAN]]
    BY SizeAssumption DEF CtrlInit, CtrlStates, Indices
  <2>2. short \in [Devices -> Addrs \cup {Nowhere}]
    BY <1>1
  <2>3. QED
    BY <1>10, <1>12, <2>1, <2>2 DEF Table
<1>14. InOrder(t)
  BY <1>6, <1>7, <1>11, <1>12, <1>13 DEF InOrder, RecordsSound, EntriesSound
<1>15. Polled /\ KeyAfterSkke /\ Accounted /\ NoRecords /\ Placed /\ OutcomeKnown /\ GivenUp
  BY <1>1, <1>5, <1>7 DEF Polled, KeyAfterSkke, Accounted, NoRecords, Placed, OutcomeKnown, GivenUp
<1>16. QED
  BY <1>3, <1>4, <1>5, <1>14, <1>15 DEF SecIInv

\* Every step.
LEMMA TrustKept ==
    ASSUME SecIInv, [SecNext]_secVars
    PROVE  SecIInv'
<1>1. CASE SecTask
  BY <1>1, NewDevicePreserves, UpdatePreserves, SecMgrPreserves, CfmPreserves DEF SecTask
<1>2. CASE Established \/ SKA_TimerExpired
  BY <1>2, EstablishedPreserves, ExpiredPreserves
<1>3. CASE \E d \in Devices, a \in Addrs : Associate(d, a) \/ \E p \in Parents \ {Self} : Announce(d, a, p)
  BY <1>3, AssociatePreserves, AnnouncePreserves
<1>4. CASE \E d \in Devices : Leave(d) \/ DeviceRemoveByExtAddr(d)
  BY <1>4, LeavePreserves, RemovePreserves
<1>5. CASE \E duration \in {"for good", "a while", "none"} : PermitJoining(duration)
  BY <1>5, PermitPreserves
<1>6. CASE PermitJoiningTimeout
  BY <1>6, TimeoutPreserves
<1>7. CASE \E b \in SecBits : SecExpire(b)
  BY <1>7, ExpirePreserves
<1>8. CASE UNCHANGED secVars
  BY <1>8, StutterPreserves
<1>9. QED
  BY <1>1, <1>2, <1>3, <1>4, <1>5, <1>6, <1>7, <1>8 DEF SecNext

\* The invariant says what is wanted.
LEMMA TrustFollows ==
    ASSUME SecIInv
    PROVE  TrustSound
<1>1. SecTypeOK
  <2>1. PlainTyped /\ DevicesTyped /\ MastersTyped /\ SecQueueTyped /\ InOrder(t)
    BY DEF SecIInv
  <2>2. secMode \in {"high", "standard"} /\ t \in Table /\ Cardinality(masters) <= Size
    BY <2>1 DEF PlainTyped, InOrder, MastersTyped
  <2>3. \A S \in {masters, children, fresh, auth, done, crossed, keyed, failed, lost} : S \subseteq Devices
    BY <2>1 DEF DevicesTyped, MastersTyped
  <2>4. /\ short \in [Devices -> Addrs \cup {Nowhere}]
        /\ permit \in BOOLEAN /\ timed \in BOOLEAN /\ preconfigured \in BOOLEAN
        /\ secEvents \subseteq SecBits /\ secTimers \subseteq SecBits
        /\ slot \in Devices \cup {Nobody}
        /\ joins \in Nat /\ secTrouble \in Nat
    BY <2>1 DEF PlainTyped
  <2>5. {permit, timed, preconfigured} \subseteq BOOLEAN
    <3>1. ASSUME NEW x \in {permit, timed, preconfigured} PROVE x \in BOOLEAN
      BY <2>4, <3>1
    <3>2. QED
      BY <3>1
  <2>6. secQueue \in Seq([kind : {"cfm", "update"}, ami : Devices, parent : Parents])
    BY <2>1 DEF SecQueueTyped, SecMessage
  <2>7. QED
    BY <2>2, <2>3, <2>4, <2>5, <2>6 DEF SecTypeOK
<1>2. QED
  BY <1>1 DEF SecIInv, InOrder, TablesSound, TrustSound

\* The trust centre keeps its tables sound, has something to come wherever a record or a child waits,
\* sends the network key in high security only after the key establishment of this joining, and
\* forgets no child: for any number of devices, routers, entries and joinings, whatever NV held.
THEOREM TrustIsSound == SecSpec => []TrustSound
<1>1. SecMgrInit => SecIInv
  BY TrustStarts
<1>2. SecIInv /\ [SecNext]_secVars => SecIInv'
  BY TrustKept
<1>3. SecIInv => TrustSound
  BY TrustFollows
<1>4. QED
  BY <1>1, <1>2, <1>3, PTL DEF SecSpec
=============================================================================
