---------------------------- MODULE CoordBridge ----------------------------
(***************************************************************************)
(* The coordinator's bridge from the serial port to the radio: the frame   *)
(* parser of MT_UART.c assembles a frame in the shared buffer Send_data    *)
(* and hands it to AF; a frame AF refuses is flagged by AF_RF, copied into *)
(* a slot of chnnd by the periodic GenericAppCoordEB, and offered to AF    *)
(* again from there, up to Retries times with a growing pause.             *)
(*                                                                         *)
(* Both run on the thread of the OSAL loop; what interleaves is the        *)
(* arrival of bytes.  Whatever part of a frame has arrived when the driver *)
(* polls is parsed, and the loop goes on with the rest still to come.      *)
(***************************************************************************)
EXTENDS Integers

CONSTANTS
    Slots,      \* slots of chnnd (5)
    Retries,    \* refusals after which a slot is given up (10)
    Pieces,     \* bound: the pieces in which the data of a frame arrives
    MaxFrames   \* bound: frames the host sends

ASSUME SlotsAssumption   == Slots \in Nat \ {0}
ASSUME RetriesAssumption == Retries \in Nat \ {0}
ASSUME PiecesAssumption  == Pieces \in Nat \ {0}
ASSUME FramesAssumption  == MaxFrames \in Nat

Slot  == 0 .. Slots - 1

\* What a frame buffer holds: of each part, whose it is.  Part 0 is the
\* length byte.  A buffer is whole if all its parts are of one frame.
Buffer   == [0 .. Pieces -> 0 .. MaxFrames]
Whole(f) == [i \in 0 .. Pieces |-> f]
Free     == Whole(0)        \* chnnd[s][0] = 0

VARIABLES
    state,             \* the parser's: "start", "length" or "data"
    tempDataLen,       \* pieces of data received
    arriving,          \* the frame the host is sending, or sent last
    Send_data,         \* the frame buffer shared by parser and resending
    AF_RF,             \* TRUE: Send_data was refused and is to be stored
    chnnd,             \* the slots
    AF_RFn,            \* tries left for the current slot; 0: no current slot
    AF_RFnd,           \* the current slot
    GenericApp_ON_OFF, \* calls to wait before the next try
    refusedFrame,      \* history: the frame refused last by its first try
    refusals,          \* history: refusals[s], of the frame now in slot s
    aired              \* history: the buffers AF has accepted

parser  == <<state, tempDataLen, arriving>>
current == <<AF_RFn, AF_RFnd, GenericApp_ON_OFF>>
vars    == <<parser, Send_data, AF_RF, chnnd, current, refusedFrame, refusals, aired>>

\* Calls to wait after a refusal that leaves n tries.
Pause(n) == 5 + (Retries - n) * 2

TypeOK ==
    /\ state \in {"start", "length", "data"}
    /\ tempDataLen \in 0 .. Pieces
    /\ arriving \in 0 .. MaxFrames
    /\ Send_data \in Buffer
    /\ AF_RF \in BOOLEAN
    /\ chnnd \in [Slot -> Buffer]
    /\ AF_RFn \in 0 .. Retries
    /\ AF_RFnd \in Slot
    /\ GenericApp_ON_OFF \in 0 .. Pause(0)
    /\ refusedFrame \in 0 .. MaxFrames
    /\ refusals \in [Slot -> 0 .. Retries]
    /\ aired \in SUBSET Buffer

Init ==
    /\ state = "start" /\ tempDataLen = 0 /\ arriving = 0
    /\ Send_data = Free
    /\ AF_RF = FALSE
    /\ chnnd = [s \in Slot |-> Free]
    /\ AF_RFn = 0 /\ AF_RFnd = 0 /\ GenericApp_ON_OFF = 0
    /\ refusedFrame = 0
    /\ refusals = [s \in Slot |-> 0]
    /\ aired = {}

-----------------------------------------------------------------------------
(* The parser.  The host sends frame after frame and knows nothing of AF.  *)

\* The byte FD that starts a frame.
RxStart ==
    /\ state = "start" /\ arriving < MaxFrames
    /\ state' = "length"
    /\ arriving' = arriving + 1
    /\ UNCHANGED <<tempDataLen, Send_data, AF_RF, chnnd, current, refusedFrame, refusals, aired>>

\* The length byte goes straight into the shared buffer.
RxLength ==
    /\ state = "length"
    /\ state' = "data"
    /\ tempDataLen' = 0
    /\ Send_data' = [Send_data EXCEPT ![0] = arriving]
    /\ UNCHANGED <<arriving, AF_RF, chnnd, current, refusedFrame, refusals, aired>>

RxPiece ==
    /\ state = "data"
    /\ tempDataLen' = tempDataLen + 1
    /\ Send_data' = [Send_data EXCEPT ![tempDataLen + 1] = arriving]
    /\ UNCHANGED <<arriving, chnnd, current, refusals>>

\* The data of the frame is not complete yet.
RxMore ==
    /\ tempDataLen + 1 < Pieces
    /\ RxPiece
    /\ UNCHANGED <<state, AF_RF, refusedFrame, aired>>

\* The complete frame is offered to AF (GenericApp_SendTheMessage), unless
\* a refused frame is still flagged.
Offer ==
    \/ /\ ~AF_RF
       /\ aired' = aired \cup {Send_data'}
       /\ UNCHANGED <<AF_RF, refusedFrame>>
    \/ /\ ~AF_RF
       /\ AF_RF' = TRUE /\ refusedFrame' = arriving
       /\ UNCHANGED aired
    \/ /\ AF_RF
       /\ UNCHANGED <<AF_RF, refusedFrame, aired>>

RxComplete ==
    /\ tempDataLen + 1 = Pieces
    /\ RxPiece
    /\ state' = "start"
    /\ Offer

-----------------------------------------------------------------------------
(* GenericAppCoordEB, in its three parts.  Each takes the resend queue q   *)
(* as the part before left it.                                             *)

Queue == [chnnd |-> chnnd, AF_RFn |-> AF_RFn, AF_RFnd |-> AF_RFnd,
          GenericApp_ON_OFF |-> GenericApp_ON_OFF]

\* The pause of the current slot ends with this call.
TryNow == AF_RFn > 0 /\ GenericApp_ON_OFF <= 1

\* The slots once the current one is freed.
Without(q) == [q.chnnd EXCEPT ![q.AF_RFnd] = Free]

\* Mutants: an accepted frame stays in its slot; its tries are not reset; a
\* refusal does not count.
AcceptedKept(q)  == [q EXCEPT !.AF_RFn = 0, !.GenericApp_ON_OFF = 0]
AcceptedTries(q) == [q EXCEPT !.GenericApp_ON_OFF = 0, !.chnnd[q.AF_RFnd] = Free]
RefusedAgain(q)  == [q EXCEPT !.GenericApp_ON_OFF = Pause(q.AF_RFn)]

Accepted(q) ==
    [q EXCEPT !.AF_RFn = 0, !.GenericApp_ON_OFF = 0, !.chnnd = Without(q)]

Refused(q) ==
    [q EXCEPT !.AF_RFn = @ - 1,
              !.GenericApp_ON_OFF = Pause(q.AF_RFn - 1),
              !.chnnd = IF q.AF_RFn = 1 THEN Without(q) ELSE @]

Pausing(q) == IF q.GenericApp_ON_OFF > 0 THEN [q EXCEPT !.GenericApp_ON_OFF = @ - 1] ELSE q

Used(q)       == {s \in Slot : q.chnnd[s] # Free}
Lowest(S)     == CHOOSE s \in S : \A r \in S : s <= r
\* AF_RFnds: the lowest slot but 0 of the used ones that end with the last.
Preferred(q)  == {s \in Slot \ {0} : \A r \in s .. Slots - 1 : r \in Used(q)}

\* Mutant: the last slot is forgotten.
SelectNotLast(q) ==
    IF q.AF_RFn = 0 /\ Used(q) \ {Slots - 1} # {}
    THEN [q EXCEPT !.AF_RFnd = Lowest(Used(q)), !.AF_RFn = Retries] ELSE q

Select(q) ==
    IF q.AF_RFn > 0 \/ Used(q) = {} THEN q
    ELSE [q EXCEPT !.AF_RFn = Retries,
                   !.AF_RFnd = IF 0 \in Used(q) /\ Preferred(q) # {}
                               THEN Lowest(Preferred(q)) ELSE Lowest(Used(q))]

\* Mutant: with every slot in use, the last one is overwritten.
StoreOver(q) ==
    IF ~AF_RF THEN q
    ELSE [q EXCEPT !.chnnd[IF Used(q) = Slot THEN Slots - 1 ELSE Lowest(Slot \ Used(q))] = Send_data]

\* A flagged frame goes to the first free slot, or nowhere.
Store(q) ==
    IF ~AF_RF \/ Used(q) = Slot THEN q
    ELSE [q EXCEPT !.chnnd[Lowest(Slot \ Used(q))] = Send_data]

\* The rest of the call, after what AF made of the current slot.
EndCall(q) ==
    LET r == Store(Select(q)) IN
    /\ chnnd' = r.chnnd
    /\ AF_RFn' = r.AF_RFn
    /\ AF_RFnd' = r.AF_RFnd
    /\ GenericApp_ON_OFF' = r.GenericApp_ON_OFF
    /\ AF_RF' = FALSE
    /\ UNCHANGED <<parser, Send_data, refusedFrame>>

CoordIdle ==
    /\ AF_RFn = 0
    /\ EndCall(Queue)
    /\ UNCHANGED <<refusals, aired>>

CoordPause ==
    /\ AF_RFn > 0 /\ ~TryNow
    /\ EndCall(Pausing(Queue))
    /\ UNCHANGED <<refusals, aired>>

CoordAccepted ==
    /\ TryNow
    /\ EndCall(Accepted(Queue))
    /\ aired' = aired \cup {chnnd[AF_RFnd]}
    /\ refusals' = [refusals EXCEPT ![AF_RFnd] = 0]

CoordRefused ==
    /\ TryNow
    /\ EndCall(Refused(Queue))
    /\ refusals' = [refusals EXCEPT ![AF_RFnd] = IF AF_RFn = 1 THEN 0 ELSE @ + 1]
    /\ UNCHANGED aired

GenericAppCoordEB == CoordIdle \/ CoordPause \/ CoordAccepted \/ CoordRefused

Next == RxStart \/ RxLength \/ RxMore \/ RxComplete \/ GenericAppCoordEB

\* The OSAL loop runs for ever and calls GenericAppCoordEB every thousand
\* rounds.  Nothing obliges the host to send.
Fairness == WF_vars(GenericAppCoordEB)
Spec == Init /\ [][Next]_vars /\ Fairness

-----------------------------------------------------------------------------
(* Properties. *)

\* While tries are left the current slot holds a frame: GenericAppCoordEB
\* never offers AF the leftovers of a slot that was freed, though the slot
\* index outlives the frame and the counter and the slot are reset by
\* different branches.
ResendsAFrame == AF_RFn > 0 => chnnd[AF_RFnd] # Free

\* The radio carries each frame at most once: a buffer is in one slot, or
\* flagged to be stored, or on the air already, never in two places.
OnePlace ==
    /\ \A s, r \in Slot : s # r /\ chnnd[s] # Free => chnnd[s] # chnnd[r]
    /\ \A s \in Slot : chnnd[s] \notin aired
    /\ AF_RF => Send_data \notin aired /\ \A s \in Slot : chnnd[s] # Send_data

\* The bridge: typed, a slot whose tries are left is full, and no frame is in
\* two places.
BridgeSound == TypeOK /\ ResendsAFrame /\ OnePlace

\* A stored frame leaves its slot, or is replaced there, only when AF has
\* accepted it or has refused it Retries times; however many frames arrive
\* meanwhile, none overwrites it and none spends its tries.
KeptUntilServed ==
    [][\A s \in Slot : chnnd[s] # Free /\ chnnd'[s] # chnnd[s]
          => chnnd[s] \in aired' \/ refusals[s] = Retries - 1]_vars

\* However AF answers, once the host pauses every slot is free again.
QueueDrains == \A s \in Slot : []<>(chnnd[s] = Free)

\* "On the failure flag, store the failed data" (comment at GenericApp.c
\* 5082).  The code stores what Send_data holds by then.
StoresFailedFrame ==
    [][\A s \in Slot : chnnd'[s] \notin {Free, chnnd[s]} => chnnd'[s] = Whole(refusedFrame)]_vars
=============================================================================
