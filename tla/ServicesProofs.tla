--------------------------- MODULE ServicesProofs ---------------------------
(***************************************************************************)
(* Proofs about CoordBridge for any number of slots, tries, pieces and     *)
(* frames: the variables of the resend queue agree, no stored frame is in  *)
(* two places, and each is kept until it has been served.  About           *)
(* ZdBindMatch for any devices, presses and troubles: each press that has  *)
(* arrived is answered once.  About AfData for any endpoints and requests: *)
(* what was taken is confirmed once, and the network layer rests while the *)
(* device is away from its channel.  About NodeApp for any kind of node    *)
(* and any commands: what a node tells is so.                              *)
(***************************************************************************)
EXTENDS CoordBridge, ZdBindMatch, AfData, NodeApp, FiniteSetTheorems, TLAPS

(***************************************************************************)
(* AF_RFn counts down what refusals counts up, and only for the current    *)
(* slot: a slot that waits has its tries before it.                        *)
(***************************************************************************)
TriesCounted ==
    \A s \in Slot : refusals[s] = IF AF_RFn > 0 /\ s = AF_RFnd THEN Retries - AF_RFn ELSE 0

IInv == TypeOK /\ ResendsAFrame /\ TriesCounted

\* The resend queue between the parts of GenericAppCoordEB: as the types say,
\* and its current slot, if any, holds a frame.
QueueOK(q) ==
    /\ q \in [chnnd : [Slot -> Buffer], AF_RFn : 0 .. Retries, AF_RFnd : Slot,
              GenericApp_ON_OFF : 0 .. Pause(0)]
    /\ q.AF_RFn > 0 => q.chnnd[q.AF_RFnd] # Free

-----------------------------------------------------------------------------
(* The operators of GenericAppCoordEB. *)

\* The lowest of some slots is one of them.
LEMMA LowestIsOne ==
    ASSUME NEW S \in SUBSET Slot, S # {}
    PROVE  Lowest(S) \in S
<1> DEFINE T == {0 .. x : x \in S}
<1>1. T \subseteq FiniteSubsetsOf(Slot) /\ T # {}
  <2>1. ASSUME NEW x \in S PROVE 0 .. x \subseteq Slot /\ IsFiniteSet(0 .. x)
    BY FS_Interval, SlotsAssumption DEF Slot
  <2>2. QED
    BY <2>1 DEF FiniteSubsetsOf
<1>2. PICK t \in T : \A u \in T : ~ (<<u, t>> \in StrictSubsetOrdering(Slot))
  <2> HIDE DEF T
  <2>1. QED
    BY <1>1, FS_StrictSubsetOrderingWellFounded, WFMin
<1>3. PICK x \in S : t = 0 .. x
  BY <1>2
<1>4. ASSUME NEW y \in S PROVE x <= y
  <2>1. 0 .. y \in T /\ 0 .. y \subseteq Slot /\ 0 .. x \subseteq Slot
    BY SlotsAssumption DEF Slot
  <2>2. ~ (0 .. y \subseteq 0 .. x /\ 0 .. y # 0 .. x)
    BY <1>2, <1>3, <2>1 DEF StrictSubsetOrdering
  <2>3. x \in Nat /\ y \in Nat
    BY SlotsAssumption DEF Slot
  <2>4. QED
    BY <2>2, <2>3
<1>5. QED
  BY <1>4 DEF Lowest

\* A pause fits the range of its counter.
LEMMA PauseRange ==
    ASSUME NEW n \in 0 .. Retries
    PROVE  Pause(n) \in 0 .. Pause(0)
BY RetriesAssumption DEF Pause

LEMMA FreeIsBuffer == Free \in Buffer
BY FramesAssumption DEF Free, Whole, Buffer

\* Select leaves the slots alone, and a current slot too; if there is none it
\* may choose one, and then grants it all its tries.
LEMMA SelectKeeps ==
    ASSUME NEW q, QueueOK(q)
    PROVE  /\ QueueOK(Select(q))
           /\ Select(q).chnnd = q.chnnd
           /\ q.AF_RFn > 0 => Select(q) = q
           /\ q.AF_RFn = 0 => Select(q).AF_RFn \in {0, Retries}
<1>1. CASE q.AF_RFn > 0 \/ Used(q) = {}
  BY <1>1 DEF Select, QueueOK
<1>2. CASE ~ (q.AF_RFn > 0 \/ Used(q) = {})
  <2> DEFINE d == IF 0 \in Used(q) /\ Preferred(q) # {} THEN Lowest(Preferred(q))
                                                        ELSE Lowest(Used(q))
  <2>1. d \in Used(q)
    <3>1. Used(q) \subseteq Slot /\ Preferred(q) \subseteq Slot
      BY DEF Used, Preferred
    <3>2. Preferred(q) \subseteq Used(q)
      BY DEF Used, Preferred, Slot
    <3>3. QED
      BY <1>2, <3>1, <3>2, LowestIsOne
  <2>2. Select(q) = [q EXCEPT !.AF_RFn = Retries, !.AF_RFnd = d]
    BY <1>2 DEF Select
  <2>3. d \in Slot /\ q.chnnd[d] # Free
    BY <2>1 DEF Used
  <2> HIDE DEF d
  <2>4. q.AF_RFn = 0
    BY <1>2, RetriesAssumption DEF QueueOK
  <2>5. /\ q \in [chnnd : [Slot -> Buffer], AF_RFn : 0 .. Retries, AF_RFnd : Slot,
                    GenericApp_ON_OFF : 0 .. Pause(0)]
        /\ Retries \in 0 .. Retries
    BY RetriesAssumption DEF QueueOK
  <2>6. /\ Select(q).chnnd = q.chnnd /\ Select(q).AF_RFn = Retries /\ Select(q).AF_RFnd = d
        /\ Select(q) \in [chnnd : [Slot -> Buffer], AF_RFn : 0 .. Retries, AF_RFnd : Slot,
                          GenericApp_ON_OFF : 0 .. Pause(0)]
    BY <2>2, <2>3, <2>5
  <2>7. QueueOK(Select(q))
    BY <2>3, <2>6 DEF QueueOK
  <2>8. QED
    BY <2>4, <2>6, <2>7
<1>3. QED
  BY <1>1, <1>2

\* Store fills a free slot, if it changes anything.
LEMMA StoreKeeps ==
    ASSUME NEW q, QueueOK(q), Send_data \in Buffer
    PROVE  /\ QueueOK(Store(q))
           /\ Store(q).AF_RFn = q.AF_RFn
           /\ Store(q).AF_RFnd = q.AF_RFnd
           /\ \A s \in Slot : q.chnnd[s] # Free => Store(q).chnnd[s] = q.chnnd[s]
<1>1. CASE ~AF_RF \/ Used(q) = Slot
  BY <1>1 DEF Store
<1>2. CASE ~ (~AF_RF \/ Used(q) = Slot)
  <2> DEFINE d == Lowest(Slot \ Used(q))
  <2>1. d \in Slot \ Used(q)
    <3>1. Slot \ Used(q) # {}
      BY <1>2 DEF Used
    <3>2. QED
      BY <3>1, LowestIsOne
  <2>2. Store(q) = [q EXCEPT !.chnnd[d] = Send_data]
    BY <1>2 DEF Store
  <2>3. d \in Slot /\ q.chnnd[d] = Free
    BY <2>1 DEF Used
  <2> HIDE DEF d
  <2>4. QED
    BY <2>2, <2>3 DEF QueueOK
<1>3. QED
  BY <1>1, <1>2

\* The rest of a call leaves a queue whose variables agree; a current slot
\* stays current with its tries; no frame leaves its slot.
LEMMA EndCallKeeps ==
    ASSUME TypeOK, NEW q, QueueOK(q), EndCall(q)
    PROVE  /\ chnnd' \in [Slot -> Buffer] /\ AF_RFn' \in 0 .. Retries
           /\ AF_RFnd' \in Slot /\ GenericApp_ON_OFF' \in 0 .. Pause(0)
           /\ ResendsAFrame'
           /\ q.AF_RFn > 0 => AF_RFn' = q.AF_RFn /\ AF_RFnd' = q.AF_RFnd
           /\ q.AF_RFn = 0 => AF_RFn' \in {0, Retries}
           /\ \A s \in Slot : q.chnnd[s] # Free => chnnd'[s] = q.chnnd[s]
           /\ AF_RF' = FALSE /\ UNCHANGED <<parser, Send_data, refusedFrame>>
<1> DEFINE c == Select(q)
           r == Store(c)
<1>1. /\ QueueOK(c) /\ c.chnnd = q.chnnd
      /\ q.AF_RFn > 0 => c = q
      /\ q.AF_RFn = 0 => c.AF_RFn \in {0, Retries}
  BY SelectKeeps
<1>2. /\ QueueOK(r) /\ r.AF_RFn = c.AF_RFn /\ r.AF_RFnd = c.AF_RFnd
      /\ \A s \in Slot : c.chnnd[s] # Free => r.chnnd[s] = c.chnnd[s]
  BY <1>1, StoreKeeps DEF TypeOK
<1>3. /\ chnnd' = r.chnnd /\ AF_RFn' = r.AF_RFn /\ AF_RFnd' = r.AF_RFnd
      /\ GenericApp_ON_OFF' = r.GenericApp_ON_OFF
      /\ AF_RF' = FALSE /\ UNCHANGED <<parser, Send_data, refusedFrame>>
  BY DEF EndCall
<1> HIDE DEF c, r
<1>4. QED
  BY <1>1, <1>2, <1>3 DEF QueueOK, ResendsAFrame

-----------------------------------------------------------------------------
(* What AF answers. *)

LEMMA QueueIsOK ==
    ASSUME TypeOK, ResendsAFrame
    PROVE  QueueOK(Queue)
BY DEF Queue, QueueOK, TypeOK, ResendsAFrame

\* Waiting changes nothing but the counter of the pause.
LEMMA PausingKeeps ==
    ASSUME TypeOK, ResendsAFrame
    PROVE  /\ QueueOK(Pausing(Queue))
           /\ Pausing(Queue).chnnd = chnnd
           /\ Pausing(Queue).AF_RFn = AF_RFn /\ Pausing(Queue).AF_RFnd = AF_RFnd
<1>1. Pause(0) \in Nat
  BY RetriesAssumption DEF Pause
<1>2. QED
  BY <1>1 DEF Pausing, Queue, QueueOK, TypeOK, ResendsAFrame

\* AF takes the frame: its slot is free, and there is no current slot.
LEMMA AcceptedKeeps ==
    ASSUME NEW q, QueueOK(q)
    PROVE  /\ QueueOK(Accepted(q))
           /\ Accepted(q).AF_RFn = 0
           /\ \A s \in Slot \ {q.AF_RFnd} : Accepted(q).chnnd[s] = q.chnnd[s]
<1> DEFINE c == Without(q)
<1>1. 0 \in 0 .. Retries /\ 0 \in 0 .. Pause(0)
  BY RetriesAssumption DEF Pause
<1>2. c \in [Slot -> Buffer] /\ \A s \in Slot \ {q.AF_RFnd} : c[s] = q.chnnd[s]
  BY FreeIsBuffer DEF QueueOK, Without
<1>3. Accepted(q) = [q EXCEPT !.AF_RFn = 0, !.GenericApp_ON_OFF = 0, !.chnnd = c]
  BY DEF Accepted
<1>4. q \in [chnnd : [Slot -> Buffer], AF_RFn : 0 .. Retries, AF_RFnd : Slot,
             GenericApp_ON_OFF : 0 .. Pause(0)]
  BY DEF QueueOK
<1> HIDE DEF c
<1>5. /\ Accepted(q).AF_RFn = 0 /\ Accepted(q).chnnd = c
      /\ Accepted(q) \in [chnnd : [Slot -> Buffer], AF_RFn : 0 .. Retries, AF_RFnd : Slot,
                          GenericApp_ON_OFF : 0 .. Pause(0)]
  BY <1>1, <1>2, <1>3, <1>4
<1>6. QED
  BY <1>2, <1>5 DEF QueueOK

\* AF refuses it: one try less, and with the last one the slot is free.
LEMMA RefusedKeeps ==
    ASSUME NEW q, QueueOK(q), q.AF_RFn > 0
    PROVE  /\ QueueOK(Refused(q))
           /\ Refused(q).AF_RFn = q.AF_RFn - 1 /\ Refused(q).AF_RFnd = q.AF_RFnd
           /\ \A s \in Slot \ {q.AF_RFnd} : Refused(q).chnnd[s] = q.chnnd[s]
           /\ q.AF_RFn > 1 => Refused(q).chnnd = q.chnnd
<1> DEFINE n == q.AF_RFn - 1
           m == Pause(n)
           c == IF q.AF_RFn = 1 THEN Without(q) ELSE q.chnnd
<1>1. n \in 0 .. Retries
  BY RetriesAssumption DEF QueueOK
<1>2. m \in 0 .. Pause(0)
  BY <1>1, PauseRange
<1>3. c \in [Slot -> Buffer] /\ \A s \in Slot \ {q.AF_RFnd} : c[s] = q.chnnd[s]
  BY FreeIsBuffer DEF QueueOK, Without
<1>4. q.AF_RFn > 1 => c = q.chnnd
  OBVIOUS
<1>5. n > 0 => c[q.AF_RFnd] # Free
  BY RetriesAssumption DEF QueueOK
<1>6. Refused(q) = [q EXCEPT !.AF_RFn = n, !.GenericApp_ON_OFF = m, !.chnnd = c]
  BY DEF Refused
<1>7. q \in [chnnd : [Slot -> Buffer], AF_RFn : 0 .. Retries, AF_RFnd : Slot,
             GenericApp_ON_OFF : 0 .. Pause(0)]
  BY DEF QueueOK
<1>8. n = q.AF_RFn - 1
  OBVIOUS
<1> HIDE DEF n, m, c
<1>9. QED
  BY <1>1, <1>2, <1>3, <1>4, <1>5, <1>6, <1>7, <1>8 DEF QueueOK

-----------------------------------------------------------------------------
(* The invariant. *)

\* A part of a frame goes into the shared buffer.
LEMMA BufferEdit ==
    ASSUME NEW b \in Buffer, NEW i \in 0 .. Pieces, NEW f \in 0 .. MaxFrames
    PROVE  [b EXCEPT ![i] = f] \in Buffer
BY DEF Buffer

LEMMA InitHolds == ASSUME Init PROVE IInv
<1>1. Free \in Buffer /\ 0 \in Slot /\ 0 \in 0 .. MaxFrames /\ 0 \in 0 .. Pieces
  BY FreeIsBuffer, SlotsAssumption, FramesAssumption, PiecesAssumption DEF Slot
<1>2. 0 \in 0 .. Retries /\ 0 \in 0 .. Pause(0)
  BY RetriesAssumption DEF Pause
<1>3. TypeOK
  BY <1>1, <1>2 DEF Init, TypeOK
<1>4. QED
  BY <1>3 DEF Init, IInv, ResendsAFrame, TriesCounted

\* The parser does not touch the resend queue.
LEMMA ParserKeeps ==
    ASSUME IInv, RxStart \/ RxLength \/ RxMore \/ RxComplete
    PROVE  IInv'
<1> USE DEF IInv, parser, current
<1>1. UNCHANGED <<chnnd, current, refusals>>
  BY DEF RxStart, RxLength, RxMore, RxComplete, RxPiece
<1>2. ResendsAFrame' /\ TriesCounted'
  BY <1>1 DEF ResendsAFrame, TriesCounted
<1>3. TypeOK'
  <2>1. CASE RxStart
    BY <2>1, FramesAssumption DEF RxStart, TypeOK
  <2>2. CASE RxLength
    <3>1. 0 \in 0 .. Pieces /\ Send_data \in Buffer /\ arriving \in 0 .. MaxFrames
      BY PiecesAssumption DEF TypeOK
    <3>2. [Send_data EXCEPT ![0] = arriving] \in Buffer
      BY <3>1, BufferEdit
    <3>3. QED
      BY <2>2, <3>1, <3>2 DEF RxLength, TypeOK
  <2>3. ASSUME RxPiece, tempDataLen + 1 <= Pieces
        PROVE  Send_data' \in Buffer /\ tempDataLen' \in 0 .. Pieces
    <3>1. tempDataLen + 1 \in 0 .. Pieces
      BY <2>3, PiecesAssumption DEF TypeOK
    <3>2. QED
      BY <2>3, <3>1, BufferEdit DEF RxPiece, TypeOK
  <2>4. CASE RxMore
    <3>1. Send_data' \in Buffer /\ tempDataLen' \in 0 .. Pieces
      BY <2>3, <2>4, PiecesAssumption DEF RxMore, TypeOK
    <3>2. QED
      BY <2>4, <3>1 DEF RxMore, RxPiece, TypeOK
  <2>5. CASE RxComplete
    <3>1. Send_data' \in Buffer /\ tempDataLen' \in 0 .. Pieces
      BY <2>3, <2>5, PiecesAssumption DEF RxComplete, TypeOK
    <3>2. /\ AF_RF' \in BOOLEAN /\ refusedFrame' \in 0 .. MaxFrames
          /\ aired' \in SUBSET Buffer
      BY <2>5, <3>1 DEF RxComplete, Offer, TypeOK
    <3>3. QED
      BY <2>5, <3>1, <3>2 DEF RxComplete, RxPiece, TypeOK
  <2>6. QED
    BY <2>1, <2>2, <2>4, <2>5
<1>4. QED
  BY <1>2, <1>3

\* What every case of GenericAppCoordEB has to show of the queue q that AF's
\* answer, or none, leaves.
LEMMA CallKeeps ==
    ASSUME IInv, NEW q, QueueOK(q), EndCall(q),
           refusals' \in [Slot -> 0 .. Retries], aired' \in SUBSET Buffer,
           \A s \in Slot : refusals'[s] = IF q.AF_RFn > 0 /\ s = q.AF_RFnd
                                          THEN Retries - q.AF_RFn ELSE 0
    PROVE  IInv'
<1>1. /\ chnnd' \in [Slot -> Buffer] /\ AF_RFn' \in 0 .. Retries
      /\ AF_RFnd' \in Slot /\ GenericApp_ON_OFF' \in 0 .. Pause(0)
      /\ ResendsAFrame'
      /\ q.AF_RFn > 0 => AF_RFn' = q.AF_RFn /\ AF_RFnd' = q.AF_RFnd
      /\ q.AF_RFn = 0 => AF_RFn' \in {0, Retries}
      /\ AF_RF' = FALSE /\ UNCHANGED <<parser, Send_data, refusedFrame>>
  BY EndCallKeeps DEF IInv
<1>2. TypeOK'
  BY <1>1 DEF IInv, TypeOK, parser
<1>3. TriesCounted'
  BY <1>1, RetriesAssumption DEF QueueOK, TriesCounted
<1>4. QED
  BY <1>1, <1>2, <1>3 DEF IInv

LEMMA CoordKeeps == ASSUME IInv, GenericAppCoordEB PROVE IInv'
<1>1. QueueOK(Queue)
  BY QueueIsOK DEF IInv
<1>2. /\ Queue.AF_RFn = AF_RFn /\ Queue.AF_RFnd = AF_RFnd /\ AF_RFn \in 0 .. Retries
      /\ refusals \in [Slot -> 0 .. Retries] /\ aired \in SUBSET Buffer
      /\ chnnd \in [Slot -> Buffer] /\ AF_RFnd \in Slot
  BY DEF Queue, IInv, TypeOK
<1>3. CASE CoordIdle
  BY <1>1, <1>2, <1>3, CallKeeps DEF CoordIdle, IInv, TriesCounted
<1>4. CASE CoordPause
  <2>1. QueueOK(Pausing(Queue)) /\ Pausing(Queue).AF_RFn = AF_RFn
        /\ Pausing(Queue).AF_RFnd = AF_RFnd
    BY PausingKeeps DEF IInv
  <2>2. QED
    BY <1>2, <1>4, <2>1, CallKeeps DEF CoordPause, IInv, TriesCounted
<1>5. CASE CoordAccepted
  <2>1. QueueOK(Accepted(Queue)) /\ Accepted(Queue).AF_RFn = 0
    BY <1>1, AcceptedKeeps
  <2>2. \A s \in Slot : refusals'[s] = 0
    BY <1>2, <1>5 DEF CoordAccepted, IInv, TriesCounted
  <2>3. refusals' \in [Slot -> 0 .. Retries] /\ aired' \in SUBSET Buffer
    BY <1>2, <1>5, RetriesAssumption DEF CoordAccepted
  <2>4. EndCall(Accepted(Queue))
    BY <1>5 DEF CoordAccepted
  <2>5. QED
    BY <2>1, <2>2, <2>3, <2>4, CallKeeps
<1>6. CASE CoordRefused
  <2>1. AF_RFn > 0 /\ EndCall(Refused(Queue)) /\ UNCHANGED aired
        /\ refusals' = [refusals EXCEPT ![AF_RFnd] = IF AF_RFn = 1 THEN 0 ELSE @ + 1]
    BY <1>6 DEF CoordRefused, TryNow
  <2>2. /\ QueueOK(Refused(Queue)) /\ Refused(Queue).AF_RFn = AF_RFn - 1
        /\ Refused(Queue).AF_RFnd = AF_RFnd
    BY <1>1, <1>2, <2>1, RefusedKeeps
  <2>3. \A s \in Slot : refusals'[s] = IF AF_RFn - 1 > 0 /\ s = AF_RFnd
                                       THEN Retries - (AF_RFn - 1) ELSE 0
    BY <1>2, <2>1, RetriesAssumption DEF IInv, TriesCounted
  <2>4. refusals' \in [Slot -> 0 .. Retries]
    <3>1. \A s \in Slot : refusals'[s] \in 0 .. Retries
      BY <1>2, <2>3, RetriesAssumption
    <3>2. QED
      BY <1>2, <2>1, <3>1
  <2>5. QED
    BY <1>2, <2>1, <2>2, <2>3, <2>4, CallKeeps
<1>7. QED
  BY <1>3, <1>4, <1>5, <1>6 DEF GenericAppCoordEB

LEMMA StutterKeeps == ASSUME IInv, UNCHANGED vars PROVE IInv'
BY DEF IInv, TypeOK, ResendsAFrame, TriesCounted, vars, parser, current

\* The types, ResendsAFrame and TriesCounted together hold for ever.
THEOREM BridgeIInv == Spec => []IInv
<1>1. Init => IInv
  BY InitHolds
<1>2. IInv /\ [Next]_vars => IInv'
  BY ParserKeeps, CoordKeeps, StutterKeeps DEF Next
<1>3. QED
  BY <1>1, <1>2, PTL DEF Spec

\* Every reachable state of the bridge is well typed (MT_UART.c,
\* GenericApp.c).
THEOREM BridgeTypeOK == Spec => []TypeOK
<1>1. IInv => TypeOK
  BY DEF IInv
<1>2. QED
  BY BridgeIInv, <1>1, PTL

\* GenericAppCoordEB never offers AF the leftovers of a freed slot.
THEOREM BridgeResendsAFrame == Spec => []ResendsAFrame
<1>1. IInv => ResendsAFrame
  BY DEF IInv
<1>2. QED
  BY BridgeIInv, <1>1, PTL

\* A stored frame leaves its slot only once AF has accepted it or has refused
\* it Retries times (GenericAppCoordEB, whatever the parser does meanwhile).
THEOREM BridgeKeptUntilServed == Spec => KeptUntilServed
<1> DEFINE Kept == \A s \in Slot : chnnd[s] # Free /\ chnnd'[s] # chnnd[s]
                      => chnnd[s] \in aired' \/ refusals[s] = Retries - 1
<1>1. ASSUME IInv, Next PROVE Kept
  <2>1. SUFFICES ASSUME NEW s \in Slot, chnnd[s] # Free, chnnd'[s] # chnnd[s]
                 PROVE  chnnd[s] \in aired' \/ refusals[s] = Retries - 1
    OBVIOUS
  <2>2. GenericAppCoordEB
    BY <1>1, <2>1 DEF Next, RxStart, RxLength, RxMore, RxComplete, RxPiece
  <2>3. /\ QueueOK(Queue) /\ Queue.chnnd = chnnd /\ Queue.AF_RFn = AF_RFn
        /\ Queue.AF_RFnd = AF_RFnd /\ AF_RFn \in 0 .. Retries
    BY <1>1, QueueIsOK DEF IInv, Queue, TypeOK
  <2>4. ASSUME NEW q, QueueOK(q), EndCall(q) PROVE q.chnnd[s] # chnnd[s]
    BY <1>1, <2>1, <2>4, EndCallKeeps DEF IInv
  <2>5. CASE CoordIdle
    BY <2>3, <2>4, <2>5 DEF CoordIdle
  <2>6. CASE CoordPause
    BY <1>1, <2>4, <2>6, PausingKeeps DEF CoordPause, IInv
  <2>7. CASE CoordAccepted
    <3>1. s = AF_RFnd
      BY <2>3, <2>4, <2>7, AcceptedKeeps DEF CoordAccepted
    <3>2. QED
      BY <2>7, <3>1 DEF CoordAccepted
  <2>8. CASE CoordRefused
    <3>1. AF_RFn > 0 /\ EndCall(Refused(Queue))
      BY <2>8 DEF CoordRefused, TryNow
    <3>2. /\ QueueOK(Refused(Queue))
          /\ \A r \in Slot \ {AF_RFnd} : Refused(Queue).chnnd[r] = chnnd[r]
          /\ AF_RFn > 1 => Refused(Queue).chnnd = chnnd
      BY <2>3, <3>1, RefusedKeeps
    <3>3. s = AF_RFnd /\ ~ (AF_RFn > 1)
      BY <2>4, <3>1, <3>2
    <3>4. QED
      BY <1>1, <2>3, <3>1, <3>3, RetriesAssumption DEF IInv, TriesCounted
  <2>9. QED
    BY <2>2, <2>5, <2>6, <2>7, <2>8 DEF GenericAppCoordEB
<1>2. IInv /\ [Next]_vars => [Kept]_vars
  BY <1>1
<1>3. QED
  BY BridgeIInv, <1>2, PTL DEF KeptUntilServed, Spec
-----------------------------------------------------------------------------
(* No frame is in two places.  Of a buffer's parts only the last tells: it *)
(* is written when a frame is complete, so it names the frame the buffer   *)
(* was completed for, though the parts before it may be of a later one.    *)

LastPiece(b) == b[Pieces]

\* The frame that was completed last.
Completed == IF state = "start" THEN arriving ELSE arriving - 1

\* A buffer that is stored, flagged or aired was completed.
LastsKnown ==
    /\ state # "start" => arriving >= 1
    /\ \A s \in Slot : chnnd[s] # Free => LastPiece(chnnd[s]) \in 1 .. Completed
    /\ \A b \in aired : LastPiece(b) \in 1 .. Completed
    /\ AF_RF => LastPiece(Send_data) \in 1 .. Completed

\* And each for a frame of its own.
LastsApart ==
    /\ \A s, r \in Slot : s # r /\ chnnd[s] # Free /\ chnnd[r] # Free => LastPiece(chnnd[s]) # LastPiece(chnnd[r])
    /\ \A s \in Slot, b \in aired : chnnd[s] # Free => LastPiece(chnnd[s]) # LastPiece(b)
    /\ AF_RF => /\ \A s \in Slot : chnnd[s] # Free => LastPiece(chnnd[s]) # LastPiece(Send_data)
                /\ \A b \in aired : LastPiece(b) # LastPiece(Send_data)

Lasts == LastsKnown /\ LastsApart

LEMMA LastsImplyOnePlace == ASSUME Lasts PROVE OnePlace
<1> USE DEF Lasts, LastsKnown, LastsApart
<1>1. LastPiece(Free) = 0
  BY PiecesAssumption DEF LastPiece, Free, Whole
<1>2. ASSUME NEW s \in Slot, NEW r \in Slot, s # r, chnnd[s] # Free
      PROVE  chnnd[s] # chnnd[r]
  BY <1>2
<1>3. ASSUME NEW s \in Slot PROVE chnnd[s] \notin aired
  BY <1>1
<1>4. ASSUME AF_RF PROVE Send_data \notin aired /\ \A s \in Slot : chnnd[s] # Send_data
  BY <1>1, <1>4
<1>5. QED
  BY <1>2, <1>3, <1>4 DEF OnePlace

LEMMA LastsAtInit == ASSUME Init PROVE Lasts
BY DEF Init, Lasts, LastsKnown, LastsApart

\* A frame that is completed is younger than all that were, wherever it goes.
LEMMA ParserKeepsLasts ==
    ASSUME TypeOK, Lasts, RxStart \/ RxLength \/ RxMore \/ RxComplete
    PROVE  Lasts'
<1> USE DEF Lasts
<1>1. /\ UNCHANGED chnnd
      /\ arriving \in Nat /\ Send_data \in Buffer /\ tempDataLen \in 0 .. Pieces
      /\ Pieces \in Nat \ {0}
  BY PiecesAssumption, FramesAssumption
     DEF TypeOK, RxStart, RxLength, RxMore, RxComplete, RxPiece
<1>2. ASSUME UNCHANGED <<chnnd, aired, AF_RF>>, LastPiece(Send_data') = LastPiece(Send_data),
             Completed' = Completed, state' # "start" => arriving' >= 1
      PROVE  Lasts'
  BY <1>2 DEF LastsKnown, LastsApart, LastPiece
<1>3. CASE RxStart
  BY <1>1, <1>2, <1>3 DEF RxStart, Completed, LastsKnown
<1>4. CASE RxLength
  <2>1. LastPiece(Send_data') = LastPiece(Send_data)
    BY <1>1, <1>4 DEF RxLength, LastPiece, Buffer
  <2>2. QED
    BY <1>1, <1>2, <1>4, <2>1 DEF RxLength, Completed, LastsKnown
<1>5. CASE RxMore
  <2>1. LastPiece(Send_data') = LastPiece(Send_data)
    BY <1>1, <1>5 DEF RxMore, RxPiece, LastPiece, Buffer
  <2>2. QED
    BY <1>1, <1>2, <1>5, <2>1 DEF RxMore, RxPiece, Completed, LastsKnown
<1>6. CASE RxComplete
  <2>1. /\ LastPiece(Send_data') = arriving
        /\ state = "data" /\ state' = "start" /\ arriving' = arriving /\ arriving >= 1
        /\ Completed = arriving - 1 /\ Completed' = arriving
    BY <1>1, <1>6 DEF RxComplete, RxPiece, LastPiece, Buffer, Completed, LastsKnown
  <2>2. /\ \A s \in Slot : chnnd[s] # Free => LastPiece(chnnd[s]) \in 1 .. arriving - 1
        /\ \A b \in aired : LastPiece(b) \in 1 .. arriving - 1
    BY <2>1 DEF LastsKnown
  <2>3. CASE ~AF_RF /\ aired' = aired \cup {Send_data'} /\ UNCHANGED AF_RF
    BY <1>1, <2>1, <2>2, <2>3 DEF LastsKnown, LastsApart, LastPiece
  <2>4. CASE UNCHANGED aired
    <3>1. \A s \in Slot : chnnd[s] # Free => LastPiece(chnnd[s]) # arriving
      BY <1>1, <2>2
    <3>2. \A b \in aired : LastPiece(b) # arriving
      BY <1>1, <2>2
    <3>3. LastsKnown'
      BY <1>1, <2>1, <2>2, <2>4 DEF LastsKnown, LastPiece
    <3>4. LastsApart'
      BY <1>1, <2>1, <2>4, <3>1, <3>2 DEF LastsApart, LastPiece
    <3>5. QED
      BY <3>3, <3>4
  <2>5. QED
    BY <1>6, <2>3, <2>4 DEF RxComplete, Offer
<1>7. QED
  BY <1>3, <1>4, <1>5, <1>6

\* The rest of a call puts the flagged frame into a free slot, or nowhere.
LEMMA EndCallStores ==
    ASSUME TypeOK, NEW q, QueueOK(q), EndCall(q)
    PROVE  /\ AF_RF' = FALSE
           /\ UNCHANGED <<state, arriving>>
           /\ \/ chnnd' = q.chnnd
              \/ AF_RF /\ \E d \in Slot : q.chnnd[d] = Free /\ chnnd' = [q.chnnd EXCEPT ![d] = Send_data]
<1> DEFINE c == Select(q)
<1>1. QueueOK(c) /\ c.chnnd = q.chnnd
  BY SelectKeeps
<1>2. chnnd' = Store(c).chnnd /\ AF_RF' = FALSE /\ UNCHANGED <<state, arriving>>
  BY DEF EndCall, parser
<1> HIDE DEF c
<1>3. CASE ~AF_RF \/ Used(c) = Slot
  BY <1>1, <1>2, <1>3 DEF Store
<1>4. CASE ~ (~AF_RF \/ Used(c) = Slot)
  <2> DEFINE d == Lowest(Slot \ Used(c))
  <2>1. d \in Slot \ Used(c)
    <3>1. Slot \ Used(c) # {}
      BY <1>4 DEF Used
    <3>2. QED
      BY <3>1, LowestIsOne
  <2>2. Store(c) = [c EXCEPT !.chnnd[d] = Send_data]
    BY <1>4 DEF Store
  <2>3. d \in Slot /\ c.chnnd[d] = Free
    BY <2>1 DEF Used
  <2> HIDE DEF d
  <2>4. Store(c).chnnd = [c.chnnd EXCEPT ![d] = Send_data]
    BY <1>1, <2>2 DEF QueueOK
  <2>5. QED
    BY <1>1, <1>2, <1>4, <2>3, <2>4
<1>5. QED
  BY <1>3, <1>4

\* What a call has to show of the slots c and the aired buffers a AF's answer
\* leaves: a frame that is aired has left its slot.
LEMMA CallKeepsLasts ==
    ASSUME TypeOK, Lasts, NEW q, QueueOK(q), EndCall(q),
           \A s \in Slot : q.chnnd[s] \in {Free, chnnd[s]},
           \/ UNCHANGED aired
           \/ \E t \in Slot : /\ chnnd[t] # Free /\ q.chnnd[t] = Free
                              /\ aired' = aired \cup {chnnd[t]}
    PROVE  Lasts'
<1> DEFINE c == q.chnnd
<1>1. c \in [Slot -> Buffer]
  BY DEF QueueOK
<1>2. AF_RF' = FALSE /\ UNCHANGED <<state, arriving>> /\ Completed' = Completed
  BY EndCallStores DEF Completed
<1>3. /\ \A s \in Slot : c[s] # Free => LastPiece(c[s]) \in 1 .. Completed
      /\ \A b \in aired' : LastPiece(b) \in 1 .. Completed
  BY DEF Lasts, LastsKnown
<1>4. \A s, r \in Slot : s # r /\ c[s] # Free /\ c[r] # Free => LastPiece(c[s]) # LastPiece(c[r])
  BY DEF Lasts, LastsApart
<1>5. \A s \in Slot, b \in aired' : c[s] # Free => LastPiece(c[s]) # LastPiece(b)
  BY DEF Lasts, LastsApart
<1>6. CASE chnnd' = c
  BY <1>2, <1>3, <1>4, <1>5, <1>6 DEF Lasts, LastsKnown, LastsApart, LastPiece
<1>7. CASE AF_RF /\ \E d \in Slot : c[d] = Free /\ chnnd' = [c EXCEPT ![d] = Send_data]
  <2>1. PICK d \in Slot : c[d] = Free /\ chnnd' = [c EXCEPT ![d] = Send_data]
    BY <1>7
  <2>2. chnnd'[d] = Send_data /\ \A s \in Slot \ {d} : chnnd'[s] = c[s]
    BY <1>1, <2>1
  <2>3. /\ LastPiece(Send_data) \in 1 .. Completed
        /\ \A s \in Slot : c[s] # Free => LastPiece(c[s]) # LastPiece(Send_data)
        /\ \A b \in aired' : LastPiece(b) # LastPiece(Send_data)
    BY <1>7 DEF Lasts, LastsKnown, LastsApart
  <2> HIDE DEF c
  <2>4. LastsKnown'
    <3>1. \A s \in Slot : chnnd'[s] # Free => LastPiece(chnnd'[s]) \in 1 .. Completed
      BY <1>3, <2>2, <2>3
    <3>2. QED
      BY <1>2, <1>3, <3>1 DEF Lasts, LastsKnown, LastPiece
  <2>5. LastsApart'
    <3>1. \A s, r \in Slot : s # r /\ chnnd'[s] # Free /\ chnnd'[r] # Free
             => LastPiece(chnnd'[s]) # LastPiece(chnnd'[r])
      BY <1>4, <2>2, <2>3
    <3>2. \A s \in Slot, b \in aired' : chnnd'[s] # Free => LastPiece(chnnd'[s]) # LastPiece(b)
      BY <1>5, <2>2, <2>3
    <3>3. QED
      BY <1>2, <3>1, <3>2 DEF LastsApart, LastPiece
  <2>6. QED
    BY <2>4, <2>5 DEF Lasts
<1>8. QED
  BY <1>6, <1>7, EndCallStores

LEMMA CoordKeepsLasts == ASSUME IInv, Lasts, GenericAppCoordEB PROVE Lasts'
<1>1. /\ TypeOK /\ ResendsAFrame /\ QueueOK(Queue) /\ Queue.chnnd = chnnd
      /\ Queue.AF_RFn = AF_RFn /\ Queue.AF_RFnd = AF_RFnd
      /\ AF_RFnd \in Slot /\ AF_RFn \in 0 .. Retries /\ chnnd \in [Slot -> Buffer]
  BY QueueIsOK DEF IInv, Queue, TypeOK
<1>2. ASSUME NEW q, QueueOK(q), EndCall(q), q.chnnd \in {chnnd, Without(Queue)}, UNCHANGED aired
      PROVE  Lasts'
  <2>1. \A s \in Slot : q.chnnd[s] \in {Free, chnnd[s]}
    BY <1>1, <1>2 DEF Without
  <2>2. QED
    BY <1>1, <1>2, <2>1, CallKeepsLasts
<1>3. CASE CoordIdle
  BY <1>1, <1>2, <1>3 DEF CoordIdle
<1>4. CASE CoordPause
  BY <1>1, <1>2, <1>4, PausingKeeps DEF CoordPause
<1>5. CASE CoordAccepted
  <2>1. QueueOK(Accepted(Queue)) /\ Accepted(Queue).chnnd = Without(Queue)
    <3>1. QueueOK(Accepted(Queue))
      BY <1>1, AcceptedKeeps
    <3>2. Accepted(Queue).chnnd = Without(Queue)
      BY DEF Accepted, Queue
    <3>3. QED
      BY <3>1, <3>2
  <2>2. AF_RFn > 0 /\ EndCall(Accepted(Queue)) /\ aired' = aired \cup {chnnd[AF_RFnd]}
    BY <1>5 DEF CoordAccepted, TryNow
  <2>3. chnnd[AF_RFnd] # Free
    BY <1>1, <2>2 DEF ResendsAFrame
  <2>4. /\ \A s \in Slot : Without(Queue)[s] \in {Free, chnnd[s]}
        /\ Without(Queue)[AF_RFnd] = Free
    BY <1>1 DEF Without
  <2>5. QED
    BY <1>1, <2>1, <2>2, <2>3, <2>4, CallKeepsLasts
<1>6. CASE CoordRefused
  <2>1. AF_RFn > 0 /\ EndCall(Refused(Queue)) /\ UNCHANGED aired
    BY <1>6 DEF CoordRefused, TryNow
  <2>2. QueueOK(Refused(Queue))
    BY <1>1, <2>1, RefusedKeeps
  <2>3. Refused(Queue).chnnd \in {chnnd, Without(Queue)}
    BY <1>1 DEF Refused, Queue
  <2>4. QED
    BY <1>2, <2>1, <2>2, <2>3
<1>7. QED
  BY <1>3, <1>4, <1>5, <1>6 DEF GenericAppCoordEB

\* The bridge is sound: well typed, a slot with tries left holds a frame, and
\* no frame is in two slots, or both in a slot and on the air, however AF
\* answers and whatever has arrived when it does (MT_UART.c, GenericApp.c).
THEOREM BridgeIsSound == Spec => []BridgeSound
<1>1. Init => IInv /\ Lasts
  BY InitHolds, LastsAtInit
<1>2. ASSUME IInv, Lasts, [Next]_vars PROVE IInv' /\ Lasts'
  <2>1. CASE RxStart \/ RxLength \/ RxMore \/ RxComplete
    BY <1>2, <2>1, ParserKeeps, ParserKeepsLasts DEF IInv
  <2>2. CASE GenericAppCoordEB
    BY <1>2, <2>2, CoordKeeps, CoordKeepsLasts
  <2>3. CASE UNCHANGED vars
    BY <1>2, <2>3, StutterKeeps
       DEF vars, parser, current, Lasts, LastsKnown, LastsApart, Completed, LastPiece
  <2>4. QED
    BY <1>2, <2>1, <2>2, <2>3 DEF Next
<1>3. IInv /\ Lasts => BridgeSound
  BY LastsImplyOnePlace DEF IInv, BridgeSound
<1>4. QED
  BY <1>1, <1>2, <1>3, PTL DEF Spec

-----------------------------------------------------------------------------
(***************************************************************************)
(* Pairing.                                                                *)
(***************************************************************************)
Statuses == {"SUCCESS", "NO_ENTRY", "NO_MATCH", "NOT_SUPPORTED", "TIMEOUT", "TABLE_FULL"}
PressRec == [dev : Devices, lists : Pressed, answers : Seq(Statuses)]
PressMsg(p) == [kind |-> "End_Device_Bind_req", to |-> ZDO, press |-> p]
Arrived == 1 .. Len(presses)

\* The presses that are on their way, wait to be served, or have a place in matchED.
InAir == {p \in Arrived : PressMsg(p) \in air}
InQueue == {p \in Arrived : \E i \in 1 .. Len(queue) : queue[i] = PressMsg(p)}
InMatch == {p \in Arrived : matchED # NoMatch /\ (p = matchED.ed1.press \/ p = matchED.ed2.press)}

PressesOK ==
    /\ presses \in Seq(PressRec)
    /\ \A p \in Arrived : Len(presses[p].answers) <= 1

\* A press is in one place at a time, and is answered when it leaves the last.
PlacesApart ==
    /\ \A p \in InAir : p \notin InQueue /\ p \notin InMatch
    /\ \A p \in InQueue : p \notin InMatch
    /\ InAir \subseteq Unanswered /\ InQueue \subseteq Unanswered /\ InMatch \subseteq Unanswered
    /\ Unanswered \subseteq InAir \cup InQueue \cup InMatch \cup dropped

Requests == {PressMsg(p) : p \in Arrived}
Answers == [kind : Responses, to : {ZDO}, seq : Nat, status : Statuses]

Messages ==
    /\ transID \in Nat
    /\ \A m \in air : /\ m.kind \in BindRequests => m \in Requests
                      /\ m.kind \in Responses => m \in Answers
                      /\ m.to # ZDO => m.seq \in Nat
    /\ queue \in Seq(Requests \cup Answers)
    /\ \A i, j \in 1 .. Len(queue) : i # j /\ queue[i] \in Requests => queue[i] # queue[j]
    /\ \A c : <<ZDO, c>> \in registered <=> c \in BindRequests \cup Responses

NoneFreed(m) == \A i \in 1 .. 6 : PointersOf(m)[i] # "freed"

\* A pair in matchED: one waits for the second, or both wait for the requests.
PairOK(m) ==
    /\ m = [state |-> m.state, ed1 |-> m.ed1, ed2 |-> m.ed2, sending |-> m.sending,
            transSeq |-> m.transSeq, n1 |-> m.n1, n2 |-> m.n2,
            list1 |-> m.list1, list2 |-> m.list2, p1 |-> m.p1, p2 |-> m.p2]
    /\ m.ed1.press \in Arrived
    /\ \/ m.state = "WAIT_REQ" /\ m.ed2.press = 0
       \/ m.state = "SENDING_BINDS" /\ m.ed2.press \in Arrived /\ m.ed2.press # m.ed1.press

MatchOK == matchED # NoMatch => timer /\ PairOK(matchED)

MemoryOK ==
    /\ troubles \in Nat
    /\ memory = [stray |-> memory.stray, twice |-> memory.twice]
    /\ troubles = 0 => ~memory.stray /\ ~memory.twice /\ (matchED # NoMatch => NoneFreed(matchED))

BInv == PressesOK /\ PlacesApart /\ Messages /\ MatchOK /\ MemoryOK

-----------------------------------------------------------------------------
LEMMA InitBInv == BindInit => BInv
<1> SUFFICES ASSUME BindInit PROVE BInv
  OBVIOUS
<1>1. presses = <<>> /\ air = {} /\ queue = <<>> /\ matchED = NoMatch /\ troubles = 0 /\ transID = 0
      /\ memory = [stray |-> FALSE, twice |-> FALSE] /\ Arrived = {}
  BY DEF BindInit, Arrived
<1>2. PressesOK
  BY <1>1 DEF PressesOK
<1>3. PlacesApart
  BY <1>1 DEF PlacesApart, Unanswered, InAir, InQueue, InMatch
<1>4. Messages
  BY <1>1 DEF Messages, BindInit, BindRequests, Responses
<1>5. MatchOK /\ MemoryOK
  BY <1>1 DEF MatchOK, MemoryOK
<1> QED
  BY <1>2, <1>3, <1>4, <1>5 DEF BInv

LEMMA InvAnswered == BInv => PressesAnswered
<1> SUFFICES ASSUME BInv PROVE PressesAnswered
  OBVIOUS
<1>1. DOMAIN presses = Arrived
  BY DEF BInv, PressesOK, Arrived
<1>2. \A p \in DOMAIN presses : Len(presses[p].answers) <= 1
  BY <1>1 DEF BInv, PressesOK
<1>3. ASSUME NEW p \in Unanswered
      PROVE  \/ \E m \in air \cup ToSet(queue) : m.kind = "End_Device_Bind_req" /\ m.press = p
             \/ matchED # NoMatch /\ p \in {matchED.ed1.press, matchED.ed2.press}
             \/ p \in dropped
  <2>1. CASE p \in InAir
    BY <2>1 DEF InAir, PressMsg
  <2>2. CASE p \in InQueue
    <3>1. PICK i \in 1 .. Len(queue) : queue[i] = PressMsg(p)
      BY <2>2 DEF InQueue
    <3>2. queue[i] \in ToSet(queue)
      BY <3>1 DEF ToSet, BInv, Messages
    <3> QED
      BY <3>1, <3>2 DEF PressMsg
  <2>3. CASE p \in InMatch
    BY <2>3 DEF InMatch
  <2> QED
    BY <1>3, <2>1, <2>2, <2>3 DEF BInv, PlacesApart
<1> QED
  BY <1>2, <1>3 DEF PressesAnswered, BInv, MatchOK, MemoryOK

\* Answering a press adds to the answers of that one.
LEMMA AnsweredOK ==
    ASSUME NEW ps \in Seq(PressRec), NEW p \in 1 .. Len(ps), ps[p].answers = <<>>, NEW s \in Statuses
    PROVE  /\ Answered(ps, p, s) \in Seq(PressRec)
           /\ Len(Answered(ps, p, s)) = Len(ps)
           /\ Answered(ps, p, s)[p].answers = <<s>>
           /\ \A q \in 1 .. Len(ps) : q # p => Answered(ps, p, s)[q] = ps[q]
<1> DEFINE r == [ps[p] EXCEPT !.answers = Append(@, s)]
<1>1. ps[p] \in PressRec
  OBVIOUS
<1>2. Append(ps[p].answers, s) = <<s>> /\ <<s>> \in Seq(Statuses)
  OBVIOUS
<1>3. r \in PressRec /\ r.answers = <<s>>
  BY <1>1, <1>2 DEF PressRec
<1>4. Answered(ps, p, s) = [ps EXCEPT ![p] = r]
  BY DEF Answered
<1> HIDE DEF r
<1> QED
  BY <1>3, <1>4

-----------------------------------------------------------------------------
\* The messages of presses are told apart by the press, and from answers by the kind.
LEMMA PressMsgIs ==
    /\ \A p : PressMsg(p).press = p /\ PressMsg(p).kind = "End_Device_Bind_req" /\ PressMsg(p).to = ZDO
    /\ \A p, q : PressMsg(p) = PressMsg(q) => p = q
    /\ \A p : PressMsg(p) \notin Answers /\ PressMsg(p).kind \in BindRequests
    /\ \A m \in Requests : m.kind \in BindRequests /\ m \notin Answers /\ m.press \in Arrived /\ m = PressMsg(m.press)
    /\ \A m \in Answers : m.kind \in Responses /\ m.kind \notin BindRequests
<1>1. \A p : PressMsg(p).press = p /\ PressMsg(p).kind = "End_Device_Bind_req" /\ PressMsg(p).to = ZDO
  BY DEF PressMsg
<1>2. \A m \in Answers : m.kind \in Responses /\ m.kind \notin BindRequests
  BY DEF Answers, Responses, BindRequests
<1>3. \A p : PressMsg(p) \notin Answers /\ PressMsg(p).kind \in BindRequests
  BY <1>1, <1>2 DEF BindRequests
<1>4. \A m \in Requests : m.kind \in BindRequests /\ m \notin Answers /\ m.press \in Arrived /\ m = PressMsg(m.press)
  BY <1>1, <1>3 DEF Requests
<1> QED
  BY <1>1, <1>2, <1>3, <1>4

\* How many of a few things fail is a number, 0 if none of them does.
LEMMA CountOfFew ==
    ASSUME NEW a, NEW b, NEW c, NEW d, NEW e, NEW S \in SUBSET {a, b, c, d, e}
    PROVE  Cardinality(S) \in Nat /\ (Cardinality(S) = 0 => S = {})
<1>1. IsFiniteSet({a, b, c, d, e})
  <2>1. IsFiniteSet({}) 
    BY FS_EmptySet
  <2>2. IsFiniteSet({} \cup {a})
    BY <2>1, FS_AddElement
  <2>3. IsFiniteSet(({} \cup {a}) \cup {b})
    BY <2>2, FS_AddElement
  <2>4. IsFiniteSet((({} \cup {a}) \cup {b}) \cup {c})
    BY <2>3, FS_AddElement
  <2>5. IsFiniteSet(((({} \cup {a}) \cup {b}) \cup {c}) \cup {d})
    BY <2>4, FS_AddElement
  <2>6. IsFiniteSet((((({} \cup {a}) \cup {b}) \cup {c}) \cup {d}) \cup {e})
    BY <2>5, FS_AddElement
  <2>7. (((({} \cup {a}) \cup {b}) \cup {c}) \cup {d}) \cup {e} = {a, b, c, d, e}
    OBVIOUS
  <2> QED
    BY <2>6, <2>7
<1>2. IsFiniteSet(S)
  BY <1>1, FS_Subset
<1> QED
  BY <1>2, FS_CardinalityType, FS_EmptySet

\* What is left of the invariant when neither matchED nor what is told of it changes.
LEMMA MatchKept ==
    ASSUME BInv, UNCHANGED <<matchED, timer, memory>>, Arrived \subseteq Arrived',
           troubles' \in Nat, troubles' = 0 => troubles = 0
    PROVE  MatchOK' /\ MemoryOK'
<1>1. MatchOK'
  BY DEF BInv, MatchOK, PairOK
<1>2. MemoryOK'
  BY DEF BInv, MemoryOK, NoneFreed, PointersOf
<1> QED
  BY <1>1, <1>2

LEMMA HostStep == ASSUME BInv, HostRegisters PROVE BInv'
<1>1. UNCHANGED <<queue, air, transID, matchED, timer, bound, presses, base, dropped, memory>>
  BY DEF HostRegisters, Histories
<1>2. \A c : <<ZDO, c>> \in registered' <=> <<ZDO, c>> \in registered
  BY DEF HostRegisters, ZDO, ZDO_RemoveRegisteredCB, ZDO_RegisterForZDOMsg
<1>3. troubles' \in Nat /\ (troubles' = 0 => troubles = 0)
  BY DEF HostRegisters, Troubled, BInv, MemoryOK
<1>4. Arrived' = Arrived /\ Requests' = Requests /\ Unanswered' = Unanswered
  BY <1>1 DEF Arrived, Requests, Unanswered
<1>5. PressesOK' /\ PlacesApart'
  BY <1>1, <1>4 DEF BInv, PressesOK, PlacesApart, InAir, InQueue, InMatch
<1>6. Messages'
  BY <1>1, <1>2, <1>4 DEF BInv, Messages
<1> QED
  BY <1>1, <1>3, <1>4, <1>5, <1>6, MatchKept DEF BInv

LEMMA SendStep ==
    ASSUME BInv, NEW m \in air, m.to = ZDO, ZDO_SendMsgCBs(m)
    PROVE  BInv'
<1> DEFINE tasks == {t \in {ZDO, "MT"} : <<t, m.kind>> \in registered}
<1>1. PICK without \in SUBSET tasks :
       /\ Troubled(Cardinality(without))
       /\ queue' = IF ZDO \in tasks \ without THEN Append(queue, m) ELSE queue
       /\ presses' = IF tasks \ without = {} /\ m.kind \in BindRequests
                     THEN Answered(presses, m.press, "NOT_SUPPORTED") ELSE presses
       /\ dropped' = IF ZDO \in without /\ tasks # without /\ m.kind \in BindRequests
                     THEN dropped \cup {m.press} ELSE dropped
       /\ air' = air \ {m}
       /\ UNCHANGED <<registered, transID, matchED, timer, bound, base, memory>>
  BY DEF ZDO_SendMsgCBs
<1>2. troubles' \in Nat /\ (troubles' = 0 => troubles = 0)
  <2>1. without \in SUBSET {ZDO, "MT", ZDO, ZDO, ZDO}
    BY <1>1
  <2>2. Cardinality(without) \in Nat
    BY <2>1, CountOfFew
  <2> QED
    BY <1>1, <2>2 DEF Troubled, BInv, MemoryOK
<1>3. CASE m.kind \in BindRequests
  <2>1. m \in Requests
    BY <1>3 DEF BInv, Messages
  <2>2. PICK p \in Arrived : m = PressMsg(p)
    BY <2>1 DEF Requests
  <2>3. m.press = p /\ p \in InAir /\ p \in Unanswered /\ p \notin InQueue /\ p \notin InMatch
    BY <2>2, PressMsgIs DEF InAir, BInv, PlacesApart
  <2>4. ZDO \in tasks
    BY <1>3 DEF BInv, Messages
  <2>5. /\ presses' \in Seq(PressRec) /\ Len(presses') = Len(presses)
        /\ \A q \in Arrived : q # p => presses'[q] = presses[q]
        /\ presses'[p].answers = presses[p].answers
              \/ (ZDO \in without /\ tasks = without /\ Len(presses'[p].answers) = 1)
    <3>1. presses \in Seq(PressRec) /\ presses[p].answers = <<>>
      BY <2>3 DEF BInv, PressesOK, Unanswered
    <3>2. "NOT_SUPPORTED" \in Statuses
      BY DEF Statuses
    <3>3. CASE tasks \ without = {}
      <4>1. presses' = Answered(presses, p, "NOT_SUPPORTED") /\ tasks = without
        BY <1>1, <1>3, <2>3, <3>3
      <4>2. p \in 1 .. Len(presses)
        BY DEF Arrived
      <4>3. /\ Answered(presses, p, "NOT_SUPPORTED") \in Seq(PressRec)
            /\ Len(Answered(presses, p, "NOT_SUPPORTED")) = Len(presses)
            /\ Answered(presses, p, "NOT_SUPPORTED")[p].answers = <<"NOT_SUPPORTED">>
            /\ \A q \in 1 .. Len(presses) : q # p => Answered(presses, p, "NOT_SUPPORTED")[q] = presses[q]
        BY <3>1, <3>2, <4>2, AnsweredOK
      <4> QED
        BY <2>4, <4>1, <4>3 DEF Arrived
    <3>4. CASE tasks \ without # {}
      BY <1>1, <3>1, <3>4
    <3> QED
      BY <3>3, <3>4
  <2>6. Arrived' = Arrived /\ Requests' = Requests
    BY <2>5 DEF Arrived, Requests
  <2>7. PressesOK'
    <3>1. \A q \in Arrived : Len(presses[q].answers) <= 1
      BY DEF BInv, PressesOK
    <3>2. Len(presses'[p].answers) <= 1
      <4>1. CASE presses'[p].answers = presses[p].answers
        BY <3>1, <4>1
      <4>2. CASE Len(presses'[p].answers) = 1
        BY <4>2
      <4> QED
        BY <2>5, <4>1, <4>2
    <3>3. \A q \in Arrived : Len(presses'[q].answers) <= 1
      BY <2>5, <3>1, <3>2
    <3> QED
      BY <2>5, <2>6, <3>3 DEF PressesOK
  <2>8. /\ InAir' = InAir \ {p} /\ InMatch' = InMatch
        /\ InQueue' = IF ZDO \in without THEN InQueue ELSE InQueue \cup {p}
    <3>1. InAir' = InAir \ {p} /\ InMatch' = InMatch
      BY <1>1, <2>2, <2>6, PressMsgIs DEF InAir, InMatch
    <3>2. CASE ZDO \in without
      <4>1. queue' = queue
        BY <1>1, <3>2
      <4>2. InQueue' = InQueue
        BY <2>6, <4>1 DEF InQueue
      <4> QED
        BY <3>1, <3>2, <4>2
    <3>3. CASE ZDO \notin without
      <4>1. queue' = Append(queue, m) /\ queue \in Seq(Requests \cup Answers)
        BY <1>1, <2>4, <3>3 DEF BInv, Messages
      <4>2. /\ Len(queue') = Len(queue) + 1 /\ Len(queue) \in Nat
            /\ \A i \in 1 .. Len(queue) : queue'[i] = queue[i]
            /\ queue'[Len(queue) + 1] = m
        BY <4>1
      <4>3. \A q \in Arrived : (\E i \in 1 .. Len(queue') : queue'[i] = PressMsg(q)) <=>
                                 (\E i \in 1 .. Len(queue) : queue[i] = PressMsg(q)) \/ q = p
        BY <4>2, <2>2, PressMsgIs
      <4>4. InQueue' = InQueue \cup {p}
        BY <2>6, <4>3 DEF InQueue
      <4> QED
        BY <3>1, <3>3, <4>4
    <3> QED
      BY <3>1, <3>2, <3>3
  <2>9. /\ Unanswered' \subseteq Unanswered /\ Unanswered \ {p} \subseteq Unanswered'
        /\ ZDO \notin without => p \in Unanswered'
        /\ ZDO \in without => p \notin Unanswered' \/ p \in dropped'
    <3>1. DOMAIN presses = Arrived /\ DOMAIN presses' = Arrived
      BY <2>5 DEF BInv, PressesOK, Arrived
    <3>2. Unanswered' \subseteq Unanswered /\ Unanswered \ {p} \subseteq Unanswered'
      BY <2>3, <2>5, <3>1 DEF Unanswered
    <3>3. ASSUME ZDO \notin without PROVE p \in Unanswered'
      BY <2>3, <2>5, <3>1, <3>3 DEF Unanswered
    <3>4. ASSUME ZDO \in without PROVE p \notin Unanswered' \/ p \in dropped'
      <4>1. CASE tasks = without
        <5>1. presses' = Answered(presses, p, "NOT_SUPPORTED")
          BY <1>1, <1>3, <2>3, <4>1
        <5>2. presses \in Seq(PressRec) /\ presses[p].answers = <<>> /\ p \in 1 .. Len(presses)
          BY <2>3 DEF BInv, PressesOK, Unanswered, Arrived
        <5>3. "NOT_SUPPORTED" \in Statuses
          BY DEF Statuses
        <5>4. Answered(presses, p, "NOT_SUPPORTED")[p].answers = <<"NOT_SUPPORTED">>
          BY <5>2, <5>3, AnsweredOK
        <5> QED
          BY <5>1, <5>4 DEF Unanswered
      <4>2. CASE tasks # without
        BY <1>1, <1>3, <2>3, <3>4, <4>2
      <4> QED
        BY <4>1, <4>2
    <3> QED
      BY <3>2, <3>3, <3>4
  <2>10. dropped \subseteq dropped'
    BY <1>1
  <2>11. PlacesApart'
    BY <2>3, <2>8, <2>9, <2>10 DEF BInv, PlacesApart
  <2>12. Messages'
    <3>1. \A x \in air' : /\ x.kind \in BindRequests => x \in Requests'
                          /\ x.kind \in Responses => x \in Answers
                          /\ x.to # ZDO => x.seq \in Nat
      BY <1>1, <2>6 DEF BInv, Messages
    <3>5. /\ transID' \in Nat
          /\ \A c : <<ZDO, c>> \in registered' <=> c \in BindRequests \cup Responses
      BY <1>1, <2>6 DEF BInv, Messages
    <3>2. \A i \in 1 .. Len(queue) : queue[i] # m
      BY <2>2, <2>3 DEF InQueue
    <3>3. queue' \in Seq(Requests \cup Answers)
      BY <1>1, <2>1 DEF BInv, Messages
    <3>4. \A i, j \in 1 .. Len(queue') : i # j /\ queue'[i] \in Requests => queue'[i] # queue'[j]
      BY <1>1, <3>2 DEF BInv, Messages
    <3> QED
      BY <2>6, <3>1, <3>5, <3>3, <3>4 DEF Messages
  <2> QED
    BY <1>1, <1>2, <2>6, <2>7, <2>11, <2>12, MatchKept DEF BInv
<1>4. CASE m.kind \notin BindRequests
  <2>1. presses' = presses /\ dropped' = dropped
    BY <1>1, <1>4
  <2>2. Arrived' = Arrived /\ Requests' = Requests /\ Unanswered' = Unanswered
    BY <2>1 DEF Arrived, Requests, Unanswered
  <2>3. queue' = queue \/ (m \in Answers /\ queue' = Append(queue, m))
    BY <1>1, <1>4 DEF BInv, Messages
  <2>4. \A p : m # PressMsg(p)
    BY <1>4, PressMsgIs
  <2>5. /\ queue' \in Seq(Requests \cup Answers)
        /\ \A p \in Arrived : (\E i \in 1 .. Len(queue') : queue'[i] = PressMsg(p)) <=>
                              (\E i \in 1 .. Len(queue) : queue[i] = PressMsg(p))
        /\ \A i, j \in 1 .. Len(queue') : i # j /\ queue'[i] \in Requests => queue'[i] # queue'[j]
    <3>1. CASE queue' = queue
      BY <3>1 DEF BInv, Messages
    <3>2. CASE m \in Answers /\ queue' = Append(queue, m)
      <4>1. /\ Len(queue') = Len(queue) + 1 /\ Len(queue) \in Nat
            /\ \A i \in 1 .. Len(queue) : queue'[i] = queue[i]
            /\ queue'[Len(queue) + 1] = m
        BY <3>2 DEF BInv, Messages
      <4>2. queue' \in Seq(Requests \cup Answers)
        BY <3>2 DEF BInv, Messages
      <4>3. m \notin Requests
        BY <3>2, PressMsgIs
      <4> QED
        BY <2>4, <4>1, <4>2, <4>3 DEF BInv, Messages
    <3> QED
      BY <2>3, <3>1, <3>2
  <2>6. InAir' = InAir /\ InQueue' = InQueue /\ InMatch' = InMatch
    BY <1>1, <2>2, <2>4, <2>5 DEF InAir, InQueue, InMatch
  <2>7. PressesOK' /\ PlacesApart'
    BY <2>1, <2>2, <2>6 DEF BInv, PressesOK, PlacesApart
  <2>8. Messages'
    BY <1>1, <2>2, <2>5 DEF BInv, Messages
  <2> QED
    BY <1>1, <1>2, <2>2, <2>7, <2>8, MatchKept DEF BInv
<1> QED
  BY <1>3, <1>4

\* Only messages that no press sent come and go.
LEMMA AirKept ==
    ASSUME BInv, UNCHANGED <<registered, queue, matchED, timer, presses, dropped, memory>>,
           transID' \in Nat, troubles' \in Nat, troubles' = 0 => troubles = 0,
           \A p \in Arrived : PressMsg(p) \in air' <=> PressMsg(p) \in air,
           \A m \in air' \ air : /\ m.kind \notin BindRequests
                                 /\ m.kind \in Responses => m \in Answers
                                 /\ m.to # ZDO => m.seq \in Nat
    PROVE  BInv'
<1>1. Arrived' = Arrived /\ Requests' = Requests /\ Unanswered' = Unanswered
  BY DEF Arrived, Requests, Unanswered
<1>2. InAir' = InAir /\ InQueue' = InQueue /\ InMatch' = InMatch
  BY <1>1 DEF InAir, InQueue, InMatch
<1>3. PressesOK' /\ PlacesApart'
  BY <1>1, <1>2 DEF BInv, PressesOK, PlacesApart
<1>4. Messages'
  <2>1. \A m \in air' : /\ m.kind \in BindRequests => m \in Requests
                        /\ m.kind \in Responses => m \in Answers
                        /\ m.to # ZDO => m.seq \in Nat
    BY DEF BInv, Messages
  <2>2. /\ queue \in Seq(Requests \cup Answers)
        /\ \A i, j \in 1 .. Len(queue) : i # j /\ queue[i] \in Requests => queue[i] # queue[j]
        /\ \A c : <<ZDO, c>> \in registered <=> c \in BindRequests \cup Responses
    BY DEF BInv, Messages
  <2> QED
    BY <1>1, <2>1, <2>2 DEF Messages
<1> QED
  BY <1>1, <1>3, <1>4, MatchKept DEF BInv

LEMMA PressStep == ASSUME BInv, NEW d \in Devices, NEW l \in Pressed, Press(d, l) PROVE BInv'
<1> DEFINE n == Len(presses) + 1
           r == [dev |-> d, lists |-> l, answers |-> <<>>]
<1>1. /\ presses' = Append(presses, r) /\ air' = air \cup {PressMsg(n)}
      /\ UNCHANGED <<registered, queue, transID, matchED, timer, dropped, memory, troubles>>
  BY DEF Press, Histories, PressMsg
<1>2. r \in PressRec /\ r.answers = <<>>
  BY DEF PressRec
<1> HIDE DEF r
<1>3. /\ presses \in Seq(PressRec) /\ Len(presses) \in Nat
      /\ presses' \in Seq(PressRec) /\ Len(presses') = n
      /\ \A p \in Arrived : presses'[p] = presses[p]
      /\ presses'[n] = r
  BY <1>1, <1>2 DEF BInv, PressesOK, Arrived
<1>4. Arrived' = Arrived \cup {n} /\ n \notin Arrived /\ Arrived \subseteq Arrived'
  BY <1>3 DEF Arrived
<1>5. PressesOK'
  <2>1. Len(presses'[n].answers) <= 1
    BY <1>2, <1>3
  <2>2. \A p \in Arrived : Len(presses'[p].answers) <= 1
    BY <1>3 DEF BInv, PressesOK
  <2> QED
    BY <1>3, <1>4, <2>1, <2>2 DEF PressesOK
<1>6. Unanswered' = Unanswered \cup {n}
  <2>1. DOMAIN presses = Arrived /\ DOMAIN presses' = Arrived'
    BY <1>3 DEF Arrived
  <2> QED
    BY <1>2, <1>3, <1>4, <2>1 DEF Unanswered
<1>7. queue \in Seq(Requests \cup Answers) /\ Requests \subseteq Requests' /\ PressMsg(n) \notin Requests
  BY <1>4, PressMsgIs DEF BInv, Messages, Requests
<1>8. InAir' = InAir \cup {n}
  BY <1>1, <1>4, PressMsgIs DEF InAir
<1>9. InQueue' = InQueue
  <2>1. \A i \in 1 .. Len(queue) : queue[i] # PressMsg(n)
    BY <1>7, PressMsgIs
  <2> QED
    BY <1>1, <1>4, <2>1 DEF InQueue
<1>10. InMatch' = InMatch
  <2>1. matchED # NoMatch => n # matchED.ed1.press /\ n # matchED.ed2.press
    <3>1. 0 # n
      BY <1>3
    <3> QED
      BY <1>4, <3>1 DEF BInv, MatchOK, PairOK
  <2> QED
    BY <1>1, <1>4, <2>1 DEF InMatch
<1>11. n \notin InQueue /\ n \notin InMatch
  BY <1>4 DEF InQueue, InMatch
<1>12. PlacesApart'
  BY <1>1, <1>6, <1>8, <1>9, <1>10, <1>11 DEF BInv, PlacesApart
<1>13. Messages'
  <2>1. PressMsg(n) \in Requests'
    BY <1>4 DEF Requests
  <2>2. PressMsg(n).kind \notin Responses /\ PressMsg(n).to = ZDO
    BY PressMsgIs DEF Responses
  <2>3. \A m \in air' : /\ m.kind \in BindRequests => m \in Requests'
                        /\ m.kind \in Responses => m \in Answers
                        /\ m.to # ZDO => m.seq \in Nat
    BY <1>1, <1>7, <2>1, <2>2 DEF BInv, Messages
  <2>4. queue' \in Seq(Requests' \cup Answers)
    BY <1>1, <1>7
  <2>5. \A i \in 1 .. Len(queue) : queue[i] \in Requests' => queue[i] \in Requests
    BY <1>7, PressMsgIs DEF Requests
  <2> QED
    BY <1>1, <2>3, <2>4, <2>5 DEF BInv, Messages
<1> QED
  BY <1>1, <1>4, <1>5, <1>12, <1>13, MatchKept DEF BInv, MemoryOK

LEMMA OwnStep == ASSUME BInv, NEW d \in Devices, NEW c, OwnRequest(d, c) PROVE BInv'
<1> DEFINE ask == [kind |-> "Bind_req", to |-> d, seq |-> transID, cluster |-> c, dst |-> Elsewhere]
<1>1. /\ air' = air \cup {ask} /\ transID' = (transID + 1) % 256 /\ troubles' = troubles + 1
      /\ UNCHANGED <<registered, queue, matchED, timer, presses, dropped, memory>>
  BY DEF OwnRequest, Troubled, Histories
<1>2. ask.kind = "Bind_req" /\ ask.seq \in Nat
  BY DEF BInv, Messages
<1>3. transID' \in Nat /\ troubles' \in Nat /\ troubles' # 0
  BY <1>1 DEF BInv, Messages, MemoryOK
<1> HIDE DEF ask
<1>4. ask.kind \notin BindRequests /\ ask.kind \notin Responses
  BY <1>2 DEF BindRequests, Responses
<1>5. \A p \in Arrived : PressMsg(p) \in air' <=> PressMsg(p) \in air
  BY <1>1, <1>4, PressMsgIs
<1>6. \A m \in air' \ air : m = ask
  BY <1>1
<1> QED
  BY <1>1, <1>2, <1>3, <1>4, <1>5, <1>6, AirKept

LEMMA ServedStep == ASSUME BInv, NEW m \in air, m.to # ZDO, ProcessBindUnbindReq(m) PROVE BInv'
<1> DEFINE entry == <<m.to, m.cluster, m.dst>>
           full == Cardinality({b \in bound : b[1] = m.to}) >= TableMax
           status == IF m.kind = "Bind_req" THEN IF full THEN "TABLE_FULL" ELSE "SUCCESS"
                     ELSE IF entry \in bound THEN "SUCCESS" ELSE "NO_ENTRY"
           answer == [kind |-> IF m.kind = "Bind_req" THEN "Bind_rsp" ELSE "Unbind_rsp", to |-> ZDO,
                      seq |-> m.seq, status |-> status]
<1>1. /\ air' = (air \ {m}) \cup {answer}
      /\ UNCHANGED <<registered, queue, transID, matchED, timer, presses, dropped, memory, troubles>>
  BY DEF ProcessBindUnbindReq, Histories
<1>2. status \in Statuses
  BY DEF Statuses
<1>3. m.seq \in Nat
  BY DEF BInv, Messages
<1> HIDE DEF status
<1>4. answer \in Answers /\ answer.to = ZDO
  BY <1>2, <1>3 DEF Answers, Responses
<1> HIDE DEF answer
<1>5. answer.kind \notin BindRequests
  BY <1>4, PressMsgIs
<1>6. \A p \in Arrived : PressMsg(p) # m /\ PressMsg(p) # answer
  BY <1>4, PressMsgIs
<1>7. \A p \in Arrived : PressMsg(p) \in air' <=> PressMsg(p) \in air
  BY <1>1, <1>6
<1>8. \A x \in air' \ air : x = answer
  BY <1>1
<1>9. transID' \in Nat /\ troubles' \in Nat /\ (troubles' = 0 => troubles = 0)
  BY <1>1 DEF BInv, Messages, MemoryOK
<1> QED
  BY <1>1, <1>4, <1>5, <1>7, <1>8, <1>9, AirKept

LEMMA LoseStep == ASSUME BInv, NEW m \in air, Lose(m) PROVE BInv'
<1>1. /\ air' = air \ {m} /\ troubles' = troubles + 1
      /\ dropped' = IF m.kind \in BindRequests THEN dropped \cup {m.press} ELSE dropped
      /\ UNCHANGED <<registered, queue, transID, matchED, timer, presses, memory>>
  BY DEF Lose, Troubled
<1>2. transID' \in Nat /\ troubles' \in Nat /\ troubles' # 0
  BY <1>1 DEF BInv, Messages, MemoryOK
<1>3. CASE m.kind \notin BindRequests
  <2>1. \A p \in Arrived : PressMsg(p) \in air' <=> PressMsg(p) \in air
    BY <1>1, <1>3, PressMsgIs
  <2>2. \A x \in air' : x \in air
    BY <1>1
  <2> QED
    BY <1>1, <1>2, <1>3, <2>1, <2>2, AirKept
<1>4. CASE m.kind \in BindRequests
  <2>1. PICK p \in Arrived : m = PressMsg(p)
    BY <1>4 DEF BInv, Messages, Requests
  <2>2. m.press = p
    BY <2>1, PressMsgIs
  <2>3. Arrived' = Arrived /\ Requests' = Requests /\ Unanswered' = Unanswered
    BY <1>1 DEF Arrived, Requests, Unanswered
  <2>4. InAir' = InAir \ {p} /\ InQueue' = InQueue /\ InMatch' = InMatch
    BY <1>1, <2>1, <2>3, PressMsgIs DEF InAir, InQueue, InMatch
  <2>5. dropped' = dropped \cup {p}
    BY <1>1, <1>4, <2>2
  <2>6. PressesOK' /\ PlacesApart'
    BY <1>1, <2>3, <2>4, <2>5 DEF BInv, PressesOK, PlacesApart
  <2>7. Messages'
    BY <1>1, <2>3 DEF BInv, Messages
  <2> QED
    BY <1>1, <1>2, <2>3, <2>6, <2>7, MatchKept DEF BInv
<1> QED
  BY <1>3, <1>4

-----------------------------------------------------------------------------
(* What the ZDO's task does.                                               *)

Taken == {p \in Arrived : Head(queue) = PressMsg(p)}

\* A message taken leaves the others in the queue, each where it was.
LEMMA TakenFirst ==
    ASSUME BInv, queue # <<>>
    PROVE  /\ Tail(queue) \in Seq(Requests \cup Answers) /\ Head(queue) \in Requests \cup Answers
           /\ \A p \in Arrived : (\E i \in 1 .. Len(Tail(queue)) : Tail(queue)[i] = PressMsg(p)) <=>
                                 p \in InQueue \ Taken
           /\ \A i, j \in 1 .. Len(Tail(queue)) : i # j /\ Tail(queue)[i] \in Requests =>
                                                  Tail(queue)[i] # Tail(queue)[j]
           /\ Taken \subseteq InQueue
<1>1. /\ queue \in Seq(Requests \cup Answers)
      /\ \A i, j \in 1 .. Len(queue) : i # j /\ queue[i] \in Requests => queue[i] # queue[j]
  BY DEF BInv, Messages
<1>2. /\ Len(queue) \in Nat /\ Len(queue) > 0 /\ Head(queue) = queue[1]
      /\ Len(Tail(queue)) = Len(queue) - 1
      /\ \A i \in 1 .. Len(Tail(queue)) : Tail(queue)[i] = queue[i + 1]
      /\ Tail(queue) \in Seq(Requests \cup Answers) /\ Head(queue) \in Requests \cup Answers
  BY <1>1
<1>3. ASSUME NEW p \in Arrived
      PROVE  (\E i \in 1 .. Len(Tail(queue)) : Tail(queue)[i] = PressMsg(p)) <=> p \in InQueue \ Taken
  <2>1. PressMsg(p) \in Requests
    BY DEF Requests
  <2>2. ASSUME NEW i \in 1 .. Len(Tail(queue)), Tail(queue)[i] = PressMsg(p)
        PROVE  p \in InQueue \ Taken
    <3>1. i + 1 \in 1 .. Len(queue) /\ 1 \in 1 .. Len(queue) /\ queue[i + 1] = PressMsg(p) /\ i + 1 # 1
      BY <1>2, <2>2
    <3>2. queue[i + 1] # queue[1]
      BY <1>1, <2>1, <3>1
    <3> QED
      BY <1>2, <3>1, <3>2 DEF InQueue, Taken
  <2>3. ASSUME p \in InQueue \ Taken
        PROVE  \E i \in 1 .. Len(Tail(queue)) : Tail(queue)[i] = PressMsg(p)
    <3>1. PICK i \in 1 .. Len(queue) : queue[i] = PressMsg(p)
      BY <2>3 DEF InQueue
    <3>2. i # 1
      BY <1>2, <2>3, <3>1 DEF Taken
    <3>3. i - 1 \in 1 .. Len(Tail(queue)) /\ (i - 1) + 1 = i
      BY <1>2, <3>2
    <3>4. Tail(queue)[i - 1] = queue[i]
      BY <1>2, <3>3
    <3> QED
      BY <3>1, <3>3, <3>4
  <2> QED
    BY <2>2, <2>3
<1>4. \A i, j \in 1 .. Len(Tail(queue)) : i # j /\ Tail(queue)[i] \in Requests =>
                                          Tail(queue)[i] # Tail(queue)[j]
  <2> SUFFICES ASSUME NEW i \in 1 .. Len(Tail(queue)), NEW j \in 1 .. Len(Tail(queue)), i # j,
                      Tail(queue)[i] \in Requests
               PROVE  Tail(queue)[i] # Tail(queue)[j]
    OBVIOUS
  <2>1. i + 1 \in 1 .. Len(queue) /\ j + 1 \in 1 .. Len(queue) /\ i + 1 # j + 1
    BY <1>2
  <2> QED
    BY <1>1, <1>2, <2>1
<1>5. Taken \subseteq InQueue
  BY <1>2 DEF Taken, InQueue
<1> QED
  BY <1>2, <1>3, <1>4, <1>5

\* The task has taken the presses at Q from the queue, the presses at G are
\* answered, and what neither has a place now nor is answered was dropped.
LEMMA Settled ==
    ASSUME BInv, UNCHANGED registered,
           NEW Q, \/ queue' = queue /\ Q = {}
                  \/ queue # <<>> /\ queue' = Tail(queue) /\ Q = Taken,
           presses' \in Seq(PressRec), Len(presses') = Len(presses),
           NEW G \in SUBSET Arrived, \A p \in G : Len(presses'[p].answers) = 1,
           \A p \in Arrived \ G : presses'[p] = presses[p],
           air \subseteq air',
           \A m \in air' \ air : m.kind \notin BindRequests /\ m.kind \notin Responses /\ m.seq \in Nat,
           dropped \subseteq dropped', transID' \in Nat,
           InMatch' \subseteq InMatch \cup Q, G \subseteq InMatch \cup Q, G \cap InMatch' = {},
           InMatch \cup Q \subseteq InMatch' \cup G \cup dropped',
           MatchOK', MemoryOK'
    PROVE  BInv'
<1>1. Arrived' = Arrived /\ Requests' = Requests
  BY DEF Arrived, Requests
<1>2. PressesOK'
  <2>1. \A p \in Arrived : Len(presses'[p].answers) <= 1
    <3> TAKE p \in Arrived
    <3>1. CASE p \in G
      <4>1. Len(presses'[p].answers) = 1
        BY <3>1
      <4> QED
        BY <4>1
    <3>2. CASE p \notin G
      <4>1. presses'[p] = presses[p]
        BY <3>2
      <4>2. Len(presses[p].answers) <= 1
        BY DEF BInv, PressesOK
      <4> QED
        BY <4>1, <4>2
    <3> QED
      BY <3>1, <3>2
  <2> QED
    BY <1>1, <2>1 DEF PressesOK
<1>3. InAir' = InAir
  BY <1>1, PressMsgIs DEF InAir
<1>4. InQueue' = InQueue \ Q /\ Q \subseteq InQueue
  <2>1. CASE queue' = queue /\ Q = {}
    BY <1>1, <2>1 DEF InQueue
  <2>2. CASE queue # <<>> /\ queue' = Tail(queue) /\ Q = Taken
    <3>1. /\ Taken \subseteq InQueue
          /\ \A p \in Arrived : (\E i \in 1 .. Len(queue') : queue'[i] = PressMsg(p)) <=> p \in InQueue \ Taken
      BY <2>2, TakenFirst
    <3>2. InQueue' = {p \in Arrived : p \in InQueue \ Taken}
      BY <1>1, <3>1 DEF InQueue
    <3>3. InQueue \subseteq Arrived
      BY DEF InQueue
    <3> QED
      BY <2>2, <3>1, <3>2, <3>3
  <2> QED
    BY <2>1, <2>2
<1>5. Unanswered' = Unanswered \ G
  <2>1. DOMAIN presses = Arrived /\ DOMAIN presses' = Arrived
    BY DEF BInv, PressesOK, Arrived
  <2>2. \A p \in G : presses'[p].answers # <<>>
    OBVIOUS
  <2> QED
    BY <2>1, <2>2 DEF Unanswered
<1>6. PlacesApart'
  <2>1. /\ \A p \in InAir : p \notin InQueue /\ p \notin InMatch /\ p \in Unanswered
        /\ \A p \in InQueue : p \notin InMatch /\ p \in Unanswered
        /\ \A p \in InMatch : p \in Unanswered
        /\ \A p \in Unanswered : p \in InAir \/ p \in InQueue \/ p \in InMatch \/ p \in dropped
    BY DEF BInv, PlacesApart
  <2>2. /\ \A p \in InAir' : p \notin InQueue' /\ p \notin InMatch' /\ p \in Unanswered'
        /\ \A p \in InQueue' : p \notin InMatch' /\ p \in Unanswered'
        /\ \A p \in InMatch' : p \in Unanswered'
        /\ \A p \in Unanswered' : p \in InAir' \/ p \in InQueue' \/ p \in InMatch' \/ p \in dropped'
    BY <1>3, <1>4, <1>5, <2>1
  <2> QED
    BY <2>2 DEF PlacesApart
<1>7. Messages'
  <2>1. \A x \in air' : /\ x.kind \in BindRequests => x \in Requests
                        /\ x.kind \in Responses => x \in Answers
                        /\ x.to # ZDO => x.seq \in Nat
    BY DEF BInv, Messages
  <2>2. /\ queue' \in Seq(Requests \cup Answers)
        /\ \A i, j \in 1 .. Len(queue') : i # j /\ queue'[i] \in Requests => queue'[i] # queue'[j]
    <3>1. CASE queue' = queue
      BY <3>1 DEF BInv, Messages
    <3>2. CASE queue # <<>> /\ queue' = Tail(queue)
      BY <3>2, TakenFirst
    <3> QED
      BY <3>1, <3>2
  <2>3. \A c : <<ZDO, c>> \in registered' <=> c \in BindRequests \cup Responses
    BY DEF BInv, Messages
  <2> QED
    BY <1>1, <2>1, <2>2, <2>3 DEF Messages
<1> QED
  BY <1>2, <1>6, <1>7 DEF BInv

\* The two answered, or the one that waits.
LEMMA PairAnswered ==
    ASSUME PressesOK, NEW a \in Arrived, NEW b \in Arrived, a # b, a \in Unanswered, b \in Unanswered,
           NEW s \in Statuses
    PROVE  LET ps == Answered(Answered(presses, a, s), b, s)
           IN /\ ps \in Seq(PressRec) /\ Len(ps) = Len(presses)
              /\ \A p \in {a, b} : Len(ps[p].answers) = 1
              /\ \A p \in Arrived \ {a, b} : ps[p] = presses[p]
<1> DEFINE one == Answered(presses, a, s)
           two == Answered(one, b, s)
<1>1. presses \in Seq(PressRec) /\ a \in 1 .. Len(presses) /\ presses[a].answers = <<>>
  BY DEF PressesOK, Arrived, Unanswered
<1>2. /\ one \in Seq(PressRec) /\ Len(one) = Len(presses) /\ one[a].answers = <<s>>
      /\ \A q \in 1 .. Len(presses) : q # a => one[q] = presses[q]
  BY <1>1, AnsweredOK
<1>3. b \in 1 .. Len(one) /\ one[b].answers = <<>>
  BY <1>2 DEF Arrived, Unanswered
<1> HIDE DEF one
<1>4. /\ two \in Seq(PressRec) /\ Len(two) = Len(one) /\ two[b].answers = <<s>>
      /\ \A q \in 1 .. Len(one) : q # b => two[q] = one[q]
  BY <1>2, <1>3, AnsweredOK
<1> HIDE DEF two
<1>5. /\ two \in Seq(PressRec) /\ Len(two) = Len(presses)
      /\ Len(two[a].answers) = 1 /\ Len(two[b].answers) = 1
      /\ \A p \in Arrived \ {a, b} : two[p] = presses[p]
  <2>1. two[a] = one[a]
    BY <1>2, <1>4 DEF Arrived
  <2>2. Len(two[a].answers) = 1 /\ Len(two[b].answers) = 1
    <3>1. Len(<<s>>) = 1
      OBVIOUS
    <3> QED
      BY <1>2, <1>4, <2>1, <3>1
  <2>3. \A p \in Arrived \ {a, b} : two[p] = presses[p]
    BY <1>2, <1>4 DEF Arrived
  <2> QED
    BY <1>2, <1>4, <2>2, <2>3
<1> QED
  BY <1>5 DEF two, one

\* The presses of a pair, and the pair with other fields than those.
PressesOf(m) == {m.ed1.press, m.ed2.press} \ {0}
Alike(w, m) ==
    /\ PairOK(w) /\ PressesOf(w) = PressesOf(m) /\ w.state = m.state /\ w.ed1 = m.ed1 /\ w.ed2 = m.ed2
    /\ NoneFreed(m) => NoneFreed(w)

LEMMA PairLike ==
    ASSUME NEW m, PairOK(m), NEW x
    PROVE  /\ Alike([m EXCEPT !.sending = x], m) /\ Alike([m EXCEPT !.transSeq = x], m)
           /\ Alike([m EXCEPT !.n1 = x], m) /\ Alike([m EXCEPT !.n2 = x], m)
<1> DEFINE rec == [state |-> m.state, ed1 |-> m.ed1, ed2 |-> m.ed2, sending |-> m.sending,
                   transSeq |-> m.transSeq, n1 |-> m.n1, n2 |-> m.n2,
                   list1 |-> m.list1, list2 |-> m.list2, p1 |-> m.p1, p2 |-> m.p2]
<1>1. m = rec
  BY DEF PairOK
<1>2. ASSUME NEW w, w.state = m.state, w.ed1 = m.ed1, w.ed2 = m.ed2, w.p1 = m.p1, w.p2 = m.p2,
             w = [state |-> w.state, ed1 |-> w.ed1, ed2 |-> w.ed2, sending |-> w.sending,
                  transSeq |-> w.transSeq, n1 |-> w.n1, n2 |-> w.n2,
                  list1 |-> w.list1, list2 |-> w.list2, p1 |-> w.p1, p2 |-> w.p2]
      PROVE  Alike(w, m)
  <2>1. PairOK(w) /\ PressesOf(w) = PressesOf(m)
    BY <1>2 DEF PairOK, PressesOf
  <2>2. PointersOf(w) = PointersOf(m)
    BY <1>2 DEF PointersOf
  <2> QED
    BY <1>2, <2>1, <2>2 DEF Alike, NoneFreed
<1>3. ASSUME NEW w \in {[rec EXCEPT !.sending = x], [rec EXCEPT !.transSeq = x],
                        [rec EXCEPT !.n1 = x], [rec EXCEPT !.n2 = x]}
      PROVE  Alike(w, m)
  <2>1. w.state = m.state /\ w.ed1 = m.ed1 /\ w.ed2 = m.ed2 /\ w.p1 = m.p1 /\ w.p2 = m.p2
    BY <1>3
  <2>2. w = [state |-> w.state, ed1 |-> w.ed1, ed2 |-> w.ed2, sending |-> w.sending,
             transSeq |-> w.transSeq, n1 |-> w.n1, n2 |-> w.n2,
             list1 |-> w.list1, list2 |-> w.list2, p1 |-> w.p1, p2 |-> w.p2]
    BY <1>3
  <2> HIDE DEF rec
  <2> QED
    BY <1>2, <2>1, <2>2
<1> HIDE DEF rec
<1> QED
  BY <1>1, <1>3

\* A pair given up leaves nothing that waits.
LEMMA PairGone ==
    ASSUME MemoryOK, NEW m, RemoveMatchMemory(m), troubles' \in Nat,
           troubles' = 0 => troubles = 0 /\ NoneFreed(m)
    PROVE  MatchOK' /\ MemoryOK' /\ InMatch' = {}
<1>1. matchED' = NoMatch /\ memory' = [memory EXCEPT !.twice = @ \/ ~NoneFreed(m)]
  BY DEF RemoveMatchMemory, NoneFreed
<1>2. memory = [stray |-> memory.stray, twice |-> memory.twice]
  BY DEF MemoryOK
<1>3. memory' = [stray |-> memory.stray, twice |-> memory.twice \/ ~NoneFreed(m)]
  BY <1>1, <1>2
<1>4. memory'.stray = memory.stray /\ memory'.twice = (memory.twice \/ ~NoneFreed(m))
  BY <1>3
<1>5. memory' = [stray |-> memory'.stray, twice |-> memory'.twice]
  BY <1>3, <1>4
<1>6. troubles' = 0 => ~memory'.stray /\ ~memory'.twice
  BY <1>4 DEF MemoryOK
<1>7. MemoryOK'
  BY <1>1, <1>5, <1>6 DEF MemoryOK
<1> QED
  BY <1>1, <1>7 DEF MatchOK, InMatch

\* A pair goes on, or its presses are answered and it is given up.
LEMMA GoesKeeps ==
    ASSUME BInv, NEW m, PairOK(m), NEW r \in Statuses, NEW sent, Goes(m, r, sent), UNCHANGED registered,
           NEW Q, \/ queue' = queue /\ Q = {}
                  \/ queue # <<>> /\ queue' = Tail(queue) /\ Q = Taken,
           PressesOf(m) \subseteq InMatch \cup Q, InMatch \cup Q \subseteq PressesOf(m) \cup dropped',
           dropped \subseteq dropped',
           troubles' \in Nat, troubles' = 0 => troubles = 0 /\ NoneFreed(m)
    PROVE  BInv'
<1>1. /\ presses \in Seq(PressRec) /\ transID \in Nat /\ MemoryOK /\ PressesOK
      /\ InMatch \cup Q \subseteq Unanswered
  <2>1. Q \subseteq InQueue
    BY TakenFirst
  <2> QED
    BY <2>1 DEF BInv, PressesOK, Messages, PlacesApart
<1>2. PressesOf(m) \subseteq Arrived /\ 0 \notin Arrived
  BY DEF PressesOf, PairOK, Arrived
<1>3. CASE r = "SUCCESS" /\ (m.n1 > 0 \/ m.n2 > 0)
  <2> DEFINE w == [m EXCEPT !.transSeq = transID]
             ask == [kind |-> IF m.sending = "UNBIND" THEN "Unbind_req" ELSE "Bind_req",
                     to |-> Device((IF m.n1 > 0 THEN m.ed1 ELSE m.ed2).press), seq |-> transID,
                     cluster |-> IF m.n1 > 0 THEN m.list1[m.n1] ELSE m.list2[m.n2],
                     dst |-> Device((IF m.n1 > 0 THEN m.ed2 ELSE m.ed1).press)]
  <2>1. /\ matchED' = w /\ timer' = TRUE /\ UNCHANGED <<presses, memory>>
        /\ \/ air' = air \cup {ask} /\ transID' = (transID + 1) % 256
           \/ UNCHANGED <<air, transID>>
    BY <1>3 DEF Goes
  <2>2. ask.kind \in {"Unbind_req", "Bind_req"} /\ ask.seq = transID
    OBVIOUS
  <2>3. Alike(w, m)
    BY PairLike
  <2> HIDE DEF w, ask
  <2>4. ask.kind \notin BindRequests /\ ask.kind \notin Responses /\ ask.seq \in Nat
    BY <1>1, <2>2 DEF BindRequests, Responses
  <2>5. /\ air \subseteq air' /\ transID' \in Nat
        /\ \A x \in air' \ air : x.kind \notin BindRequests /\ x.kind \notin Responses /\ x.seq \in Nat
    BY <1>1, <2>1, <2>4
  <2>6. Arrived' = Arrived /\ matchED' # NoMatch
    BY <2>1, <2>3 DEF Arrived, Alike, PairOK, NoMatch
  <2>7. InMatch' = PressesOf(m)
    BY <1>2, <2>1, <2>3, <2>6 DEF InMatch, PressesOf, Alike
  <2>9. MatchOK'
    <3>1. PairOK(matchED)'
      BY <2>1, <2>3, <2>6 DEF Alike, PairOK
    <3> QED
      BY <2>1, <3>1 DEF MatchOK
  <2>10. MemoryOK'
    <3>1. troubles' = 0 => NoneFreed(matchED')
      BY <2>1, <2>3 DEF Alike
    <3> QED
      BY <1>1, <2>1, <3>1 DEF MemoryOK, NoneFreed, PointersOf
  <2>11. /\ presses' \in Seq(PressRec) /\ Len(presses') = Len(presses)
         /\ \A p \in {} : Len(presses'[p].answers) = 1
         /\ \A p \in Arrived \ {} : presses'[p] = presses[p]
    BY <1>1, <2>1
  <2>12. /\ {} \in SUBSET Arrived /\ {} \cap InMatch' = {} /\ {} \subseteq InMatch \cup Q
         /\ InMatch' \subseteq InMatch \cup Q
         /\ InMatch \cup Q \subseteq InMatch' \cup {} \cup dropped'
    BY <2>7
  <2> HIDE DEF PressesOf
  <2> QED
    BY <2>5, <2>9, <2>10, <2>11, <2>12, Settled
<1>4. CASE ~(r = "SUCCESS" /\ (m.n1 > 0 \/ m.n2 > 0))
  <2>1. /\ presses' = IF m.state = "SENDING_BINDS"
                      THEN Answered(Answered(presses, m.ed1.press, r), m.ed2.press, r)
                      ELSE Answered(presses, m.ed1.press, r)
        /\ RemoveMatchMemory(m) /\ timer' = FALSE /\ UNCHANGED <<air, transID>>
    BY <1>4 DEF Goes
  <2>2. MatchOK' /\ MemoryOK' /\ InMatch' = {}
    BY <1>1, <2>1, PairGone
  <2>3. /\ presses' \in Seq(PressRec) /\ Len(presses') = Len(presses)
        /\ \A p \in PressesOf(m) : Len(presses'[p].answers) = 1
        /\ \A p \in Arrived \ PressesOf(m) : presses'[p] = presses[p]
    <3> DEFINE a == m.ed1.press
               b == m.ed2.press
    <3>1. a \in PressesOf(m) /\ a \in Arrived /\ a \in Unanswered
      BY <1>1, <1>2 DEF PressesOf, PairOK
    <3>2. CASE m.state = "WAIT_REQ" /\ b = 0
      <4>1. PressesOf(m) = {a} /\ presses' = Answered(presses, a, r)
        BY <1>2, <2>1, <3>1, <3>2 DEF PressesOf
      <4>2. presses[a].answers = <<>> /\ a \in 1 .. Len(presses)
        BY <3>1 DEF Unanswered, Arrived
      <4> HIDE DEF a
      <4>3. /\ presses' \in Seq(PressRec) /\ Len(presses') = Len(presses) /\ presses'[a].answers = <<r>>
            /\ \A q \in 1 .. Len(presses) : q # a => presses'[q] = presses[q]
        BY <1>1, <4>1, <4>2, AnsweredOK
      <4>4. Len(<<r>>) = 1
        OBVIOUS
      <4> QED
        BY <4>1, <4>3, <4>4 DEF Arrived
    <3>3. CASE m.state = "SENDING_BINDS" /\ b \in Arrived /\ b # a
      <4>1. PressesOf(m) = {a, b} /\ presses' = Answered(Answered(presses, a, r), b, r)
        BY <1>2, <2>1, <3>1, <3>3 DEF PressesOf
      <4>2. b \in Unanswered
        BY <1>1, <4>1
      <4> HIDE DEF a, b
      <4>3. /\ presses' \in Seq(PressRec) /\ Len(presses') = Len(presses)
            /\ \A p \in {a, b} : Len(presses'[p].answers) = 1
            /\ \A p \in Arrived \ {a, b} : presses'[p] = presses[p]
        BY <1>1, <3>1, <3>3, <4>1, <4>2, PairAnswered
      <4> QED
        BY <4>1, <4>3
    <3> QED
      BY <3>2, <3>3 DEF PairOK
  <2>4. InMatch' \subseteq InMatch \cup Q /\ PressesOf(m) \cap InMatch' = {} /\ transID' \in Nat
        /\ InMatch \cup Q \subseteq InMatch' \cup PressesOf(m) \cup dropped'
    BY <1>1, <2>1, <2>2
  <2>5. PressesOf(m) \in SUBSET Arrived
    BY <1>2
  <2>6. air \subseteq air' /\ \A x \in air' \ air : FALSE
    BY <2>1
  <2> HIDE DEF PressesOf
  <2> QED
    BY <2>2, <2>3, <2>4, <2>5, <2>6, Settled
<1> QED
  BY <1>3, <1>4

\* No press is answered, and none changes its place but those taken.
LEMMA NothingSettled ==
    ASSUME BInv, UNCHANGED <<registered, presses>>,
           NEW Q, \/ queue' = queue /\ Q = {}
                  \/ queue # <<>> /\ queue' = Tail(queue) /\ Q = Taken,
           UNCHANGED <<air, transID>>, dropped \subseteq dropped',
           InMatch' = InMatch \cup Q, MatchOK', MemoryOK'
    PROVE  BInv'
<1>1. /\ presses' \in Seq(PressRec) /\ Len(presses') = Len(presses)
      /\ \A p \in {} : Len(presses'[p].answers) = 1
      /\ \A p \in Arrived \ {} : presses'[p] = presses[p]
  BY DEF BInv, PressesOK
<1>2. /\ {} \in SUBSET Arrived /\ {} \cap InMatch' = {} /\ {} \subseteq InMatch \cup Q
      /\ InMatch' \subseteq InMatch \cup Q
      /\ InMatch \cup Q \subseteq InMatch' \cup {} \cup dropped'
  OBVIOUS
<1>3. /\ transID' \in Nat /\ air \subseteq air'
      /\ \A m \in air' \ air : m.kind \notin BindRequests /\ m.kind \notin Responses /\ m.seq \in Nat
  BY DEF BInv, Messages
<1> QED
  BY <1>1, <1>2, <1>3, Settled

\* A response, or the time-out.
LEMMA SendStateKeeps ==
    ASSUME BInv, NEW reason \in {"BIND_RSP", "UNBIND_RSP", "TIMEOUT"}, NEW status \in Statuses, NEW seq, NEW sent,
           ZDMatchSendState(reason, status, seq, sent), UNCHANGED <<registered, dropped>>,
           queue' = queue \/ (queue # <<>> /\ queue' = Tail(queue) /\ Taken = {}),
           troubles' \in Nat, troubles' = 0 => troubles = 0
    PROVE  BInv'
<1>1. CASE UNCHANGED <<matchED, air, transID, timer, presses, memory>>
  <2>1. Arrived' = Arrived
    BY <1>1 DEF Arrived
  <2>2. InMatch' = InMatch \cup {}
    BY <1>1, <2>1 DEF InMatch
  <2>3. MatchOK' /\ MemoryOK'
    BY <1>1, <2>1, MatchKept
  <2>4. \/ queue' = queue /\ {} = {}
        \/ queue # <<>> /\ queue' = Tail(queue) /\ {} = Taken
    OBVIOUS
  <2> QED
    BY <1>1, <2>2, <2>3, <2>4, NothingSettled
<1>2. CASE ~UNCHANGED <<matchED, air, transID, timer, presses, memory>>
  <2> DEFINE sending == CASE reason = "BIND_RSP" -> "UNBIND"
                          [] reason = "UNBIND_RSP" -> IF status = "SUCCESS" THEN "UNBIND" ELSE "BIND"
                          [] reason = "TIMEOUT" -> matchED.sending
             rsp == CASE reason = "BIND_RSP" -> status
                      [] reason = "UNBIND_RSP" -> "SUCCESS"
                      [] reason = "TIMEOUT" -> "TIMEOUT"
             m == [matchED EXCEPT !.sending = sending]
             w == DealtWith(m)
  <2>1. matchED # NoMatch /\ Goes(w, rsp, sent)
    BY <1>2 DEF ZDMatchSendState
  <2>2. rsp \in Statuses
    BY DEF Statuses
  <2> HIDE DEF sending, rsp
  <2>3. PairOK(matchED)
    BY <2>1 DEF BInv, MatchOK
  <2>4. Alike(m, matchED)
    BY <2>3, PairLike
  <2> HIDE DEF m
  <2>5. PairOK(m)
    BY <2>4 DEF Alike
  <2>6. w = m \/ w = [m EXCEPT !.n1 = m.n1 - 1] \/ w = [m EXCEPT !.n2 = m.n2 - 1]
    BY DEF DealtWith
  <2> HIDE DEF w
  <2>7. Alike(w, m)
    <3>1. Alike(m, m)
      BY <2>5 DEF Alike
    <3>2. Alike([m EXCEPT !.n1 = m.n1 - 1], m) /\ Alike([m EXCEPT !.n2 = m.n2 - 1], m)
      BY <2>5, PairLike
    <3> QED
      BY <2>6, <3>1, <3>2
  <2>8. PairOK(w) /\ PressesOf(w) = PressesOf(matchED) /\ (NoneFreed(matchED) => NoneFreed(w))
    BY <2>4, <2>7 DEF Alike
  <2>9. InMatch = PressesOf(matchED)
    BY <2>1, <2>3 DEF InMatch, PressesOf, PairOK, Arrived
  <2>10. troubles' = 0 => troubles = 0 /\ NoneFreed(w)
    BY <2>1, <2>8 DEF BInv, MemoryOK
  <2>11. \/ queue' = queue /\ {} = {}
         \/ queue # <<>> /\ queue' = Tail(queue) /\ {} = Taken
    OBVIOUS
  <2>12. /\ PressesOf(w) \subseteq InMatch \cup {} /\ InMatch \cup {} \subseteq PressesOf(w) \cup dropped'
         /\ dropped \subseteq dropped'
    BY <2>8, <2>9
  <2> QED
    BY <2>1, <2>2, <2>8, <2>10, <2>11, <2>12, GoesKeeps
<1> QED
  BY <1>1, <1>2

LEMMA TimeoutStep == ASSUME BInv, ZDO_EndDeviceBindMatchTimeoutCB PROVE BInv'
<1>1. UNCHANGED <<registered, queue, dropped, troubles>>
  BY DEF ZDO_EndDeviceBindMatchTimeoutCB, Histories
<1>2. troubles' \in Nat /\ (troubles' = 0 => troubles = 0)
  BY <1>1 DEF BInv, MemoryOK
<1>3. CASE matchED = NoMatch
  <2>1. UNCHANGED <<matchED, air, transID, presses, memory>>
    BY <1>3 DEF ZDO_EndDeviceBindMatchTimeoutCB
  <2>2. MatchOK' /\ MemoryOK'
    BY <1>1, <1>3, <2>1 DEF BInv, MatchOK, MemoryOK
  <2>3. InMatch' = InMatch \cup {}
    BY <1>3, <2>1 DEF InMatch
  <2>4. queue' = queue /\ {} = {}
    BY <1>1
  <2> QED
    BY <1>1, <2>1, <2>2, <2>3, <2>4, NothingSettled
<1>4. CASE matchED # NoMatch
  <2>1. ZDMatchSendState("TIMEOUT", "TIMEOUT", 0, TRUE)
    BY <1>4 DEF ZDO_EndDeviceBindMatchTimeoutCB
  <2>2. "TIMEOUT" \in Statuses
    BY DEF Statuses
  <2> QED
    BY <1>1, <1>2, <2>1, <2>2, SendStateKeeps
<1> QED
  BY <1>3, <1>4

\* What is copied of a request: while memory lasts, nothing that is freed.
LEMMA CopyIs ==
    ASSUME NEW p, NEW fails
    PROVE  LET copy == CopyMatchInfo(p, {"in", "out"} \ fails)
           IN /\ copy.ed.press = p /\ copy.ok \in BOOLEAN
              /\ fails = {} => copy.ok /\ copy.ed.pIn # "freed" /\ copy.ed.pOut # "freed"
  BY DEF CopyMatchInfo

\* The first of a pair.
LEMMA FirstKeeps ==
    ASSUME BInv, matchED = NoMatch, queue # <<>>, queue' = Tail(queue), UNCHANGED registered,
           NEW p \in Arrived, Taken = {p}, NEW fails,
           FirstRequest(p, "whole" \notin fails, CopyMatchInfo(p, {"in", "out"} \ fails)),
           troubles' \in Nat, troubles' = 0 => troubles = 0 /\ fails = {}
    PROVE  BInv'
<1> DEFINE copy == CopyMatchInfo(p, {"in", "out"} \ fails)
           m == [state |-> "WAIT_REQ", ed1 |-> copy.ed, ed2 |-> Empty, sending |-> "NOT",
                 transSeq |-> 0, n1 |-> 0, n2 |-> 0, list1 |-> <<>>, list2 |-> <<>>,
                 p1 |-> "NULL", p2 |-> "NULL"]
<1>1. /\ UNCHANGED <<air, transID, dropped>>
      /\ IF "whole" \notin fails /\ copy.ok
         THEN matchED' = m /\ timer' = TRUE /\ UNCHANGED <<presses, memory>>
         ELSE /\ presses' = Answered(presses, p, "NO_ENTRY")
              /\ UNCHANGED timer
              /\ IF "whole" \notin fails THEN RemoveMatchMemory(m)
                 ELSE /\ UNCHANGED matchED
                      /\ \E garbage \in BOOLEAN : memory' = [memory EXCEPT !.stray = @ \/ garbage]
  BY DEF FirstRequest
<1>2. /\ copy.ed.press = p /\ copy.ok \in BOOLEAN
      /\ fails = {} => copy.ok /\ copy.ed.pIn # "freed" /\ copy.ed.pOut # "freed"
  BY CopyIs
<1> HIDE DEF copy
<1>3. /\ m.state = "WAIT_REQ" /\ m.ed1 = copy.ed /\ m.ed2 = Empty /\ m.p1 = "NULL" /\ m.p2 = "NULL"
      /\ m = [state |-> m.state, ed1 |-> m.ed1, ed2 |-> m.ed2, sending |-> m.sending,
              transSeq |-> m.transSeq, n1 |-> m.n1, n2 |-> m.n2,
              list1 |-> m.list1, list2 |-> m.list2, p1 |-> m.p1, p2 |-> m.p2]
  OBVIOUS
<1> HIDE DEF m
<1>4. /\ Empty.press = 0 /\ Empty.pIn = "NULL" /\ Empty.pOut = "NULL"
  BY DEF Empty
<1>5. PairOK(m) /\ m # NoMatch /\ m.ed1.press = p /\ m.ed2.press = 0
  BY <1>2, <1>3, <1>4 DEF PairOK, NoMatch
<1>6. fails = {} => NoneFreed(m)
  <2> SUFFICES ASSUME fails = {}, NEW i \in 1 .. 6 PROVE PointersOf(m)[i] # "freed"
    BY DEF NoneFreed
  <2>1. i = 1 \/ i = 2 \/ i = 3 \/ i = 4 \/ i = 5 \/ i = 6
    OBVIOUS
  <2> QED
    BY <1>2, <1>3, <1>4, <2>1 DEF PointersOf
<1>7. InMatch = {} /\ p \in InQueue /\ p \in Unanswered
  BY TakenFirst DEF InMatch, BInv, PlacesApart
<1>8. presses \in Seq(PressRec) /\ presses[p].answers = <<>> /\ p \in 1 .. Len(presses)
  BY <1>7 DEF BInv, PressesOK, Unanswered, Arrived
<1>9. queue # <<>> /\ queue' = Tail(queue) /\ {p} = Taken
  OBVIOUS
<1>10. CASE "whole" \notin fails /\ copy.ok
  <2>1. matchED' = m /\ timer' = TRUE /\ UNCHANGED <<presses, memory>>
    BY <1>1, <1>10
  <2>2. Arrived' = Arrived
    BY <2>1 DEF Arrived
  <2>3. InMatch' = InMatch \cup {p}
    <3>1. 0 \notin Arrived
      BY DEF Arrived
    <3> QED
      BY <1>5, <1>7, <2>1, <2>2, <3>1 DEF InMatch
  <2>4. MatchOK'
    <3>1. PairOK(matchED)'
      BY <1>5, <2>1, <2>2 DEF PairOK
    <3> QED
      BY <2>1, <3>1 DEF MatchOK
  <2>5. MemoryOK'
    <3>1. troubles' = 0 => NoneFreed(matchED)'
      BY <1>6, <2>1 DEF NoneFreed, PointersOf
    <3> QED
      BY <2>1, <3>1 DEF BInv, MemoryOK
  <2> QED
    BY <1>1, <1>9, <2>1, <2>3, <2>4, <2>5, NothingSettled
<1>11. CASE ~("whole" \notin fails /\ copy.ok)
  <2>1. presses' = Answered(presses, p, "NO_ENTRY") /\ fails # {}
    BY <1>1, <1>2, <1>11
  <2>2. "NO_ENTRY" \in Statuses
    BY DEF Statuses
  <2>3. /\ presses' \in Seq(PressRec) /\ Len(presses') = Len(presses) /\ presses'[p].answers = <<"NO_ENTRY">>
        /\ \A q \in 1 .. Len(presses) : q # p => presses'[q] = presses[q]
    BY <1>8, <2>1, <2>2, AnsweredOK
  <2>4. /\ \A q \in {p} : Len(presses'[q].answers) = 1
        /\ \A q \in Arrived \ {p} : presses'[q] = presses[q]
    <3>1. Len(<<"NO_ENTRY">>) = 1
      OBVIOUS
    <3>2. Len(presses'[p].answers) = 1
      BY <2>3, <3>1
    <3> QED
      BY <2>3, <3>2 DEF Arrived
  <2>5. MatchOK' /\ MemoryOK' /\ InMatch' = {}
    <3>1. CASE "whole" \notin fails
      <4>1. RemoveMatchMemory(m)
        BY <1>1, <1>11, <3>1
      <4> QED
        BY <2>1, <4>1, PairGone DEF BInv
    <3>2. CASE "whole" \in fails
      <4>1. PICK garbage \in BOOLEAN : memory' = [memory EXCEPT !.stray = @ \/ garbage]
        BY <1>1, <1>11, <3>2
      <4>2. memory = [stray |-> memory.stray, twice |-> memory.twice]
        BY DEF BInv, MemoryOK
      <4>3. memory' = [stray |-> memory.stray \/ garbage, twice |-> memory.twice]
        BY <4>1, <4>2
      <4>4. memory' = [stray |-> memory'.stray, twice |-> memory'.twice]
        BY <4>3
      <4>5. matchED' = NoMatch
        BY <1>1, <1>11, <3>2
      <4> QED
        BY <2>1, <4>4, <4>5 DEF MatchOK, MemoryOK, InMatch
    <3> QED
      BY <3>1, <3>2
  <2>6. /\ {p} \in SUBSET Arrived /\ {p} \cap InMatch' = {} /\ {p} \subseteq InMatch \cup {p}
        /\ InMatch' \subseteq InMatch \cup {p}
        /\ InMatch \cup {p} \subseteq InMatch' \cup {p} \cup dropped'
    BY <1>7, <2>5
  <2>7. /\ transID' \in Nat /\ air \subseteq air' /\ dropped \subseteq dropped'
        /\ \A x \in air' \ air : x.kind \notin BindRequests /\ x.kind \notin Responses /\ x.seq \in Nat
    BY <1>1 DEF BInv, Messages
  <2> QED
    BY <1>9, <2>3, <2>4, <2>5, <2>6, <2>7, Settled
<1> QED
  BY <1>10, <1>11

\* The second of a pair, which may take the place of another.
LEMMA SecondKeeps ==
    ASSUME BInv, matchED # NoMatch, queue # <<>>, queue' = Tail(queue), UNCHANGED registered,
           NEW p \in Arrived, Taken = {p}, NEW fails, NEW sent,
           SecondRequest(p, CopyMatchInfo(p, {"in", "out"} \ fails), {"1", "2"} \ fails, sent),
           troubles' \in Nat, troubles' = 0 => troubles = 0 /\ fails = {}
    PROVE  BInv'
<1> DEFINE ok == {"1", "2"} \ fails
           copy == CopyMatchInfo(p, {"in", "out"} \ fails)
           list1 == CompareClusterLists(matchED.ed1.out, copy.ed.in)
           list2 == CompareClusterLists(copy.ed.out, matchED.ed1.in)
           Block(list, which, old) == IF list = <<>> THEN old ELSE IF which \in ok THEN "held" ELSE "NULL"
           m == [matchED EXCEPT !.state = "SENDING_BINDS", !.ed2 = copy.ed,
                   !.n1 = Len(list1), !.n2 = Len(list2), !.list1 = list1, !.list2 = list2,
                   !.p1 = Block(list1, "1", @), !.p2 = Block(list2, "2", @)]
           fine == copy.ok /\ (list1 = <<>> \/ "1" \in ok) /\ (list2 = <<>> \/ "2" \in ok)
           w == [m EXCEPT !.sending = "UNBIND"]
<1>1. /\ dropped' = dropped \cup ({matchED.ed2.press} \ {0})
      /\ \/ Goes(w, "SUCCESS", sent)
         \/ /\ presses' = Answered(Answered(presses, p, "NO_MATCH"), m.ed1.press, "NO_MATCH")
            /\ RemoveMatchMemory(m)
            /\ UNCHANGED <<air, transID, timer, base>>
  BY DEF SecondRequest
<1>2. /\ copy.ed.press = p
      /\ fails = {} => copy.ed.pIn # "freed" /\ copy.ed.pOut # "freed"
  BY CopyIs
<1> HIDE DEF copy
<1>3. PairOK(matchED) /\ (troubles = 0 => NoneFreed(matchED))
  BY DEF BInv, MatchOK, MemoryOK
<1> HIDE DEF list1, list2, ok
<1>4. /\ m.state = "SENDING_BINDS" /\ m.ed1 = matchED.ed1 /\ m.ed2 = copy.ed
      /\ m.p1 \in {matchED.p1, "held", "NULL"} /\ m.p2 \in {matchED.p2, "held", "NULL"}
      /\ m = [state |-> m.state, ed1 |-> m.ed1, ed2 |-> m.ed2, sending |-> m.sending,
              transSeq |-> m.transSeq, n1 |-> m.n1, n2 |-> m.n2,
              list1 |-> m.list1, list2 |-> m.list2, p1 |-> m.p1, p2 |-> m.p2]
  <2> DEFINE rec == [state |-> matchED.state, ed1 |-> matchED.ed1, ed2 |-> matchED.ed2,
                     sending |-> matchED.sending, transSeq |-> matchED.transSeq,
                     n1 |-> matchED.n1, n2 |-> matchED.n2, list1 |-> matchED.list1,
                     list2 |-> matchED.list2, p1 |-> matchED.p1, p2 |-> matchED.p2]
  <2>1. matchED = rec
    BY <1>3 DEF PairOK
  <2> DEFINE q1 == Block(list1, "1", matchED.p1)
             q2 == Block(list2, "2", matchED.p2)
             l1 == Len(list1)
             l2 == Len(list2)
  <2>2. q1 \in {matchED.p1, "held", "NULL"} /\ q2 \in {matchED.p2, "held", "NULL"}
    OBVIOUS
  <2>3. m = [matchED EXCEPT !.state = "SENDING_BINDS", !.ed2 = copy.ed, !.n1 = l1, !.n2 = l2,
                            !.list1 = list1, !.list2 = list2, !.p1 = q1, !.p2 = q2]
    OBVIOUS
  <2> HIDE DEF m, q1, q2, l1, l2, Block
  <2>4. m = [state |-> "SENDING_BINDS", ed1 |-> matchED.ed1, ed2 |-> copy.ed, sending |-> matchED.sending,
             transSeq |-> matchED.transSeq, n1 |-> l1, n2 |-> l2, list1 |-> list1, list2 |-> list2,
             p1 |-> q1, p2 |-> q2]
    BY <2>1, <2>3
  <2> QED
    BY <2>2, <2>4
<1> HIDE DEF m
<1>5. p \in InQueue /\ p \in Unanswered /\ p \notin InMatch
  BY TakenFirst DEF BInv, PlacesApart
<1>6. /\ matchED.ed1.press \in Arrived /\ matchED.ed1.press \in InMatch
      /\ matchED.ed1.press # p /\ matchED.ed1.press \in Unanswered
  BY <1>3, <1>5 DEF PairOK, InMatch, BInv, PlacesApart
<1>7. PairOK(m) /\ PressesOf(m) = {matchED.ed1.press, p}
  <2>1. 0 \notin Arrived
    BY DEF Arrived
  <2> QED
    BY <1>2, <1>4, <1>6, <2>1 DEF PairOK, PressesOf
<1>8. troubles' = 0 => troubles = 0 /\ NoneFreed(m)
  <2> SUFFICES ASSUME troubles' = 0, NEW i \in 1 .. 6 PROVE PointersOf(m)[i] # "freed"
    BY DEF NoneFreed
  <2>1. fails = {} /\ NoneFreed(matchED)
    BY <1>3
  <2>2. /\ matchED.p1 # "freed" /\ matchED.p2 # "freed"
        /\ matchED.ed1.pIn # "freed" /\ matchED.ed1.pOut # "freed"
    <3>1. \A j \in 1 .. 6 : PointersOf(matchED)[j] # "freed"
      BY <2>1 DEF NoneFreed
    <3>2. PointersOf(matchED)[1] # "freed" /\ PointersOf(matchED)[2] # "freed"
          /\ PointersOf(matchED)[3] # "freed" /\ PointersOf(matchED)[4] # "freed"
      BY <3>1
    <3> QED
      BY <3>2 DEF PointersOf
  <2>3. i = 1 \/ i = 2 \/ i = 3 \/ i = 4 \/ i = 5 \/ i = 6
    OBVIOUS
  <2> QED
    BY <1>2, <1>4, <2>1, <2>2, <2>3 DEF PointersOf
<1>9. queue # <<>> /\ queue' = Tail(queue) /\ {p} = Taken
  OBVIOUS
<1>10. /\ dropped \subseteq dropped' /\ PressesOf(m) \subseteq InMatch \cup {p}
       /\ InMatch \cup {p} \subseteq PressesOf(m) \cup dropped'
  <2>1. \A q \in InMatch : q = matchED.ed1.press \/ q \in dropped'
    <3>1. 0 \notin Arrived
      BY DEF Arrived
    <3> QED
      BY <1>1, <3>1 DEF InMatch
  <2> QED
    BY <1>1, <1>6, <1>7, <2>1
<1>11. CASE Goes(w, "SUCCESS", sent)
  <2>1. Alike(w, m)
    BY <1>7, PairLike
  <2> HIDE DEF w
  <2>2. PairOK(w) /\ PressesOf(w) = PressesOf(m) /\ (NoneFreed(m) => NoneFreed(w))
    BY <2>1 DEF Alike
  <2>3. "SUCCESS" \in Statuses
    BY DEF Statuses
  <2>4. troubles' = 0 => troubles = 0 /\ NoneFreed(w)
    BY <1>8, <2>2
  <2>5. PressesOf(w) \subseteq InMatch \cup {p} /\ InMatch \cup {p} \subseteq PressesOf(w) \cup dropped'
    BY <1>10, <2>2
  <2> HIDE DEF PressesOf
  <2> QED
    BY <1>9, <1>10, <1>11, <2>2, <2>3, <2>4, <2>5, GoesKeeps
<1>12. CASE /\ presses' = Answered(Answered(presses, p, "NO_MATCH"), m.ed1.press, "NO_MATCH")
            /\ RemoveMatchMemory(m)
            /\ UNCHANGED <<air, transID, timer, base>>
  <2> DEFINE a == matchED.ed1.press
  <2>1. "NO_MATCH" \in Statuses /\ PressesOK /\ MemoryOK /\ presses' = Answered(Answered(presses, p, "NO_MATCH"), a, "NO_MATCH")
    BY <1>4, <1>12 DEF Statuses, BInv
  <2>2. a \in Arrived /\ a \in Unanswered /\ a # p /\ PressesOf(m) = {p, a}
    BY <1>6, <1>7
  <2> HIDE DEF a
  <2>3. /\ presses' \in Seq(PressRec) /\ Len(presses') = Len(presses)
        /\ \A q \in {p, a} : Len(presses'[q].answers) = 1
        /\ \A q \in Arrived \ {p, a} : presses'[q] = presses[q]
    BY <1>5, <2>1, <2>2, PairAnswered
  <2>4. MatchOK' /\ MemoryOK' /\ InMatch' = {}
    BY <1>8, <1>12, <2>1, PairGone
  <2>5. /\ {p, a} \in SUBSET Arrived /\ {p, a} \cap InMatch' = {} /\ {p, a} \subseteq InMatch \cup {p}
        /\ InMatch' \subseteq InMatch \cup {p}
        /\ InMatch \cup {p} \subseteq InMatch' \cup {p, a} \cup dropped'
    BY <1>10, <2>2, <2>4
  <2>6. /\ transID' \in Nat /\ air \subseteq air'
        /\ \A x \in air' \ air : x.kind \notin BindRequests /\ x.kind \notin Responses /\ x.seq \in Nat
    BY <1>12 DEF BInv, Messages
  <2> DEFINE both == {p, a}
             gone == {p}
  <2>7. /\ \A q \in both : Len(presses'[q].answers) = 1
        /\ \A q \in Arrived \ both : presses'[q] = presses[q]
        /\ both \in SUBSET Arrived /\ both \cap InMatch' = {} /\ both \subseteq InMatch \cup gone
        /\ InMatch' \subseteq InMatch \cup gone
        /\ InMatch \cup gone \subseteq InMatch' \cup both \cup dropped'
    BY <2>3, <2>5
  <2>8. \/ queue' = queue /\ gone = {}
        \/ queue # <<>> /\ queue' = Tail(queue) /\ gone = Taken
    BY <1>9
  <2> HIDE DEF both, gone
  <2> QED
    BY <1>10, <2>3, <2>4, <2>6, <2>7, <2>8, Settled
<1> QED
  BY <1>1, <1>11, <1>12

LEMMA ProcessStep == ASSUME BInv, ZDApp_ProcessMsgCBs PROVE BInv'
<1> DEFINE m == Head(queue)
<1>1. PICK sent \in BOOLEAN, fails \in SUBSET {"whole", "in", "out", "1", "2"} :
          /\ Troubled(Cardinality(fails) + IF sent THEN 0 ELSE 1)
          /\ m.kind \in Responses => fails = {}
          /\ IF m.kind \in Responses
             THEN ZDMatchSendState(Reason(m.kind), m.status, m.seq, sent) /\ UNCHANGED Histories
             ELSE ZDO_MatchEndDeviceBind(m.press, fails, sent)
  BY DEF ZDApp_ProcessMsgCBs
<1>2. queue # <<>> /\ queue' = Tail(queue) /\ UNCHANGED registered
  BY DEF ZDApp_ProcessMsgCBs
<1>3. troubles' \in Nat /\ (troubles' = 0 => troubles = 0 /\ fails = {})
  <2>1. Cardinality(fails) \in Nat /\ (Cardinality(fails) = 0 => fails = {})
    BY CountOfFew
  <2> QED
    BY <1>1, <2>1 DEF Troubled, BInv, MemoryOK
<1>4. m \in Requests \cup Answers
  BY <1>2, TakenFirst
<1>5. CASE m \in Answers
  <2>1. m.kind \in Responses /\ m.status \in Statuses /\ Reason(m.kind) \in {"BIND_RSP", "UNBIND_RSP", "TIMEOUT"}
    BY <1>5 DEF Answers, Reason
  <2>2. Taken = {}
    BY <1>5, PressMsgIs DEF Taken
  <2>3. ZDMatchSendState(Reason(m.kind), m.status, m.seq, sent) /\ UNCHANGED dropped
    BY <1>1, <2>1 DEF Histories
  <2> HIDE DEF m
  <2> QED
    BY <1>2, <1>3, <2>1, <2>2, <2>3, SendStateKeeps
<1>6. CASE m \in Requests
  <2>1. PICK p \in Arrived : m = PressMsg(p)
    BY <1>6 DEF Requests
  <2>2. m.press = p /\ m.kind \notin Responses
    BY <2>1, PressMsgIs DEF BindRequests, Responses
  <2>3. Taken = {p}
    BY <2>1, PressMsgIs DEF Taken
  <2>4. ZDO_MatchEndDeviceBind(p, fails, sent)
    BY <1>1, <2>2
  <2>5. CASE matchED = NoMatch
    <3>1. FirstRequest(p, "whole" \notin fails, CopyMatchInfo(p, {"in", "out"} \ fails))
      BY <2>4, <2>5 DEF ZDO_MatchEndDeviceBind
    <3> QED
      BY <1>2, <1>3, <2>3, <2>5, <3>1, FirstKeeps
  <2>6. CASE matchED # NoMatch
    <3>1. SecondRequest(p, CopyMatchInfo(p, {"in", "out"} \ fails), {"1", "2"} \ fails, sent)
      BY <2>4, <2>6 DEF ZDO_MatchEndDeviceBind
    <3> QED
      BY <1>2, <1>3, <2>3, <2>6, <3>1, SecondKeeps
  <2> QED
    BY <2>5, <2>6
<1> QED
  BY <1>4, <1>5, <1>6

LEMMA NextKeepsBInv == ASSUME BInv, [BindNext]_bindVars PROVE BInv'
<1>1. CASE HostRegisters
  BY <1>1, HostStep
<1>2. CASE ZDApp_ProcessMsgCBs
  BY <1>2, ProcessStep
<1>3. CASE ZDO_EndDeviceBindMatchTimeoutCB
  BY <1>3, TimeoutStep
<1>4. ASSUME NEW d \in Devices, NEW l \in Pressed, Press(d, l) PROVE BInv'
  BY <1>4, PressStep
<1>5. ASSUME NEW d \in Devices, NEW l \in Pressed, OwnRequest(d, l.out[1]) PROVE BInv'
  BY <1>5, OwnStep
<1>6. ASSUME NEW m \in air, m.to = ZDO, ZDO_SendMsgCBs(m) PROVE BInv'
  BY <1>6, SendStep
<1>7. ASSUME NEW m \in air, m.to # ZDO, ProcessBindUnbindReq(m) PROVE BInv'
  BY <1>7, ServedStep
<1>8. ASSUME NEW m \in air, Lose(m) PROVE BInv'
  BY <1>8, LoseStep
<1>9. CASE UNCHANGED bindVars
  <2>1. UNCHANGED <<registered, queue, air, transID, matchED, timer, presses, dropped, memory, troubles>>
    BY <1>9 DEF bindVars, Histories
  <2>2. Arrived' = Arrived /\ Requests' = Requests /\ Unanswered' = Unanswered
    BY <2>1 DEF Arrived, Requests, Unanswered
  <2>3. \A p \in Arrived : PressMsg(p) \in air' <=> PressMsg(p) \in air
    BY <2>1
  <2>4. transID' \in Nat /\ troubles' \in Nat /\ (troubles' = 0 => troubles = 0)
    BY <2>1 DEF BInv, Messages, MemoryOK
  <2> QED
    BY <2>1, <2>3, <2>4, AirKept
<1> QED
  BY <1>1, <1>2, <1>3, <1>4, <1>5, <1>6, <1>7, <1>8, <1>9 DEF BindNext

(***************************************************************************)
(* Every press that has arrived is answered once, and until then has a     *)
(* place in matchED or is known to be given up, whatever is lost, refused, *)
(* late or pressed in between.                                             *)
(***************************************************************************)
THEOREM PressesAreAnswered == BindSpec => []PressesAnswered
<1>1. BindInit => BInv
  BY InitBInv
<1>2. BInv /\ [BindNext]_bindVars => BInv'
  BY NextKeepsBInv
<1>3. BInv => PressesAnswered
  BY InvAnswered
<1> QED
  BY <1>1, <1>2, <1>3, PTL DEF BindSpec

-----------------------------------------------------------------------------
(***************************************************************************)
(* Data.                                                                   *)
(***************************************************************************)
Endpoints == {d.ep : d \in Descriptors}
Numbers == 0 .. 255
AskRec == [ep : Endpoints, trans : Numbers, taken : BOOLEAN, inter : BOOLEAN, loop : BOOLEAN,
           told : Seq(Endpoints \cup {Nobody, 0})]
Tokens == [path : {"aps", "mac"}, ep : Endpoints, trans : Numbers, id : Nat]

Entries == [ep : Endpoints, task : {d.task : d \in Descriptors}, profile : {d.profile : d \in Descriptors},
            cb : {d.cb : d \in Descriptors}, match : BOOLEAN]

EndpointsOK ==
    /\ epList \in Seq(Entries)
    /\ afTransID \in [Endpoints -> Numbers]
    /\ shortages \in Nat

\* What is to be confirmed is a request that was taken, each once.
TokensOK ==
    /\ taken \subseteq Tokens
    /\ \A t \in taken :
         /\ t.id \in 1 .. Len(requests)
         /\ LET r == requests[t.id]
            IN /\ r.taken /\ r.ep = t.ep
               /\ r.inter <=> t.path = "mac"
               /\ r.loop => r.inter
               /\ Len(r.told) <= (IF r.loop THEN 1 ELSE 0)
         /\ \A u \in taken : u.id = t.id => u = t

RequestsOK ==
    /\ requests \in Seq(AskRec)
    /\ \A i \in 1 .. Len(requests) :
         LET r == requests[i]
         IN /\ Registered(r.ep)
            /\ Len(r.told) <= (IF r.loop /\ r.inter THEN 2 ELSE 1)
            /\ r.told # <<>> => r.taken \/ r.loop
            /\ \A k \in 1 .. Len(r.told) : r.told[k] = r.ep \/ r.inter
            /\ (r.taken /\ r.told = <<>>) => (\E t \in taken : t.id = i) \/ shortages > 0

\* Later: the number that comes d requests after it.
Later(n, d) == (n + d) % 256

\* The numbers of an endpoint's requests that were taken go up by one, from
\* each to the next and to the one that is to come.
NumbersOK ==
    /\ \A i \in 1 .. Len(requests) : requests[i].taken =>
         \E d \in 1 .. Len(requests) - i + 1 : afTransID[requests[i].ep] = Later(requests[i].trans, d)
    /\ \A i, j \in 1 .. Len(requests) :
         (i < j /\ requests[i].taken /\ requests[j].taken /\ requests[i].ep = requests[j].ep) =>
           \E d \in 1 .. j - i : requests[j].trans = Later(requests[i].trans, d)

StubOK ==
    /\ stub = [app |-> stub.app, channel |-> stub.channel, idle |-> stub.idle, rxOn |-> stub.rxOn,
               changing |-> stub.changing, newChannel |-> stub.newChannel, retry |-> stub.retry,
               astray |-> stub.astray]
    /\ \A x \in {"idle", "rxOn", "changing", "retry", "astray"} : stub[x] \in BOOLEAN
    /\ stub.app.ep \in Endpoints \cup {0}
    /\ stub.changing => stub.idle
    /\ RestsWhileAway

AfInv == EndpointsOK /\ TokensOK /\ RequestsOK /\ NumbersOK /\ StubOK

-----------------------------------------------------------------------------
LEMMA InitAfInv == AfInit => AfInv
<1> SUFFICES ASSUME AfInit PROVE AfInv
  OBVIOUS
<1>1. EndpointsOK
  BY DEF AfInit, EndpointsOK, Endpoints, Numbers
<1>2. requests = <<>> /\ taken = {} /\ Len(requests) = 0
  BY DEF AfInit
<1>3. TokensOK /\ RequestsOK /\ NumbersOK
  BY <1>2 DEF TokensOK, RequestsOK, NumbersOK
<1>4. StubOK
  BY DEF AfInit, StubOK, RestsWhileAway, NoApp, NwkChannel
<1> QED
  BY <1>1, <1>3, <1>4 DEF AfInv

\* Fewer than 256 requests later the number is another.
LEMMA LaterDiffers ==
    ASSUME NEW n \in Numbers, NEW d \in 1 .. 255
    PROVE  Later(n, d) # n
BY DEF Later, Numbers

LEMMA LaterStep ==
    ASSUME NEW n \in Numbers, NEW d \in Nat
    PROVE  Later(n, d) \in Numbers /\ (Later(n, d) + 1) % 256 = Later(n, d + 1)
BY DEF Later, Numbers

\* A request is a record of its fields.
LEMMA AskIs ==
    ASSUME AfInv, NEW i \in 1 .. Len(requests)
    PROVE  /\ requests[i] \in AskRec
           /\ requests[i].told \in Seq(Endpoints \cup {Nobody, 0}) /\ requests[i].trans \in Numbers
           /\ requests[i].ep \in Endpoints
<1>1. requests[i] \in AskRec
  BY DEF AfInv, RequestsOK
<1> QED
  BY <1>1 DEF AskRec

LEMMA InvDataSound == AfInv => DataSound
<1> SUFFICES ASSUME AfInv PROVE ConfirmedOnce
  BY DEF DataSound, AfInv, StubOK
<1>1. DOMAIN requests = 1 .. Len(requests) /\ Len(requests) \in Nat
  BY DEF AfInv, RequestsOK
<1>2. SUFFICES ASSUME NEW i \in 1 .. Len(requests) 
      PROVE LET r == requests[i]
            IN /\ Len(r.told) <= (IF r.loop /\ r.inter THEN 2 ELSE 1)
               /\ r.told # <<>> => r.taken \/ r.loop
               /\ \A k \in DOMAIN r.told : r.told[k] = r.ep \/ r.inter
               /\ (r.taken /\ r.told = <<>>) =>
                     (\E t \in taken : t.id = i) \/ shortages > 0
               /\ \A j \in DOMAIN requests \ {i} :
                     (i - j \in -255 .. 255 /\ requests[j].ep = r.ep /\ requests[j].trans = r.trans /\ requests[j].taken
                      /\ r.told # <<>>) => (r.loop /\ ~r.taken)
  BY <1>1 DEF ConfirmedOnce
<1> DEFINE r == requests[i]
<1>3. r.told \in Seq(Endpoints \cup {Nobody, 0}) /\ r.trans \in Numbers
  BY AskIs
<1>4. DOMAIN r.told = 1 .. Len(r.told)
  BY <1>3
<1>5. ASSUME NEW j \in 1 .. Len(requests), j # i, i - j \in -255 .. 255, requests[j].ep = r.ep,
             requests[j].trans = r.trans, requests[j].taken, r.taken
      PROVE  FALSE
  <2>1. requests[j].trans \in Numbers /\ r.trans \in Numbers
    BY AskIs
  <2>2. CASE i < j
    <3>1. PICK d \in 1 .. j - i : requests[j].trans = Later(r.trans, d)
      BY <1>5, <2>2 DEF AfInv, NumbersOK
    <3>2. d \in 1 .. 255
      BY <1>5, <2>2
    <3> QED
      BY <1>5, <2>1, <3>1, <3>2, LaterDiffers
  <2>3. CASE j < i
    <3>1. PICK d \in 1 .. i - j : r.trans = Later(requests[j].trans, d)
      BY <1>5, <2>3 DEF AfInv, NumbersOK
    <3>2. d \in 1 .. 255
      BY <1>5, <2>3
    <3> QED
      BY <1>5, <2>1, <3>1, <3>2, LaterDiffers
  <2> QED
    BY <1>5, <2>2, <2>3
<1>6. /\ Len(r.told) <= (IF r.loop /\ r.inter THEN 2 ELSE 1)
      /\ r.told # <<>> => r.taken \/ r.loop
      /\ \A k \in 1 .. Len(r.told) : r.told[k] = r.ep \/ r.inter
      /\ (r.taken /\ r.told = <<>>) => (\E t \in taken : t.id = i) \/ shortages > 0
  BY DEF AfInv, RequestsOK
<1> QED
  BY <1>1, <1>4, <1>5, <1>6
-----------------------------------------------------------------------------
\* The list of endpoints may grow or change its flags: none is forgotten.
LEMMA EndpointsStay ==
    ASSUME AfInv, EndpointsOK', \A e : Registered(e) => Registered(e)',
           UNCHANGED <<taken, requests, afTransID, stub>>, shortages' \in Nat, shortages <= shortages'
    PROVE  AfInv'
<1>1. TokensOK' /\ NumbersOK'
  BY DEF AfInv, TokensOK, NumbersOK
<1>2. StubOK'
  BY DEF AfInv, StubOK, RestsWhileAway
<1>3. RequestsOK'
  <2>1. shortages > 0 => shortages' > 0
    BY DEF AfInv, EndpointsOK
  <2> QED
    BY <2>1 DEF AfInv, RequestsOK
<1> QED
  BY <1>1, <1>2, <1>3 DEF AfInv

LEMMA DescriptorKept ==
    ASSUME NEW d \in Descriptors
    PROVE  [d EXCEPT !.match = TRUE] \in Entries /\ [d EXCEPT !.match = TRUE].ep = d.ep
<1>1. d = [ep |-> d.ep, task |-> d.task, profile |-> d.profile, cb |-> d.cb, match |-> d.match]
  BY DescriptorsAssumption
<1> DEFINE a == d.ep b == d.task c == d.profile e == d.cb f == d.match
<1>2. a \in Endpoints /\ b \in {x.task : x \in Descriptors} /\ c \in {x.profile : x \in Descriptors} /\ e \in {x.cb : x \in Descriptors}
  BY DEF Endpoints
<1>3. d = [ep |-> a, task |-> b, profile |-> c, cb |-> e, match |-> f]
  BY <1>1
<1> HIDE DEF a, b, c, e, f
<1> DEFINE Like == [ep : Endpoints, task : {x.task : x \in Descriptors}, profile : {x.profile : x \in Descriptors},
                    cb : {x.cb : x \in Descriptors}, match : {f}]
<1>4. d \in Like
  BY <1>2, <1>3
<1>5. \A x \in Like : [x EXCEPT !.match = TRUE] \in Entries /\ [x EXCEPT !.match = TRUE].ep = x.ep
  BY DEF Entries
<1> QED
  BY <1>4, <1>5

LEMMA RegisterStep == ASSUME AfInv, NEW d \in Descriptors, Register(d) PROVE AfInv'
<1> DEFINE e == [d EXCEPT !.match = TRUE]
<1>1. e \in Entries /\ e.ep = d.ep
  BY DescriptorKept
<1>2. epList' = Append(epList, e) /\ UNCHANGED <<afTransID, taken, requests, shortages, stub>>
  BY DEF Register, afRegisterExtended
<1>3. epList \in Seq(Entries)
  BY DEF AfInv, EndpointsOK
<1> HIDE DEF e
<1>4. /\ epList' \in Seq(Entries) /\ DOMAIN epList = 1 .. Len(epList) /\ DOMAIN epList' = 1 .. Len(epList) + 1
      /\ \A i \in 1 .. Len(epList) : epList'[i] = epList[i]
      /\ Len(epList) \in Nat
  BY <1>1, <1>2, <1>3
<1>6. EndpointsOK'
  BY <1>2, <1>4 DEF EndpointsOK, AfInv
<1>7. \A x : Registered(x) => Registered(x)'
  BY <1>4 DEF Registered
<1> QED
  BY <1>2, <1>6, <1>7, EndpointsStay DEF AfInv, EndpointsOK

LEMMA MatchStep == ASSUME AfInv, NEW ep, afSetMatch(ep) PROVE AfInv'
<1>1. PICK i : epList' = [epList EXCEPT ![i].match = ~@]
  BY DEF afSetMatch
<1>2. UNCHANGED <<afTransID, taken, requests, shortages, stub>>
  BY DEF afSetMatch
<1>3. epList \in Seq(Entries)
  BY DEF AfInv, EndpointsOK
<1>4. ASSUME NEW x \in Entries PROVE [x EXCEPT !.match = ~@] \in Entries /\ [x EXCEPT !.match = ~@].ep = x.ep
  BY <1>4 DEF Entries
<1> DEFINE e == [epList[i] EXCEPT !.match = ~@]
<1>5. epList' = [epList EXCEPT ![i] = e]
  BY <1>1
<1>6. i \in DOMAIN epList => e \in Entries /\ e.ep = epList[i].ep
  BY <1>3, <1>4
<1> HIDE DEF e
<1>7. epList' \in Seq(Entries) /\ DOMAIN epList' = DOMAIN epList /\ \A k \in DOMAIN epList : epList'[k].ep = epList[k].ep
  <2>1. CASE i \in DOMAIN epList
    BY <2>1, <1>3, <1>5, <1>6
  <2>2. CASE i \notin DOMAIN epList
    <3>1. epList' = epList
      BY <2>2, <1>3, <1>5
    <3> QED
      BY <3>1, <1>3
  <2> QED
    BY <2>1, <2>2
<1>8. EndpointsOK'
  BY <1>2, <1>7 DEF EndpointsOK, AfInv
<1>9. \A x : Registered(x) => Registered(x)'
  BY <1>7 DEF Registered
<1> QED
  BY <1>2, <1>8, <1>9, EndpointsStay DEF AfInv, EndpointsOK

\* The stub's changes of channel bear on nothing else.
LEMMA StubAlone ==
    ASSUME AfInv, StubOK', UNCHANGED <<epList, afTransID, taken, requests, shortages>>
    PROVE  AfInv'
<1>1. EndpointsOK' /\ TokensOK' /\ NumbersOK'
  BY DEF AfInv, EndpointsOK, TokensOK, NumbersOK
<1>2. RequestsOK'
  BY DEF AfInv, RequestsOK, Registered
<1> QED
  BY <1>1, <1>2 DEF AfInv

LEMMA AppStep == ASSUME AfInv, NEW e \in ToSet(epList), StubAPS_RegisterApp(e) PROVE AfInv'
<1>1. e.ep \in Endpoints
  <2>1. epList \in Seq(Entries)
    BY DEF AfInv, EndpointsOK
  <2>2. e \in Entries
    BY <2>1 DEF ToSet
  <2> QED
    BY <2>2 DEF Entries
<1>2. stub' = [stub EXCEPT !.app = [ep |-> e.ep, task |-> e.task]]
  BY DEF StubAPS_RegisterApp
<1>3. StubOK'
  BY <1>1, <1>2 DEF AfInv, StubOK, RestsWhileAway
<1> QED
  BY <1>3, StubAlone DEF StubAPS_RegisterApp

LEMMA ChannelStep ==
    ASSUME AfInv, (\E c : StubAPS_SetInterPanChannel(c)) \/ StubAPS_SetIntraPanChannel \/ ChannelChangeEvt
    PROVE  AfInv'
<1>1. CASE \E c : StubAPS_SetInterPanChannel(c)
  <2>1. PICK c : StubAPS_SetInterPanChannel(c)
    BY <1>1
  <2>2. StubOK'
    BY ZenonT(60), <2>1 DEF StubAPS_SetInterPanChannel, OnChannel, AfInv, StubOK, RestsWhileAway
  <2> QED
    BY <2>1, <2>2, StubAlone DEF StubAPS_SetInterPanChannel
<1>2. CASE StubAPS_SetIntraPanChannel
  <2>1. StubOK'
    BY <1>2 DEF StubAPS_SetIntraPanChannel, AfInv, StubOK, RestsWhileAway
  <2> QED
    BY <1>2, <2>1, StubAlone DEF StubAPS_SetIntraPanChannel
<1>3. CASE ChannelChangeEvt
  <2>1. StubOK'
    BY <1>3 DEF ChannelChangeEvt, OnChannel, AfInv, StubOK, RestsWhileAway
  <2> QED
    BY <1>3, <2>1, StubAlone DEF ChannelChangeEvt
<1> QED
  BY <1>1, <1>2, <1>3

\* A frame that comes in bears on no request.
LEMMA IncomingStep == ASSUME AfInv, NEW f, afIncomingData(f) PROVE AfInv'
<1>1. PICK without \in SUBSET {e.ep : e \in ToSet(epList)} : Lacking(Cardinality(without))
  BY DEF afIncomingData
<1>2. epList \in Seq(Entries) /\ Len(epList) \in Nat
  BY DEF AfInv, EndpointsOK
<1>3. IsFiniteSet(without)
  <2> DEFINE S == {epList[i].ep : i \in 1 .. Len(epList)}
  <2>1. IsFiniteSet(1 .. Len(epList))
    <3>1. 1 \in Int /\ Len(epList) \in Int
      BY <1>2
    <3> QED
      BY <3>1, FS_Interval, Zenon
  <2>2. IsFiniteSet(S)
    <3> DEFINE g == [i \in 1 .. Len(epList) |-> epList[i].ep]
    <3>1. g \in Surjection(1 .. Len(epList), S)
      BY DEF Surjection
    <3> QED
      BY <2>1, <3>1, FS_Surjection DEF ExistsSurjection
  <2>3. without \subseteq S
    BY <1>2 DEF ToSet
  <2> QED
    BY <2>2, <2>3, FS_Subset
<1>4. Cardinality(without) \in Nat
  BY <1>3, FS_CardinalityType
<1>5. shortages' = shortages + Cardinality(without) /\ shortages \in Nat
  BY <1>1 DEF Lacking, AfInv, EndpointsOK
<1>6. UNCHANGED <<epList, afTransID, taken, requests, stub>>
  BY DEF afIncomingData
<1>7. EndpointsOK' /\ shortages <= shortages'
  BY <1>4, <1>5, <1>6 DEF AfInv, EndpointsOK
<1>8. \A e : Registered(e) => Registered(e)'
  BY <1>6 DEF Registered
<1> QED
  BY <1>4, <1>5, <1>6, <1>7, <1>8, EndpointsStay

-----------------------------------------------------------------------------
LEMMA ConfirmStep == ASSUME AfInv, NEW t \in taken, Confirm(t) PROVE AfInv'
<1> DEFINE n == Len(requests)
<1>1. /\ t \in Tokens /\ t.id \in 1 .. n /\ requests \in Seq(AskRec) /\ n \in Nat
      /\ requests[t.id].taken /\ requests[t.id].ep = t.ep
      /\ requests[t.id].inter <=> t.path = "mac"
      /\ requests[t.id].loop => requests[t.id].inter
      /\ Len(requests[t.id].told) <= (IF requests[t.id].loop THEN 1 ELSE 0)
  BY DEF AfInv, TokensOK, RequestsOK
<1>2. taken' = taken \ {t} /\ UNCHANGED <<epList, afTransID, stub>>
  BY DEF Confirm
<1>3. \A e : Registered(e)' <=> Registered(e)
  BY <1>2 DEF Registered
<1>4. PICK short \in BOOLEAN :
        /\ Lacking(IF short THEN 1 ELSE 0)
        /\ requests' = IF short THEN requests
                       ELSE [requests EXCEPT ![t.id].told =
                               afDataConfirm(IF t.path = "mac" THEN stub.app.ep ELSE t.ep, @)]
  BY DEF Confirm
<1>5. shortages' \in Nat /\ shortages \in Nat /\ shortages' = shortages + (IF short THEN 1 ELSE 0)
  BY <1>4 DEF Lacking, AfInv, EndpointsOK
<1>6. EndpointsOK' /\ StubOK'
  BY <1>2, <1>5 DEF AfInv, EndpointsOK, StubOK, RestsWhileAway
<1>7. CASE short
  <2>1. requests' = requests /\ shortages' > 0
    BY <1>4, <1>5, <1>7
  <2>2. TokensOK' /\ NumbersOK' /\ RequestsOK'
    BY <2>1, <1>2, <1>3 DEF AfInv, TokensOK, NumbersOK, RequestsOK
  <2> QED
    BY <1>6, <2>2 DEF AfInv
<1>8. CASE ~short
  <2> DEFINE who == IF t.path = "mac" THEN stub.app.ep ELSE t.ep
             x == IF Registered(who) THEN who ELSE Nobody
             old == requests[t.id]
             r == [old EXCEPT !.told = Append(@, x)]
  <2>1. x \in Endpoints \cup {Nobody, 0} /\ (t.path # "mac" => x = t.ep)
    <3>1. t.path # "mac" => Registered(who)
      BY <1>1 DEF AfInv, RequestsOK
    <3>2. who \in Endpoints \cup {0}
      BY <1>1 DEF AfInv, StubOK, Tokens
    <3> QED
      BY <3>1, <3>2
  <2>2. old \in AskRec /\ old.told \in Seq(Endpoints \cup {Nobody, 0}) /\ old.loop \in BOOLEAN /\ old.inter \in BOOLEAN
    <3>1. old \in AskRec
      BY <1>1
    <3> QED
      BY <3>1 DEF AskRec
  <2>3. requests' = [requests EXCEPT ![t.id] = r]
    BY <1>4, <1>8 DEF afDataConfirm
  <2>4. t.path \in {"aps", "mac"} /\ t.id \in Nat
    BY <1>1 DEF Tokens
  <2> HIDE DEF x, who
  <2>5. /\ r \in AskRec /\ r.told = Append(old.told, x)
        /\ r.ep = old.ep /\ r.trans = old.trans /\ r.taken = old.taken /\ r.inter = old.inter /\ r.loop = old.loop
    BY SMTT(30), <2>1, <2>2 DEF AskRec
  <2> HIDE DEF r
  <2>6. /\ requests' \in Seq(AskRec) /\ Len(requests') = n /\ requests'[t.id] = r
        /\ \A i \in 1 .. n : i # t.id => requests'[i] = requests[i]
    BY <1>1, <2>3, <2>5
  <2>7. \A i \in 1 .. n : /\ requests'[i].ep = requests[i].ep /\ requests'[i].trans = requests[i].trans
                          /\ requests'[i].taken = requests[i].taken
    BY <2>5, <2>6
  <2>8. NumbersOK'
    <3>1. /\ \A i \in 1 .. n : requests[i].taken =>
              \E d \in 1 .. n - i + 1 : afTransID[requests[i].ep] = Later(requests[i].trans, d)
          /\ \A i, j \in 1 .. n :
              (i < j /\ requests[i].taken /\ requests[j].taken /\ requests[i].ep = requests[j].ep) =>
                \E d \in 1 .. j - i : requests[j].trans = Later(requests[i].trans, d)
      BY DEF AfInv, NumbersOK
    <3> HIDE DEF n
    <3>2. /\ \A i \in 1 .. n : requests'[i].taken =>
              \E d \in 1 .. n - i + 1 : afTransID'[requests'[i].ep] = Later(requests'[i].trans, d)
          /\ \A i, j \in 1 .. n :
              (i < j /\ requests'[i].taken /\ requests'[j].taken /\ requests'[i].ep = requests'[j].ep) =>
                \E d \in 1 .. j - i : requests'[j].trans = Later(requests'[i].trans, d)
      BY <1>2, <2>7, <3>1
    <3> QED
      BY <2>6, <3>2 DEF NumbersOK
  <2>9. TokensOK'
    <3>1. ASSUME NEW u \in taken' PROVE u \in taken /\ u.id # t.id /\ u.id \in 1 .. n /\ requests'[u.id] = requests[u.id]
      BY <1>2, <2>6 DEF AfInv, TokensOK
    <3> QED
      BY <1>2, <2>6, <3>1 DEF AfInv, TokensOK
  <2>10. Len(r.told) = Len(old.told) + 1 /\ Len(old.told) \in Nat /\ r.told # <<>>
         /\ \A k \in 1 .. Len(r.told) : r.told[k] = IF k <= Len(old.told) THEN old.told[k] ELSE x
    BY SMTT(30), <2>1, <2>2, <2>5
  <2>11. ASSUME NEW i \in 1 .. n
         PROVE  LET q == requests'[i]
                IN /\ Registered(q.ep)
                   /\ Len(q.told) <= (IF q.loop /\ q.inter THEN 2 ELSE 1)
                   /\ q.told # <<>> => q.taken \/ q.loop
                   /\ \A k \in 1 .. Len(q.told) : q.told[k] = q.ep \/ q.inter
                   /\ (q.taken /\ q.told = <<>>) => (\E u \in taken' : u.id = i) \/ shortages' > 0
    <3>1. CASE i = t.id
      <4>1. Registered(r.ep)
        BY <1>1, <2>5 DEF AfInv, RequestsOK
      <4>2. Len(r.told) <= (IF r.loop /\ r.inter THEN 2 ELSE 1)
        BY <1>1, <2>2, <2>5, <2>10
      <4>3. \A k \in 1 .. Len(r.told) : r.told[k] = r.ep \/ r.inter
        <5>1. \A k \in 1 .. Len(old.told) : old.told[k] = old.ep \/ old.inter
          BY <1>1 DEF AfInv, RequestsOK
        <5>2. x = old.ep \/ old.inter
          <6>1. t.path = "mac" => old.inter
            BY DEF AfInv, TokensOK
          <6> QED
            BY <1>1, <2>1, <2>4, <6>1
        <5> QED
          BY <2>5, <2>10, <5>1, <5>2
      <4> QED
        <5>1. requests'[i] = r /\ r.taken
          BY <1>1, <2>5, <2>6, <3>1
        <5>2. r.told # <<>>
          BY <2>10
        <5> QED
          BY <4>1, <4>2, <4>3, <5>1, <5>2
    <3>2. CASE i # t.id
      <4>1. requests'[i] = requests[i]
        BY <2>6, <3>2
      <4>2. \A u \in taken : u.id = i => u \in taken'
        BY <1>2, <3>2
      <4>3. shortages > 0 => shortages' > 0
        BY <1>5
      <4>4. LET q == requests[i]
            IN /\ Registered(q.ep)
               /\ Len(q.told) <= (IF q.loop /\ q.inter THEN 2 ELSE 1)
               /\ q.told # <<>> => q.taken \/ q.loop
               /\ \A k \in 1 .. Len(q.told) : q.told[k] = q.ep \/ q.inter
               /\ (q.taken /\ q.told = <<>>) => (\E u \in taken : u.id = i) \/ shortages > 0
        BY DEF AfInv, RequestsOK
      <4> QED
        BY <4>1, <4>2, <4>3, <4>4
    <3> QED
      BY <3>1, <3>2
  <2>12. RequestsOK'
    <3>1. \A i \in 1 .. n : Registered(requests'[i].ep) <=> Registered(requests[i].ep)'
      BY <1>2 DEF Registered
    <3> QED
      BY <2>6, <2>11, <3>1 DEF RequestsOK
  <2> QED
    BY <1>6, <2>8, <2>9, <2>12 DEF AfInv
<1> QED
  BY <1>7, <1>8

-----------------------------------------------------------------------------
\* A request that does not go anywhere leaves everything but the mode and the shortages.
LEMMA NothingSent ==
    ASSUME AfInv, UNCHANGED <<epList, afTransID, taken, requests, stub>>, shortages' \in Nat, shortages <= shortages'
    PROVE  AfInv'
<1>1. EndpointsOK'
  BY DEF AfInv, EndpointsOK
<1>2. \A e : Registered(e) => Registered(e)'
  BY DEF Registered
<1> QED
  BY <1>1, <1>2, EndpointsStay

\* A further request keeps what is known of those before.
LEMMA RequestAdded ==
    ASSUME AfInv, NEW e, Registered(e), e \in Endpoints, NEW r \in AskRec,
           r.ep = e, r.trans = afTransID[e],
           requests' = Append(requests, r),
           afTransID' = IF r.taken THEN [afTransID EXCEPT ![e] = (@ + 1) % 256] ELSE afTransID,
           NEW path \in {"aps", "mac"}, r.inter <=> path = "mac",
           taken' = IF r.taken /\ (r.inter \/ ~r.loop)
                    THEN taken \cup {[path |-> path, ep |-> e, trans |-> afTransID[e], id |-> Len(requests) + 1]}
                    ELSE taken,
           r.taken \/ r.loop,
           Len(r.told) <= (IF r.loop THEN 1 ELSE 0), \A k \in 1 .. Len(r.told) : r.told[k] = e,
           UNCHANGED <<epList, stub>>, shortages' \in Nat, shortages <= shortages',
           (r.loop /\ r.told = <<>>) => shortages' > 0
    PROVE  AfInv'
<1> DEFINE n == Len(requests)
           t == [path |-> path, ep |-> e, trans |-> afTransID[e], id |-> n + 1]
<1>1. requests \in Seq(AskRec) /\ n \in Nat /\ afTransID \in [Endpoints -> Numbers] /\ shortages \in Nat
  BY DEF AfInv, RequestsOK, EndpointsOK
<1>2. /\ r.taken \in BOOLEAN /\ r.loop \in BOOLEAN /\ r.inter \in BOOLEAN /\ r.trans \in Numbers
      /\ r.told \in Seq(Endpoints \cup {Nobody, 0}) /\ Len(r.told) \in Nat
  BY DEF AskRec
<1>3. /\ requests' \in Seq(AskRec) /\ Len(requests') = n + 1 /\ requests'[n + 1] = r
      /\ \A i \in 1 .. n : requests'[i] = requests[i]
  BY <1>1
<1>4. t \in Tokens /\ t.id = n + 1 /\ t.ep = e /\ t.path = path
  BY <1>1, <1>2 DEF Tokens
<1>5. afTransID' \in [Endpoints -> Numbers] /\ \A x \in Endpoints :
        afTransID'[x] = IF x = e /\ r.taken THEN (afTransID[x] + 1) % 256 ELSE afTransID[x]
  <2>1. \A m \in Numbers : (m + 1) % 256 \in Numbers
    BY DEF Numbers
  <2> DEFINE next == (afTransID[e] + 1) % 256
  <2>2. next \in Numbers
    BY <1>1, <2>1
  <2>3. afTransID' = IF r.taken THEN [afTransID EXCEPT ![e] = next] ELSE afTransID
    OBVIOUS
  <2>4. \A x \in Endpoints : x = e => (afTransID[x] + 1) % 256 = next
    OBVIOUS
  <2> HIDE DEF next
  <2> QED
    BY <1>1, <2>2, <2>3, <2>4
<1>6. EndpointsOK' /\ StubOK'
  BY <1>5 DEF AfInv, EndpointsOK, StubOK, RestsWhileAway
<1>7. \A x : Registered(x)' <=> Registered(x)
  BY DEF Registered
<1> HIDE DEF n, t
<1>8. taken' \subseteq taken \cup {t} /\ taken \subseteq taken' /\ (t \in taken' => t \in taken \/ (r.taken /\ (r.inter \/ ~r.loop)))
  BY DEF t, n
<1>9. TokensOK'
  <2>1. taken' \subseteq Tokens
    BY <1>4, <1>8 DEF AfInv, TokensOK
  <2>2. \A u \in taken : u.id \in 1 .. n
    BY DEF AfInv, TokensOK, n
  <2>3. ASSUME NEW u \in taken'
        PROVE  /\ u.id \in 1 .. n + 1
               /\ LET q == requests'[u.id]
                  IN /\ q.taken /\ q.ep = u.ep
                     /\ q.inter <=> u.path = "mac"
                     /\ q.loop => q.inter
                     /\ Len(q.told) <= (IF q.loop THEN 1 ELSE 0)
               /\ \A v \in taken' : v.id = u.id => v = u
    <3>1. CASE u \in taken
      <4>1. /\ LET q == requests[u.id]
               IN /\ q.taken /\ q.ep = u.ep
                  /\ q.inter <=> u.path = "mac"
                  /\ q.loop => q.inter
                  /\ Len(q.told) <= (IF q.loop THEN 1 ELSE 0)
            /\ \A v \in taken : v.id = u.id => v = u
        BY <3>1 DEF AfInv, TokensOK
      <4>2. u.id \in 1 .. n /\ requests'[u.id] = requests[u.id]
        BY <1>3, <2>2, <3>1
      <4>3. \A v \in taken' : v.id = u.id => v \in taken
        BY <1>1, <1>4, <1>8, <4>2 DEF n
      <4> QED
        BY <1>1, <4>1, <4>2, <4>3 DEF n
    <3>2. CASE u \notin taken
      <4>1. u = t /\ r.taken /\ (r.inter \/ ~r.loop) /\ u.id = n + 1
        BY <1>4, <1>8, <3>2
      <4>2. \A v \in taken' : v.id = u.id => v = u
        BY <1>1, <1>8, <2>2, <4>1 DEF n
      <4> QED
        BY <1>1, <1>2, <1>3, <1>4, <4>1, <4>2 DEF n
    <3> QED
      BY <3>1, <3>2
  <2> QED
    BY <1>3, <2>1, <2>3 DEF TokensOK
<1>10. ASSUME NEW i \in 1 .. n + 1
       PROVE  LET q == requests'[i]
              IN /\ Registered(q.ep)
                 /\ Len(q.told) <= (IF q.loop /\ q.inter THEN 2 ELSE 1)
                 /\ q.told # <<>> => q.taken \/ q.loop
                 /\ \A k \in 1 .. Len(q.told) : q.told[k] = q.ep \/ q.inter
                 /\ (q.taken /\ q.told = <<>>) => (\E u \in taken' : u.id = i) \/ shortages' > 0
  <2>1. CASE i = n + 1
    <3>1. r.taken /\ (r.inter \/ ~r.loop) => t \in taken'
      BY DEF t, n
    <3>2. Len(r.told) <= 1 /\ Len(r.told) <= 2
      BY <1>2
    <3>3. r.told # <<>> => r.taken \/ r.loop
      OBVIOUS
    <3>4. (r.taken /\ r.told = <<>>) => (\E u \in taken' : u.id = i) \/ shortages' > 0
      BY <1>2, <1>4, <2>1, <3>1
    <3> QED
      BY <1>3, <2>1, <3>2, <3>3, <3>4
  <2>2. CASE i \in 1 .. n
    <3>1. LET q == requests[i]
          IN /\ Registered(q.ep)
             /\ Len(q.told) <= (IF q.loop /\ q.inter THEN 2 ELSE 1)
             /\ q.told # <<>> => q.taken \/ q.loop
             /\ \A k \in 1 .. Len(q.told) : q.told[k] = q.ep \/ q.inter
             /\ (q.taken /\ q.told = <<>>) => (\E u \in taken : u.id = i) \/ shortages > 0
      BY <2>2 DEF AfInv, RequestsOK, n
    <3>2. requests'[i] = requests[i] /\ (shortages > 0 => shortages' > 0)
      BY <1>1, <1>3, <2>2
    <3> QED
      BY <1>8, <3>1, <3>2
  <2> QED
    BY <1>1, <2>1, <2>2 DEF n
<1>11. RequestsOK'
  <2>1. \A i \in 1 .. n + 1 : Registered(requests'[i].ep) <=> Registered(requests[i].ep)'
    BY DEF Registered
  <2> QED
    BY <1>3, <1>10, <2>1 DEF RequestsOK
<1>12. NumbersOK'
  <2>1. \A i \in 1 .. n : requests[i].trans \in Numbers /\ requests[i].ep \in Endpoints
    BY AskIs DEF n
  <2>2. \A i \in 1 .. n : requests[i].taken =>
           \E d \in 1 .. n - i + 1 : afTransID[requests[i].ep] = Later(requests[i].trans, d)
    BY DEF AfInv, NumbersOK, n
  <2>3. \A i, j \in 1 .. n :
           (i < j /\ requests[i].taken /\ requests[j].taken /\ requests[i].ep = requests[j].ep) =>
             \E d \in 1 .. j - i : requests[j].trans = Later(requests[i].trans, d)
    BY DEF AfInv, NumbersOK, n
  <2>4. ASSUME NEW i \in 1 .. n + 1, requests'[i].taken
        PROVE  \E d \in 1 .. (n + 1) - i + 1 : afTransID'[requests'[i].ep] = Later(requests'[i].trans, d)
    <3>1. CASE i = n + 1
      <4>1. afTransID'[e] = Later(r.trans, 1)
        BY <1>3, <1>5, <2>4, <3>1 DEF Later
      <4>2. 1 \in 1 .. (n + 1) - i + 1
        BY <1>1, <3>1 DEF n
      <4>3. requests'[i] = r /\ r.ep = e
        BY <1>3, <3>1
      <4> QED
        BY <4>1, <4>2, <4>3
    <3>2. CASE i \in 1 .. n
      <4>1. requests'[i] = requests[i]
        BY <1>3, <3>2
      <4>2. PICK d \in 1 .. n - i + 1 : afTransID[requests[i].ep] = Later(requests[i].trans, d)
        BY <2>2, <2>4, <3>2, <4>1
      <4>3. d \in Nat /\ d \in 1 .. (n + 1) - i + 1 /\ d + 1 \in 1 .. (n + 1) - i + 1
        BY <1>1, <3>2 DEF n
      <4>4. \/ afTransID'[requests[i].ep] = Later(requests[i].trans, d)
            \/ afTransID'[requests[i].ep] = Later(requests[i].trans, d + 1)
        <5>1. requests[i].trans \in Numbers /\ requests[i].ep \in Endpoints
          BY <2>1, <3>2
        <5>2. (Later(requests[i].trans, d) + 1) % 256 = Later(requests[i].trans, d + 1)
          BY <4>3, <5>1, LaterStep
        <5>3. \/ afTransID'[requests[i].ep] = afTransID[requests[i].ep]
              \/ afTransID'[requests[i].ep] = (afTransID[requests[i].ep] + 1) % 256
          BY <1>5, <5>1
        <5> QED
          BY <4>2, <5>2, <5>3
      <4> QED
        BY <4>1, <4>3, <4>4
    <3> QED
      BY <1>1, <3>1, <3>2 DEF n
  <2>5. ASSUME NEW i \in 1 .. n + 1, NEW j \in 1 .. n + 1, i < j, requests'[i].taken, requests'[j].taken,
               requests'[i].ep = requests'[j].ep
        PROVE  \E d \in 1 .. j - i : requests'[j].trans = Later(requests'[i].trans, d)
    <3>1. i \in 1 .. n /\ requests'[i] = requests[i]
      BY <1>1, <1>3, <2>5 DEF n
    <3>2. CASE j = n + 1
      <4>1. requests'[j] = r /\ requests[i].ep = e /\ requests[i].taken
        BY <1>3, <2>5, <3>1, <3>2
      <4>2. \E d \in 1 .. n - i + 1 : afTransID[e] = Later(requests[i].trans, d)
        BY <2>2, <3>1, <4>1
      <4>3. n - i + 1 = j - i
        BY <1>1, <3>2 DEF n
      <4> QED
        BY <3>1, <4>1, <4>2, <4>3
    <3>3. CASE j \in 1 .. n
      <4>1. requests'[j] = requests[j]
        BY <1>3, <3>3
      <4> QED
        BY <2>3, <2>5, <3>1, <3>3, <4>1
    <3> QED
      BY <1>1, <3>2, <3>3 DEF n
  <2> DEFINE m == n + 1
  <2>6. \A i \in 1 .. m : requests'[i].taken =>
           \E d \in 1 .. m - i + 1 : afTransID'[requests'[i].ep] = Later(requests'[i].trans, d)
    BY <2>4
  <2>7. \A i, j \in 1 .. m :
           (i < j /\ requests'[i].taken /\ requests'[j].taken /\ requests'[i].ep = requests'[j].ep) =>
             \E d \in 1 .. j - i : requests'[j].trans = Later(requests'[i].trans, d)
    BY <2>5
  <2>8. Len(requests') = m
    BY <1>3
  <2> HIDE DEF m
  <2> QED
    BY <2>6, <2>7, <2>8 DEF NumbersOK
<1> QED
  BY <1>6, <1>9, <1>11, <1>12 DEF AfInv

LEMMA AskStep ==
    ASSUME AfInv, NEW e \in ToSet(epList), NEW to, NEW len, NEW options, AF_DataRequest(e.ep, to, len, options)
    PROVE  AfInv'
<1> DEFINE ep == e.ep
           a == [to EXCEPT !.mode = IF to.mode = "kept" THEN addrMode ELSE @]
           way == IF LimitRefuses(a, options) # "no" THEN a.mode ELSE ModeAfter(a)
           inter == StubAPS_InterPan(a.pan, a.ep)
           loop == Reached(a, way, options) /\ way = "16Bit" /\ a.to = Own
<1>1. ep \in Endpoints
  <2>1. epList \in Seq(Entries)
    BY DEF AfInv, EndpointsOK
  <2>2. e \in Entries
    BY <2>1 DEF ToSet
  <2> QED
    BY <2>2 DEF Entries
<1>2. Registered(ep) /\ UNCHANGED <<epList, stub>>
  BY DEF AF_DataRequest
<1>3. inter \in BOOLEAN /\ loop \in BOOLEAN
  BY DEF StubAPS_InterPan, Reached
<1>4. PICK verdict \in {"SUCCESS", "MEM_FAIL"}, short \in BOOLEAN :
        LET status == Status(a, way, len, options, verdict)
        IN /\ (short => loop) /\ (verdict # "SUCCESS" => status = verdict)
           /\ Lacking((IF verdict = "SUCCESS" THEN 0 ELSE 1) + IF short THEN 1 ELSE 0)
           /\ addrMode' = way
           /\ requests' =
                IF status # "SUCCESS" /\ ~loop THEN requests
                ELSE Append(requests,
                  [ep |-> ep, trans |-> afTransID[ep], taken |-> status = "SUCCESS", inter |-> inter,
                   loop |-> loop, told |-> IF loop /\ ~short THEN afDataConfirm(ep, <<>>) ELSE <<>>])
           /\ afTransID' = IF status = "SUCCESS" THEN [afTransID EXCEPT ![ep] = (@ + 1) % 256] ELSE afTransID
           /\ taken' = IF status = "SUCCESS" /\ (inter \/ ~loop)
                       THEN taken \cup {[path |-> IF inter THEN "mac" ELSE "aps", ep |-> ep,
                                         trans |-> afTransID[ep], id |-> Len(requests) + 1]}
                       ELSE taken
  BY Zenon DEF AF_DataRequest
<1> DEFINE good == Status(a, way, len, options, verdict) = "SUCCESS"
           back == IF loop /\ ~short THEN afDataConfirm(ep, <<>>) ELSE <<>>
           path == IF inter THEN "mac" ELSE "aps"
           r == [ep |-> ep, trans |-> afTransID[ep], taken |-> good, inter |-> inter, loop |-> loop, told |-> back]
<1>5. shortages' \in Nat /\ shortages <= shortages' /\ (short => shortages' > 0)
  BY <1>4 DEF Lacking, AfInv, EndpointsOK
<1>6. good \in BOOLEAN
  OBVIOUS
<1>7. back = IF loop /\ ~short THEN <<ep>> ELSE <<>>
  BY <1>2 DEF afDataConfirm
<1>8. /\ requests' = IF ~good /\ ~loop THEN requests ELSE Append(requests, r)
      /\ afTransID' = IF good THEN [afTransID EXCEPT ![ep] = (@ + 1) % 256] ELSE afTransID
      /\ taken' = IF good /\ (inter \/ ~loop)
                  THEN taken \cup {[path |-> path, ep |-> ep, trans |-> afTransID[ep], id |-> Len(requests) + 1]}
                  ELSE taken
  BY <1>4
<1>9. afTransID[ep] \in Numbers
  BY <1>1 DEF AfInv, EndpointsOK
<1> HIDE DEF good, inter, loop, back, ep
<1>10. path \in {"aps", "mac"} /\ (inter <=> path = "mac")
  BY <1>3
<1>11. /\ back \in Seq(Endpoints \cup {Nobody, 0}) /\ Len(back) <= (IF loop THEN 1 ELSE 0)
       /\ \A k \in 1 .. Len(back) : back[k] = ep
       /\ (loop /\ back = <<>>) => short
  <2>1. CASE loop /\ ~short
    <3>1. back = <<ep>> /\ Len(<<ep>>) = 1
      BY <1>7, <2>1
    <3>2. <<ep>> \in Seq(Endpoints \cup {Nobody, 0}) /\ \A k \in 1 .. 1 : <<ep>>[k] = ep
      BY <1>1
    <3> QED
      BY <2>1, <3>1, <3>2
  <2>2. CASE ~(loop /\ ~short)
    <3>1. back = <<>> /\ Len(back) = 0
      BY <1>7, <2>2
    <3> QED
      BY <2>2, <3>1
  <2> QED
    BY <2>1, <2>2
<1>12. r \in AskRec /\ r.ep = ep /\ r.trans = afTransID[ep] /\ r.taken = good /\ r.inter = inter /\ r.loop = loop /\ r.told = back
  BY <1>1, <1>3, <1>6, <1>9, <1>11 DEF AskRec
<1> HIDE DEF r, path
<1>13. CASE ~good /\ ~loop
  BY <1>2, <1>5, <1>8, <1>13, NothingSent
<1>14. CASE good \/ loop
  BY <1>1, <1>2, <1>5, <1>8, <1>10, <1>11, <1>12, <1>14, RequestAdded
<1> QED
  BY <1>13, <1>14

LEMMA NextKeepsAfInv == ASSUME AfInv, [AfNext]_afVars PROVE AfInv'
<1>1. ASSUME NEW d \in Descriptors, Register(d) PROVE AfInv'
  BY <1>1, RegisterStep
<1>2. ASSUME NEW e \in ToSet(epList), afSetMatch(e.ep) PROVE AfInv'
  BY <1>2, MatchStep
<1>3. ASSUME NEW e \in ToSet(epList), StubAPS_RegisterApp(e) PROVE AfInv'
  BY <1>3, AppStep
<1>4. ASSUME NEW e \in ToSet(epList), NEW ask \in Asks, NEW a \in Addresses, AF_DataRequest(e.ep, a, ask[1], ask[2])
      PROVE  AfInv'
  BY <1>4, AskStep
<1>5. ASSUME NEW t \in taken, Confirm(t) PROVE AfInv'
  BY <1>5, ConfirmStep
<1>6. CASE \/ \E c \in OtherChannels \cup {NwkChannel} : StubAPS_SetInterPanChannel(c)
           \/ StubAPS_SetIntraPanChannel \/ ChannelChangeEvt
  BY <1>6, ChannelStep
<1>7. CASE \/ \E f \in Frames : "octets" \notin DOMAIN f /\ afIncomingData(f)
           \/ \E f \in Frames : "octets" \in DOMAIN f /\ INTERP_DataIndication(f, f.octets)
  BY <1>7, IncomingStep DEF INTERP_DataIndication
<1>8. CASE UNCHANGED afVars
  <2>1. shortages' \in Nat /\ shortages <= shortages'
    BY <1>8 DEF afVars, AfInv, EndpointsOK
  <2> QED
    BY <1>8, <2>1, NothingSent DEF afVars
<1> QED
  BY <1>1, <1>2, <1>3, <1>4, <1>5, <1>6, <1>7, <1>8 DEF AfNext, Others

(***************************************************************************)
(* What AF and the stub took is confirmed once, to the endpoint that asked *)
(* and under a number of its own, with the exceptions ConfirmedOnce names; *)
(* and the network layer rests while the device is away from its channel:  *)
(* whatever is registered, asked, refused and heard, in any order.         *)
(***************************************************************************)
THEOREM DataIsSound == AfSpec => []DataSound
<1>1. AfInit => AfInv
  BY InitAfInv
<1>2. AfInv /\ [AfNext]_afVars => AfInv'
  BY NextKeepsAfInv
<1>3. AfInv => DataSound
  BY InvDataSound
<1> QED
  BY <1>1, <1>2, <1>3, PTL DEF AfSpec

-----------------------------------------------------------------------------
(***************************************************************************)
(* NodeApp: for every kind of node, any commands and any number of inputs, *)
(* what a node tells is so.  A node is in its invariant between two steps: *)
(* nothing is left to be told, its answer has the length its kind fills,   *)
(* its timing fits what it was told last, and the motor of the shade ends  *)
(* where its last command sent it.  A command's branch keeps that          *)
(* (Carried, one lemma for each kind), and so does the answer (Filled).    *)
(***************************************************************************)
Fields == {"buf", "switch", "onoff", "bx", "tmg", "dir", "turns", "wait", "out", "index", "wrote",
           "say", "pins", "data", "lock", "len", "open", "blink", "time", "timing", "timer"}
IsNode(n) == DOMAIN n = Fields /\ DOMAIN n.data = 6 .. 44 /\ DOMAIN n.pins = Pins

(* A command to n, of kind k, made m of it.  If m tells, n was only asked, *)
(* or m is marked as what a command did.                                   *)
Keeps(n, m) == IsNode(m) /\ m.timer = n.timer /\ m.timing = n.timing /\ m.open = n.open
Idle(n, m) == m.wrote = <<>> /\ Shown(m) = Shown(n)
Displays == {"65", "66", "6C", "6E", "6F", "28"}
Marks(k, m) == CASE k \in Displays -> m.switch = 1
                 [] k = "06" -> m.buf \in {1, 2}
                 [] k \in NoSum \cup Excused \cup {"6A", "22", "23", "U"} -> FALSE
                 [] OTHER -> m.buf = 1
Carried(k, n, m) ==
  /\ Keeps(n, m)
  /\ m.time = n.time \/ (k \in {"13", "14"} /\ m.time = 0)
  /\ k \notin NoSum => m.len = n.len
  /\ k \in {"31", "73"} => m.buf \in {n.buf, 1}
  /\ k = "A3" => m.buf \in {n.buf, 0, 2}
  /\ k \notin Excused => m.say = FALSE \/ Idle(n, m) \/ Marks(k, m)

\* What the branch of each kind does.
LEMMA CarriesS == ASSUME NEW n, IsNode(n), NEW d, n.wrote = <<>>, n.say = FALSE
  PROVE Carried("S", n, DoS(d, n))
BY DEF DoS, Carried, IsNode, Keeps, Say, Done, Write, Set, Put, Idle, Shown, Fields, Displays,
   Marks, Excused, NoSum, AA, BB, CC, DD

LEMMA CarriesQ == ASSUME NEW n, IsNode(n), NEW d, n.wrote = <<>>, n.say = FALSE
  PROVE Carried("Q", n, DoQ(d, n))
BY DEF DoQ, Carried, IsNode, Keeps, Say, Done, Write, Set, Put, Idle, Shown, Fields, Displays,
   Marks, Excused, NoSum, AA, BB, CC, DD

LEMMA CarriesH == ASSUME NEW n, IsNode(n), NEW d, n.wrote = <<>>, n.say = FALSE
  PROVE Carried("H", n, DoH(d, n))
BY DEF DoH, Carried, IsNode, Keeps, Say, Done, Write, Set, Put, Idle, Shown, Fields, Displays,
   Marks, Excused, NoSum, AA, BB, CC, DD, OnOff, Up, Down

LEMMA CarriesP == ASSUME NEW n, IsNode(n), NEW d, n.wrote = <<>>, n.say = FALSE
  PROVE Carried("P", n, DoP(d, n))
BY DEF DoP, Carried, IsNode, Keeps, Say, Done, Write, Set, Put, Idle, Shown, Fields, Displays,
   Marks, Excused, NoSum, AA, BB, CC, DD

LEMMA CarriesK == ASSUME NEW n, IsNode(n), NEW d, n.wrote = <<>>, n.say = FALSE
  PROVE Carried("K", n, DoK(d, n))
BY DEF DoK, Carried, IsNode, Keeps, Say, Done, Write, Set, Put, Idle, Shown, Fields, Displays,
   Marks, Excused, NoSum, AA, BB, CC, DD

LEMMA Carries02 == ASSUME NEW n, IsNode(n), NEW d, n.wrote = <<>>, n.say = FALSE
  PROVE Carried("02", n, Do02(d, n))
BY DEF Do02, Carried, IsNode, Keeps, Say, Done, Write, Set, Put, Idle, Shown, Fields, Displays,
   Marks, Excused, NoSum, AA, BB, CC, DD

LEMMA Carries05 == ASSUME NEW n, IsNode(n), NEW d, n.wrote = <<>>, n.say = FALSE
  PROVE Carried("05", n, Do05(d, n))
BY DEF Do05, Carried, IsNode, Keeps, Say, Done, Write, Set, Put, Idle, Shown, Fields, Displays,
   Marks, Excused, NoSum, AA, BB, CC, DD, Run, Up, Down, Halt

LEMMA Carries06 == ASSUME NEW n, IsNode(n), NEW d, n.wrote = <<>>, n.say = FALSE
  PROVE Carried("06", n, Do06(d, n))
BY DEF Do06, Carried, IsNode, Keeps, Say, Done, Write, Set, Put, Idle, Shown, Fields, Displays,
   Marks, Excused, NoSum, AA, BB, CC, DD

LEMMA Carries07 == ASSUME NEW n, IsNode(n), NEW d, n.wrote = <<>>, n.say = FALSE
  PROVE Carried("07", n, Do07(d, n))
BY DEF Do07, Carried, IsNode, Keeps, Say, Done, Write, Set, Put, Idle, Shown, Fields, Displays,
   Marks, Excused, NoSum, AA, BB, CC, DD

LEMMA Carries09 == ASSUME NEW n, IsNode(n), NEW d, n.wrote = <<>>, n.say = FALSE
  PROVE Carried("09", n, Do09(d, n))
BY DEF Do09, Carried, IsNode, Keeps, Say, Done, Write, Set, Put, Idle, Shown, Fields, Displays,
   Marks, Excused, NoSum, AA, BB, CC, DD

LEMMA Carries12 == ASSUME NEW n, IsNode(n), NEW d, n.wrote = <<>>, n.say = FALSE
  PROVE Carried("12", n, Do12(d, n))
BY DEF Do12, Carried, IsNode, Keeps, Say, Done, Write, Set, Put, Idle, Shown, Fields, Displays,
   Marks, Excused, NoSum, AA, BB, CC, DD, Down

LEMMA Carries13 == ASSUME NEW n, IsNode(n), NEW d, n.wrote = <<>>, n.say = FALSE
  PROVE Carried("13", n, Do13(d, n))
BY DEF Do13, Carried, IsNode, Keeps, Say, Done, Write, Set, Put, Idle, Shown, Fields, Displays,
   Marks, Excused, NoSum, AA, BB, CC, DD, AskNow, AskRead

LEMMA Carries14 == ASSUME NEW n, IsNode(n), NEW d, n.wrote = <<>>, n.say = FALSE
  PROVE Carried("14", n, Do14(d, n))
BY DEF Do14, Carried, IsNode, Keeps, Say, Done, Write, Set, Put, Idle, Shown, Fields, Displays,
   Marks, Excused, NoSum, AA, BB, CC, DD, AskNow, AskRead

LEMMA Carries15 == ASSUME NEW n, IsNode(n), NEW d, n.wrote = <<>>, n.say = FALSE
  PROVE Carried("15", n, Do15(d, n))
BY DEF Do15, Carried, IsNode, Keeps, Say, Done, Write, Set, Put, Idle, Shown, Fields, Displays,
   Marks, Excused, NoSum, AA, BB, CC, DD

LEMMA Carries18 == ASSUME NEW n, IsNode(n), NEW d, n.wrote = <<>>, n.say = FALSE
  PROVE Carried("18", n, Do18(d, n))
BY DEF Do18, Carried, IsNode, Keeps, Say, Done, Write, Set, Put, Idle, Shown, Fields, Displays,
   Marks, Excused, NoSum, AA, BB, CC, DD

LEMMA Carries23 == ASSUME NEW n, IsNode(n), NEW d, n.wrote = <<>>, n.say = FALSE
  PROVE Carried("23", n, Do23(d, n))
BY DEF Do23, Carried, IsNode, Keeps, Say, Done, Write, Set, Put, Idle, Shown, Fields, Displays,
   Marks, Excused, NoSum, AA, BB, CC, DD

LEMMA Carries27 == ASSUME NEW n, IsNode(n), NEW d, n.wrote = <<>>, n.say = FALSE
  PROVE Carried("27", n, Do27(d, n))
BY DEF Do27, Carried, IsNode, Keeps, Say, Done, Write, Set, Put, Idle, Shown, Fields, Displays,
   Marks, Excused, NoSum, AA, BB, CC, DD

LEMMA Carries28 == ASSUME NEW n, IsNode(n), NEW d, n.wrote = <<>>, n.say = FALSE
  PROVE Carried("28", n, Do28(d, n))
BY DEF Do28, Carried, IsNode, Keeps, Say, Done, Write, Set, Put, Idle, Shown, Fields, Displays,
   Marks, Excused, NoSum, AA, BB, CC, DD, Show

LEMMA Carries29 == ASSUME NEW n, IsNode(n), NEW d, n.wrote = <<>>, n.say = FALSE
  PROVE Carried("29", n, Do29(d, n))
BY DEF Do29, Carried, IsNode, Keeps, Say, Done, Write, Set, Put, Idle, Shown, Fields, Displays,
   Marks, Excused, NoSum, AA, BB, CC, DD

LEMMA Carries30 == ASSUME NEW n, IsNode(n), NEW d, n.wrote = <<>>, n.say = FALSE
  PROVE Carried("30", n, Do30(d, n))
BY DEF Do30, Carried, IsNode, Keeps, Say, Done, Write, Set, Put, Idle, Shown, Fields, Displays,
   Marks, Excused, NoSum, AA, BB, CC, DD

LEMMA Carries31 == ASSUME NEW n, IsNode(n), NEW d, n.wrote = <<>>, n.say = FALSE
  PROVE Carried("31", n, Do31(d, n))
BY DEF Do31, Carried, IsNode, Keeps, Say, Done, Write, Set, Put, Idle, Shown, Fields, Displays,
   Marks, Excused, NoSum, AA, BB, CC, DD

LEMMA Carries40 == ASSUME NEW n, IsNode(n), NEW d, n.wrote = <<>>, n.say = FALSE
  PROVE Carried("40", n, Do40(d, n))
BY DEF Do40, Carried, IsNode, Keeps, Say, Done, Write, Set, Put, Idle, Shown, Fields, Displays,
   Marks, Excused, NoSum, AA, BB, CC, DD

LEMMA Carries65 == ASSUME NEW n, IsNode(n), NEW d, n.wrote = <<>>, n.say = FALSE
  PROVE Carried("65", n, Do65(d, n))
BY DEF Do65, Carried, IsNode, Keeps, Say, Done, Write, Set, Put, Idle, Shown, Fields, Displays,
   Marks, Excused, NoSum, AA, BB, CC, DD, Show

LEMMA Carries66 == ASSUME NEW n, IsNode(n), NEW d, n.wrote = <<>>, n.say = FALSE
  PROVE Carried("66", n, Do66(d, n))
BY DEF Do66, Carried, IsNode, Keeps, Say, Done, Write, Set, Put, Idle, Shown, Fields, Displays,
   Marks, Excused, NoSum, AA, BB, CC, DD, Show

LEMMA Carries67 == ASSUME NEW n, IsNode(n), NEW d, n.wrote = <<>>, n.say = FALSE
  PROVE Carried("67", n, Do67(d, n))
BY DEF Do67, Carried, IsNode, Keeps, Say, Done, Write, Set, Put, Idle, Shown, Fields, Displays,
   Marks, Excused, NoSum, AA, BB, CC, DD

LEMMA Carries6A == ASSUME NEW n, IsNode(n), NEW d, n.wrote = <<>>, n.say = FALSE
  PROVE Carried("6A", n, Do6A(d, n))
BY DEF Do6A, Carried, IsNode, Keeps, Say, Done, Write, Set, Put, Idle, Shown, Fields, Displays,
   Marks, Excused, NoSum, AA, BB, CC, DD

LEMMA Carries6B == ASSUME NEW n, IsNode(n), NEW d, n.wrote = <<>>, n.say = FALSE
  PROVE Carried("6B", n, Do6B(d, n))
BY DEF Do6B, Carried, IsNode, Keeps, Say, Done, Write, Set, Put, Idle, Shown, Fields, Displays,
   Marks, Excused, NoSum, AA, BB, CC, DD

LEMMA Carries6C == ASSUME NEW n, IsNode(n), NEW d, n.wrote = <<>>, n.say = FALSE
  PROVE Carried("6C", n, Do6C(d, n))
BY DEF Do6C, Carried, IsNode, Keeps, Say, Done, Write, Set, Put, Idle, Shown, Fields, Displays,
   Marks, Excused, NoSum, AA, BB, CC, DD, Show

LEMMA Carries6D == ASSUME NEW n, IsNode(n), NEW d, n.wrote = <<>>, n.say = FALSE
  PROVE Carried("6D", n, Do6D(d, n))
BY DEF Do6D, Carried, IsNode, Keeps, Say, Done, Write, Set, Put, Idle, Shown, Fields, Displays,
   Marks, Excused, NoSum, AA, BB, CC, DD

LEMMA Carries6E == ASSUME NEW n, IsNode(n), NEW d, n.wrote = <<>>, n.say = FALSE
  PROVE Carried("6E", n, Do6E(d, n))
BY DEF Do6E, Carried, IsNode, Keeps, Say, Done, Write, Set, Put, Idle, Shown, Fields, Displays,
   Marks, Excused, NoSum, AA, BB, CC, DD, Show

LEMMA Carries6F == ASSUME NEW n, IsNode(n), NEW d, n.wrote = <<>>, n.say = FALSE
  PROVE Carried("6F", n, Do6F(d, n))
BY DEF Do6F, Carried, IsNode, Keeps, Say, Done, Write, Set, Put, Idle, Shown, Fields, Displays,
   Marks, Excused, NoSum, AA, BB, CC, DD, Show

LEMMA Carries70 == ASSUME NEW n, IsNode(n), NEW d, n.wrote = <<>>, n.say = FALSE
  PROVE Carried("70", n, Do70(d, n))
BY DEF Do70, Carried, IsNode, Keeps, Say, Done, Write, Set, Put, Idle, Shown, Fields, Displays,
   Marks, Excused, NoSum, AA, BB, CC, DD, Pass, Inner

LEMMA Carries71 == ASSUME NEW n, IsNode(n), NEW d, n.wrote = <<>>, n.say = FALSE
  PROVE Carried("71", n, Do71(d, n))
BY DEF Do71, Carried, IsNode, Keeps, Say, Done, Write, Set, Put, Idle, Shown, Fields, Displays,
   Marks, Excused, NoSum, AA, BB, CC, DD, Pass, Inner

LEMMA Carries73 == ASSUME NEW n, IsNode(n), NEW d, n.wrote = <<>>, n.say = FALSE
  PROVE Carried("73", n, Do73(d, n))
BY DEF Do73, Carried, IsNode, Keeps, Say, Done, Write, Set, Put, Idle, Shown, Fields, Displays,
   Marks, Excused, NoSum, AA, BB, CC, DD

LEMMA Carries74 == ASSUME NEW n, IsNode(n), NEW d, n.wrote = <<>>, n.say = FALSE
  PROVE Carried("74", n, Do74(d, n))
BY DEF Do74, Carried, IsNode, Keeps, Say, Done, Write, Set, Put, Idle, Shown, Fields, Displays,
   Marks, Excused, NoSum, AA, BB, CC, DD, AskRead

LEMMA Carries79 == ASSUME NEW n, IsNode(n), NEW d, n.wrote = <<>>, n.say = FALSE
  PROVE Carried("79", n, Do79(d, n))
BY DEF Do79, Carried, IsNode, Keeps, Say, Done, Write, Set, Put, Idle, Shown, Fields, Displays,
   Marks, Excused, NoSum, AA, BB, CC, DD, Status79

LEMMA Carries7B == ASSUME NEW n, IsNode(n), NEW d, n.wrote = <<>>, n.say = FALSE
  PROVE Carried("7B", n, Pass(d, n, 10))
BY DEF Pass, Carried, IsNode, Keeps, Say, Done, Write, Set, Put, Idle, Shown, Fields, Displays,
   Marks, Excused, NoSum, AA, BB, CC, DD, Inner

LEMMA Carries0A == ASSUME NEW n, IsNode(n), NEW d, n.wrote = <<>>, n.say = FALSE
  PROVE Carried("0A", n, Pass(d, n, 10))
BY DEF Pass, Carried, IsNode, Keeps, Say, Done, Write, Set, Put, Idle, Shown, Fields, Displays,
   Marks, Excused, NoSum, AA, BB, CC, DD, Inner

LEMMA Carries25 == ASSUME NEW n, IsNode(n), NEW d, n.wrote = <<>>, n.say = FALSE
  PROVE Carried("25", n, Pass(d, n, 10))
BY DEF Pass, Carried, IsNode, Keeps, Say, Done, Write, Set, Put, Idle, Shown, Fields, Displays,
   Marks, Excused, NoSum, AA, BB, CC, DD, Inner

LEMMA Carries26 == ASSUME NEW n, IsNode(n), NEW d, n.wrote = <<>>, n.say = FALSE
  PROVE Carried("26", n, Pass(d, n, 10))
BY DEF Pass, Carried, IsNode, Keeps, Say, Done, Write, Set, Put, Idle, Shown, Fields, Displays,
   Marks, Excused, NoSum, AA, BB, CC, DD, Inner

LEMMA Carries7C == ASSUME NEW n, IsNode(n), NEW d, n.wrote = <<>>, n.say = FALSE
  PROVE Carried("7C", n, Pass(d, n, 11))
BY DEF Pass, Carried, IsNode, Keeps, Say, Done, Write, Set, Put, Idle, Shown, Fields, Displays,
   Marks, Excused, NoSum, AA, BB, CC, DD, Inner

LEMMA Carries83 == ASSUME NEW n, IsNode(n), NEW d, n.wrote = <<>>, n.say = FALSE
  PROVE Carried("83", n, Do83(d, n))
BY DEF Do83, Carried, IsNode, Keeps, Say, Done, Write, Set, Put, Idle, Shown, Fields, Displays,
   Marks, Excused, NoSum, AA, BB, CC, DD

LEMMA Carries86 == ASSUME NEW n, IsNode(n), NEW d, n.wrote = <<>>, n.say = FALSE
  PROVE Carried("86", n, Do86(d, n))
BY DEF Do86, Carried, IsNode, Keeps, Say, Done, Write, Set, Put, Idle, Shown, Fields, Displays,
   Marks, Excused, NoSum, AA, BB, CC, DD

LEMMA Carries87 == ASSUME NEW n, IsNode(n), NEW d, n.wrote = <<>>, n.say = FALSE
  PROVE Carried("87", n, Do87(d, n))
BY DEF Do87, Carried, IsNode, Keeps, Say, Done, Write, Set, Put, Idle, Shown, Fields, Displays,
   Marks, Excused, NoSum, AA, BB, CC, DD

LEMMA CarriesA3 == ASSUME NEW n, IsNode(n), NEW d, n.wrote = <<>>, n.say = FALSE
  PROVE Carried("A3", n, DoA3(d, n))
BY DEF DoA3, Carried, IsNode, Keeps, Say, Done, Write, Set, Put, Idle, Shown, Fields, Displays,
   Marks, Excused, NoSum, AA, BB, CC, DD

LEMMA CarriesF0 == ASSUME NEW n, IsNode(n), NEW d, n.wrote = <<>>, n.say = FALSE
  PROVE Carried("F0", n, DoF0(d, n))
BY DEF DoF0, Carried, IsNode, Keeps, Say, Done, Write, Set, Put, Idle, Shown, Fields, Displays,
   Marks, Excused, NoSum, AA, BB, CC, DD

\* A command's branch, whichever the kind: what it keeps and what it marks.
LEMMA ActCarries ==
  ASSUME kind \in NodeKinds, NEW n, IsNode(n), n.wrote = <<>>, n.say = FALSE, NEW d
  PROVE  Carried(kind, n, Act(kind, d, n))
<1>1. Carried(kind, n, n)
  BY DEF Carried, Keeps, IsNode
<1>2. CASE kind \in {"S", "Q", "H", "P", "K", "02", "05", "06", "07", "09", "12", "13", "14"}
  BY <1>2, CarriesS, CarriesQ, CarriesH, CarriesP, CarriesK, Carries02, Carries05, Carries06,
     Carries07, Carries09, Carries12, Carries13, Carries14 DEF Act
<1>3. CASE kind \in {"15", "18", "23", "27", "28", "29", "30", "31", "40", "65", "66", "67"}
  BY <1>3, Carries15, Carries18, Carries23, Carries27, Carries28, Carries29, Carries30,
     Carries31, Carries40, Carries65, Carries66, Carries67 DEF Act
<1>4. CASE kind \in {"6A", "6B", "6C", "6D", "6E", "6F", "70", "71", "73", "74", "79", "7C"}
  BY <1>4, Carries6A, Carries6B, Carries6C, Carries6D, Carries6E, Carries6F, Carries70,
     Carries71, Carries73, Carries74, Carries79, Carries7C DEF Act
<1>5. CASE kind \in {"0A", "25", "26", "7B", "83", "86", "87", "A3", "F0"}
  BY <1>5, Carries0A, Carries25, Carries26, Carries7B, Carries83, Carries86, Carries87,
     CarriesA3, CarriesF0 DEF Act
<1>6. CASE kind \in {"U", "22"}
  BY <1>1, <1>6 DEF Act
<1> QED
  BY <1>2, <1>3, <1>4, <1>5, <1>6 DEF NodeKinds

-----------------------------------------------------------------------------
\* What each way of filling the answer relies on, of a node of kind k.
FiveLong == {"H", "15", "22", "23", "28", "65", "66", "6A", "6C", "6E", "6F"}
Sized(k, n) ==
  /\ k \in FiveLong => n.len = 5
  /\ k = "U" => n.len = 4
  /\ k \in {"31", "73"} => n.buf \in {0, 1}
  /\ k = "A3" => n.buf \in {0, 1, 2}

\* The answer f of n: its last octet is the sum of those before, and what n
\* has marked is BB.
Filled(k, n, f) ==
  /\ IsNode(f) /\ f.time = n.time /\ f.timer = n.timer /\ f.timing = n.timing /\ f.open = n.open
  /\ k \in {"05", "K"} => /\ f.pins = n.pins /\ f.bx = n.bx /\ f.onoff = n.onoff /\ f.tmg = n.tmg
  /\ Sized(k, f)
  /\ k \notin NoSum => f.len \in {4, 5, 6} /\ f.data[f.len + 5] = SumOf(f, f.len + 5)
  /\ Marks(k, n) => f.data[9] = BB

\* The sum is of the octets before it, and of nothing after.
LEMMA SummedIsTheSum ==
  ASSUME NEW n, IsNode(n), NEW at \in 7 .. 44
  PROVE  /\ Summed(n, at).data[at] = SumOf(Summed(n, at), at)
         /\ IsNode(Summed(n, at))
         /\ \A i \in 6 .. 44 : i # at => Summed(n, at).data[i] = n.data[i]
<1> DEFINE m == Summed(n, at)
<1>1. /\ IsNode(m) /\ m.data[at] = SumOf(n, at)
      /\ \A i \in 6 .. 44 : i # at => m.data[i] = n.data[i]
  <2> HIDE DEF SumOf
  <2> QED BY DEF Summed, IsNode, Fields
<1>2. [i \in 6 .. at - 1 |-> m.data[i]] = [i \in 6 .. at - 1 |-> n.data[i]]
  BY <1>1
<1>3. SumOf(m, at) = SumOf(n, at)
  BY <1>2, Zenon DEF SumOf
<1> QED
  BY <1>1, <1>3

\* What an answer leaves of the node's other variables.
Untouched(k, n, f) ==
  /\ IsNode(f) /\ f.time = n.time /\ f.timer = n.timer /\ f.timing = n.timing /\ f.open = n.open
  /\ k \in {"05", "K"} => /\ f.pins = n.pins /\ f.bx = n.bx /\ f.onoff = n.onoff /\ f.tmg = n.tmg

\* An answer whose last change is the sum, at its end.
LEMMA FilledBySum ==
  ASSUME NEW k, NEW n, NEW f, Untouched(k, n, f), Sized(k, f),
         NEW x, IsNode(x), NEW at \in {9, 10, 11}, f.data = Summed(x, at).data, f.len = at - 5,
         Marks(k, n) => at > 9 /\ x.data[9] = BB
  PROVE  Filled(k, n, f)
<1> DEFINE m == Summed(x, at)
<1>1. /\ m.data[at] = SumOf(m, at)
      /\ \A i \in 6 .. 44 : i # at => m.data[i] = x.data[i]
  BY SMTT(30), SummedIsTheSum
<1>2. SumOf(f, at) = SumOf(m, at)
  BY Zenon DEF SumOf
<1>3. f.data[f.len + 5] = SumOf(f, f.len + 5)
  <2>1. f.len + 5 = at /\ f.data = m.data
    OBVIOUS
  <2> HIDE DEF m
  <2> QED BY <1>1, <1>2, <2>1
<1>4. Marks(k, n) => f.data[9] = BB
  <2> HIDE DEF m
  <2> SUFFICES ASSUME Marks(k, n) PROVE f.data[9] = BB
    OBVIOUS
  <2>1. at # 9 /\ x.data[9] = BB
    OBVIOUS
  <2>2. m.data[9] = x.data[9]
    BY <1>1, <2>1
  <2> QED BY <2>1, <2>2 DEF m
<1> QED
  BY <1>3, <1>4 DEF Filled, Untouched

\* GenericApp_SendTheMessage, for every kind.
LEMMA FillIsFilled ==
  ASSUME NEW k \in NodeKinds, NEW n0, IsNode(n0), Sized(k, n0)
  PROVE  Filled(k, n0, Fill(k, n0))
<1> DEFINE n == [n0 EXCEPT !.data[6] = Type[k]]
           f == Fill(k, n0)
<1> HIDE DEF Type
<1>1. /\ IsNode(n) /\ Untouched(k, n0, n)
      /\ n.buf = n0.buf /\ n.switch = n0.switch /\ n.len = n0.len
  BY DEF IsNode, Untouched, Fields
<1>2. CASE k \in {"S", "02", "05", "40", "06", "09", "67", "30", "29"}
  <2> DEFINE x == Long(IF n.buf = 2 THEN Marked(n, {7, 9}, BB) ELSE ByFlag(n, n.buf), 5)
  <2>1. f = Cleared(Summed(x, 10))
    BY <1>2 DEF Fill, FillPlain
  <2>2. IsNode(x) /\ x.len = 5 /\ Untouched(k, n0, x)
    BY <1>1 DEF IsNode, Fields, Long, Marked, ByFlag, Untouched
  <2>3. Marks(k, n0) => x.data[9] = BB
    BY <1>1, <1>2 DEF IsNode, Fields, Long, Marked, ByFlag, Marks, Displays, NoSum, Excused, BB
  <2> HIDE DEF x
  <2>4. /\ f.data = Summed(x, 10).data /\ f.len = 5 /\ Untouched(k, n0, f)
    BY <2>1, <2>2 DEF Cleared, Summed, IsNode, Fields, Untouched
  <2>5. Sized(k, f)
    BY <1>2 DEF Sized, FiveLong
  <2> QED BY <2>2, <2>3, <2>4, <2>5, FilledBySum
<1>3. CASE k \in {"H", "15", "12", "18"}
  <2> DEFINE x == ByFlag(n, n.buf)
  <2>1. f = FillRelays(k, n)
    BY <1>3 DEF Fill
  <2>2. IsNode(x) /\ x.len = n.len /\ Untouched(k, n0, x)
    BY <1>1 DEF IsNode, Fields, Marked, ByFlag, Untouched
  <2>3. Marks(k, n0) => x.data[9] = BB
    BY <1>1, <1>3 DEF IsNode, Fields, Marked, ByFlag, Marks, Displays, NoSum, Excused, BB
  <2>4. /\ f.data = Summed(x, 10).data /\ f.len = n.len /\ Untouched(k, n0, f)
    <3> HIDE DEF x
    <3>1. f \in {Cleared(Summed(x, 10)), Set(Cleared(Summed(x, 10)), All({"P1_6", "P1_7"}, 1)),
                 Set(Cleared(Summed(x, 10)),
                     [q \in Range(P1) |-> IF q \in {"P1_1", "P1_2", "P1_3", "P1_4"} THEN 1 ELSE 0])}
      BY <1>3, <2>1 DEF FillRelays, x
    <3> QED BY ZenonT(60), <1>3, <2>2, <3>1 DEF Cleared, Summed, Set, Put, IsNode, Fields, Untouched
  <2>5. Sized(k, f)
    BY <1>1, <1>3, <2>4 DEF Sized, FiveLong
  <2>6. CASE k \in {"H", "15"}
    <3>1. f.len = 5
      BY <1>1, <2>4, <2>6 DEF Sized, FiveLong
    <3> HIDE DEF x
    <3> QED BY <2>2, <2>3, <2>4, <2>5, <3>1, FilledBySum
  <2>7. CASE k \in {"12", "18"}
    BY <2>4, <2>5, <2>7 DEF Filled, Untouched, NoSum, Marks, Displays
  <2> QED BY <1>3, <2>6, <2>7
<1>4. CASE k \in Displays
  <2> DEFINE x == ByFlag(n, n.switch)
  <2>1. f = [Summed(x, 10) EXCEPT !.switch = 0]
    BY <1>4 DEF Fill, FillShown, Displays
  <2>2. IsNode(x) /\ x.len = 5 /\ Untouched(k, n0, x)
    BY <1>1, <1>4 DEF IsNode, Fields, Marked, ByFlag, Untouched, Sized, FiveLong, Displays
  <2>3. Marks(k, n0) => x.data[9] = BB
    BY <1>1, <1>4 DEF IsNode, Fields, Marked, ByFlag, Marks, Displays, NoSum, Excused, BB
  <2> HIDE DEF x
  <2>4. /\ f.data = Summed(x, 10).data /\ f.len = 5 /\ Untouched(k, n0, f)
    BY <2>1, <2>2 DEF Summed, IsNode, Fields, Untouched
  <2>5. Sized(k, f)
    BY <1>4, <2>4 DEF Sized, FiveLong, Displays
  <2> QED BY <2>2, <2>3, <2>4, <2>5, FilledBySum
<1>5. CASE k \in {"P", "6D", "F0"}
  <2> DEFINE x == Long(ByFlag(n, n.buf), 5)
  <2>1. f = Cleared(Summed(x, 10))
    BY <1>5 DEF Fill
  <2>2. IsNode(x) /\ x.len = 5 /\ Untouched(k, n0, x)
    BY <1>1 DEF IsNode, Fields, Long, Marked, ByFlag, Untouched
  <2>3. Marks(k, n0) => x.data[9] = BB
    BY <1>1, <1>5 DEF IsNode, Fields, Long, Marked, ByFlag, Marks, Displays, NoSum, Excused, BB
  <2> HIDE DEF x
  <2>4. /\ f.data = Summed(x, 10).data /\ f.len = 5 /\ Untouched(k, n0, f)
    BY <2>1, <2>2 DEF Cleared, Summed, IsNode, Fields, Untouched
  <2>5. Sized(k, f)
    BY <1>5 DEF Sized, FiveLong
  <2> QED BY <2>2, <2>3, <2>4, <2>5, FilledBySum
<1>6. CASE k = "6B"
  <2> DEFINE x == Long(IF n.buf = 1 THEN Marked(n, {8, 9}, BB) ELSE ByFlag(n, n.buf), 5)
  <2>1. f = Cleared(Summed(x, 10))
    BY <1>6 DEF Fill, Fill6B
  <2>2. IsNode(x) /\ x.len = 5 /\ Untouched(k, n0, x)
    BY <1>1 DEF IsNode, Fields, Long, Marked, ByFlag, Untouched
  <2>3. Marks(k, n0) => x.data[9] = BB
    BY <1>1, <1>6 DEF IsNode, Fields, Long, Marked, ByFlag, Marks, Displays, NoSum, Excused, BB
  <2> HIDE DEF x
  <2>4. /\ f.data = Summed(x, 10).data /\ f.len = 5 /\ Untouched(k, n0, f)
    BY <2>1, <2>2 DEF Cleared, Summed, IsNode, Fields, Untouched
  <2>5. Sized(k, f)
    BY <1>6 DEF Sized, FiveLong
  <2> QED BY <2>2, <2>3, <2>4, <2>5, FilledBySum
<1>7. CASE k = "31"
  <2> DEFINE x == Long(IF n.buf = 2 THEN Marked(n, {7, 9}, BB) ELSE ByFlag(n, n.buf), 5)
  <2>1. f = Cleared(Cleared(Summed(x, 10)))
    BY <1>1, <1>7 DEF Fill, Fill31, FillPlain, Sized
  <2>2. IsNode(x) /\ x.len = 5 /\ Untouched(k, n0, x)
    BY <1>1 DEF IsNode, Fields, Long, Marked, ByFlag, Untouched
  <2>3. Marks(k, n0) => x.data[9] = BB
    BY <1>1, <1>7 DEF IsNode, Fields, Long, Marked, ByFlag, Marks, Displays, NoSum, Excused, BB
  <2> HIDE DEF x
  <2>4. /\ f.data = Summed(x, 10).data /\ f.len = 5 /\ f.buf = 0 /\ Untouched(k, n0, f)
    BY <2>1, <2>2 DEF Cleared, Summed, IsNode, Fields, Untouched
  <2>5. Sized(k, f)
    BY <1>7, <2>4 DEF Sized, FiveLong
  <2> QED BY <2>2, <2>3, <2>4, <2>5, FilledBySum
<1>8. CASE k = "A3"
  <2> DEFINE x == Long(IF n.buf = 2 THEN Test(n) ELSE ByFlag(n, n.buf), 5)
  <2>1. f = Cleared(Summed(x, 10))
    BY <1>1, <1>8 DEF Fill, FillA3, Sized
  <2>2. IsNode(x) /\ x.len = 5 /\ Untouched(k, n0, x)
    BY <1>1 DEF IsNode, Fields, Long, Marked, ByFlag, Untouched, Test
  <2> HIDE DEF x
  <2>4. /\ f.data = Summed(x, 10).data /\ f.len = 5 /\ f.buf = 0 /\ Untouched(k, n0, f)
    BY <2>1, <2>2 DEF Cleared, Summed, IsNode, Fields, Untouched
  <2>5. Sized(k, f)
    BY <1>8, <2>4 DEF Sized, FiveLong
  <2> QED BY <1>8, <2>2, <2>4, <2>5, FilledBySum DEF Marks, Displays, Excused
<1>9. CASE k = "73"
  <2> DEFINE x == Long(ByFlag(n, n.buf), 6)
  <2>1. f = Cleared(Summed(x, 11))
    BY <1>1, <1>9 DEF Fill, Fill73, Sized
  <2>2. IsNode(x) /\ x.len = 6 /\ Untouched(k, n0, x)
    BY <1>1 DEF IsNode, Fields, Long, Marked, ByFlag, Untouched
  <2> HIDE DEF x
  <2>4. /\ f.data = Summed(x, 11).data /\ f.len = 6 /\ f.buf = 0 /\ Untouched(k, n0, f)
    BY <2>1, <2>2 DEF Cleared, Summed, IsNode, Fields, Untouched
  <2>5. Sized(k, f)
    BY <1>9, <2>4 DEF Sized, FiveLong
  <2> QED BY <1>9, <2>2, <2>4, <2>5, FilledBySum DEF Marks, Displays, Excused
<1>10. CASE k \in {"K", "83"}
  <2> DEFINE m == Long(IF n.buf = 2 THEN Test(n) ELSE ByFlag(n, n.buf), 6)
             octet == IF k = "K" THEN n.tmg ELSE 255 - Port1(n)
             x == [m EXCEPT !.data[10] = octet]
  <2>1. f = Cleared(Summed(x, 11))
    BY <1>10 DEF Fill, FillState
  <2>2. IsNode(m) /\ m.len = 6 /\ Untouched(k, n0, m)
    BY <1>1 DEF IsNode, Fields, Long, Marked, ByFlag, Untouched, Test
  <2>3. Marks(k, n0) => m.data[9] = BB
    BY <1>1, <1>10 DEF IsNode, Fields, Long, Marked, ByFlag, Marks, Displays, NoSum, Excused, BB
  <2> HIDE DEF m, octet
  <2>4. IsNode(x) /\ x.len = 6 /\ Untouched(k, n0, x) /\ x.data[9] = m.data[9]
    BY <2>2 DEF IsNode, Fields, Untouched
  <2> HIDE DEF x
  <2>5. /\ f.data = Summed(x, 11).data /\ f.len = 6 /\ Untouched(k, n0, f)
    BY <2>1, <2>4 DEF Cleared, Summed, IsNode, Fields, Untouched
  <2>6. Sized(k, f)
    BY <1>10 DEF Sized, FiveLong
  <2> QED BY <2>3, <2>4, <2>5, <2>6, FilledBySum
<1>11. CASE k \in {"6A", "23"}
  <2> DEFINE x == IF k = "6A" THEN IF n.switch = 0 THEN ByFlag(n, 0) ELSE n
                  ELSE IF n.buf = 0 THEN ByFlag(n, 0) ELSE n
  <2>1. f = IF k = "6A" THEN [Summed(x, 10) EXCEPT !.switch = 0] ELSE Cleared(Summed(x, 10))
    BY <1>11 DEF Fill, Fill6A
  <2>2. IsNode(x) /\ x.len = n.len /\ Untouched(k, n0, x)
    BY <1>1 DEF IsNode, Fields, Marked, ByFlag, Untouched
  <2>3. ~Marks(k, n0)
    BY <1>11 DEF Marks, Displays, NoSum, Excused
  <2> HIDE DEF x
  <2>4. /\ f.data = Summed(x, 10).data /\ f.len = n.len /\ Untouched(k, n0, f)
    BY <2>1, <2>2 DEF Cleared, Summed, IsNode, Fields, Untouched
  <2>5. Sized(k, f)
    BY <1>1, <1>11, <2>4 DEF Sized, FiveLong
  <2>6. f.len = 5
    BY <1>1, <1>11, <2>4 DEF Sized, FiveLong
  <2> QED BY <2>2, <2>3, <2>4, <2>5, <2>6, FilledBySum
<1>12. CASE k = "22"
  <2>1. f = Summed(n, 10)
    BY <1>12 DEF Fill
  <2>2. ~Marks(k, n0) /\ n.len = 5
    BY <1>1, <1>12 DEF Marks, Displays, NoSum, Excused, Sized, FiveLong
  <2> HIDE DEF n
  <2>3. f.len = 5 /\ Untouched(k, n0, f) /\ Sized(k, f)
    BY <1>1, <1>12, <2>1, <2>2 DEF Summed, IsNode, Fields, Untouched, Sized, FiveLong
  <2> QED BY <1>1, <2>1, <2>2, <2>3, FilledBySum
<1>13. CASE k = "U"
  <2> DEFINE x == [n EXCEPT !.data[7] = n.out, !.data[8] = 0]
  <2>1. f = Summed(x, 9)
    BY <1>13 DEF Fill
  <2>2. ~Marks(k, n0) /\ IsNode(x) /\ x.len = 4 /\ Untouched(k, n0, x)
    BY <1>1, <1>13 DEF Marks, Displays, NoSum, Excused, Sized, IsNode, Fields, Untouched
  <2> HIDE DEF x
  <2>3. f.len = 4 /\ Untouched(k, n0, f) /\ Sized(k, f)
    BY <1>13, <2>1, <2>2 DEF Summed, IsNode, Fields, Untouched, Sized, FiveLong
  <2> QED BY <2>1, <2>2, <2>3, FilledBySum
<1>14. CASE k \in {"25", "26", "70", "71", "86", "87"}
  <2>1. f = FillGate(k, n)
    BY <1>14 DEF Fill
  <2>2. Untouched(k, n0, f)
    BY <1>1, <1>14, <2>1 DEF FillGate, Long, IsNode, Fields, Untouched
  <2> QED BY <1>14, <2>2 DEF Filled, Untouched, Sized, FiveLong, NoSum, Marks, Displays
<1>15. CASE k \in {"7B", "27", "07"}
  <2>1. f \in {Summed(n, 12), [n EXCEPT !.data[8] = 15], [n EXCEPT !.data[7] = 1]}
    BY <1>15 DEF Fill
  <2> HIDE DEF n
  <2>2. Untouched(k, n0, f)
    BY <1>1, <1>15, <2>1 DEF Summed, IsNode, Fields, Untouched
  <2> QED BY <1>15, <2>2 DEF Filled, Untouched, Sized, FiveLong, NoSum, Marks, Displays
<1>16. CASE k \in {"Q", "13", "14", "0A", "74", "79", "7C"}
  <2>1. f = n
    BY <1>16 DEF Fill
  <2> HIDE DEF n
  <2> QED BY <1>1, <1>16, <2>1 DEF Filled, Untouched, Sized, FiveLong, NoSum, Marks, Displays
<1> QED
  BY <1>2, <1>3, <1>4, <1>5, <1>6, <1>7, <1>8, <1>9, <1>10, <1>11, <1>12, <1>13, <1>14, <1>15,
     <1>16
  DEF NodeKinds, Displays

-----------------------------------------------------------------------------
(* What a node is between two of its steps.                                *)
Rested == IsNode(node) /\ node.wrote = <<>> /\ node.say = FALSE /\ Sized(kind, node)

\* Whatever is told, is so.
LEMMA TellIsTrue ==
  ASSUME kind \in NodeKinds, NEW n, IsNode(n), Sized(kind, n),
         NEW what, NEW acted, Tell(n, what, acted), UNCHANGED kind,
         what = "command" /\ acted /\ n.say /\ kind \notin Excused => Marks(kind, n)
  PROVE  /\ AnswersTellTheTruth'
         /\ Rested'
         /\ node'.time = n.time /\ node'.timer = n.timer /\ node'.timing = n.timing /\ node'.open = n.open
         /\ kind \in {"05", "K"} =>
              node'.pins = n.pins /\ node'.bx = n.bx /\ node'.onoff = n.onoff /\ node'.tmg = n.tmg
<1> DEFINE f == Fill(kind, n)
<1>1. Filled(kind, n, f)
  BY FillIsFilled
<1> HIDE DEF f
<1>2. /\ node' = [(IF n.say THEN f ELSE n) EXCEPT !.say = FALSE, !.wrote = <<>>]
      /\ told' = IF n.say THEN Frame(f) ELSE told
      /\ doing' = [what |-> what, acted |-> acted, said |-> n.say]
  BY DEF Tell, f
<1>3. CASE n.say
  <2>1. node' = [f EXCEPT !.say = FALSE, !.wrote = <<>>]
    BY <1>2, <1>3
  <2>2. told' = Frame(f) /\ doing'.what = what /\ doing'.acted = acted
    BY <1>2, <1>3
  <2>3. doing'.what = "command" /\ doing'.acted /\ kind' \notin Excused => told'[4] # AA
    <3> SUFFICES ASSUME what = "command", acted, kind \notin Excused PROVE told'[4] # AA
      BY <2>2
    <3>1. Marks(kind, n) /\ kind \notin NoSum
      BY <1>3 DEF Marks, Displays, Excused, NoSum
    <3>2. f.data[9] = BB /\ f.len \in {4, 5, 6}
      BY <1>1, <3>1 DEF Filled
    <3>3. told'[4] = f.data[9]
      BY <2>2, <3>2 DEF Frame
    <3> QED BY <3>2, <3>3 DEF AA, BB
  <2>4. kind' \notin NoSum =>
          told'[Len(told')] = SumFunction([i \in 6 .. 4 + Len(told') |-> told'[i - 5]]) % 256
    <3> SUFFICES ASSUME kind \notin NoSum
                 PROVE  told'[Len(told')] = SumFunction([i \in 6 .. 4 + Len(told') |-> told'[i - 5]]) % 256
      OBVIOUS
    <3>1. f.len \in {4, 5, 6} /\ f.data[f.len + 5] = SumOf(f, f.len + 5)
      BY <1>1 DEF Filled
    <3>2. Len(told') = f.len /\ told'[f.len] = f.data[f.len + 5]
      BY <2>2, <3>1 DEF Frame
    <3>3. [i \in 6 .. 4 + Len(told') |-> told'[i - 5]] = [i \in 6 .. (f.len + 5) - 1 |-> f.data[i]]
      BY <2>2, <3>1, <3>2 DEF Frame
    <3>4. SumFunction([i \in 6 .. 4 + Len(told') |-> told'[i - 5]]) % 256 = SumOf(f, f.len + 5)
      BY <3>3, Zenon DEF SumOf
    <3> QED BY <3>1, <3>2, <3>4
  <2>5. AnswersTellTheTruth'
    BY <2>3, <2>4 DEF AnswersTellTheTruth
  <2>6. Rested'
    BY <1>1, <2>1 DEF Filled, IsNode, Fields, Sized, Rested
  <2> QED BY <1>1, <2>1, <2>5, <2>6 DEF Filled, IsNode, Fields
<1>4. CASE ~n.say
  <2>1. node' = [n EXCEPT !.say = FALSE, !.wrote = <<>>] /\ ~doing'.said
    BY <1>2, <1>4
  <2>2. Rested'
    BY <2>1 DEF IsNode, Fields, Sized, Rested
  <2> QED BY <2>1, <2>2 DEF IsNode, Fields, AnswersTellTheTruth
<1> QED
  BY <1>3, <1>4

-----------------------------------------------------------------------------
(* The collector's timing.                                                 *)
Paced ==
  /\ kind \notin Timed => node.timer = 0
  /\ kind \in Timed =>
    /\ mode \in {"set", "closed", "default"}
    /\ mode = "set" => node.timer \in {1, 3} /\ node.time = 0
    /\ mode = "closed" => node.timer = 0 /\ node.time = 0
    /\ mode = "default" => node.time = 1 \/ node.timer = DefaultPeriod \/ late

(* The shade n at p, with s for sure: its motor runs one way for so long   *)
(* that it ends where its last command put it.                             *)
Spot(x) == IF x = AA THEN 3 * Third ELSE IF x = BB THEN 0 ELSE IF x = 161 THEN Third ELSE 2 * Third
Drives(n) == n.pins["P1_6"] = 1 \/ n.pins["P1_7"] = 1
Ahead(n, p) ==
  IF n.pins["P1_6"] = 1 THEN IF p + n.bx < 3 * Third THEN p + n.bx ELSE 3 * Third
  ELSE IF n.pins["P1_7"] = 1 THEN IF p > n.bx THEN p - n.bx ELSE 0
  ELSE p
Shade(n, p, s) ==
  /\ n.pins["P1_6"] \in {0, 1} /\ n.pins["P1_7"] \in {0, 1}
  /\ n.pins["P1_6"] = 0 \/ n.pins["P1_7"] = 0
  /\ p \in 0 .. 3 * Third
  /\ Drives(n) => n.bx \in 1 .. 4 * Third
  /\ Drives(n) /\ n.bx = 4 * Third => n.onoff = IF n.pins["P1_6"] = 1 THEN AA ELSE BB
  /\ s => n.onoff \in {AA, BB, 161, 162}
  /\ s /\ (~Drives(n) \/ n.open) => Ahead(n, p) = Spot(n.onoff)
ShadeInv == kind = "05" => Shade(node, pos, sure)

Relay(n) ==
  /\ n.tmg \in Nat
  /\ n.tmg = 0 => n.pins["P1_0"] = 1
  /\ n.tmg = 1 => n.pins["P1_0"] = 0
RelayInv == kind = "K" => Relay(node)

\* A node between two steps.
NodeInv ==
  /\ kind \in Kinds /\ sure \in BOOLEAN
  /\ Rested /\ AnswersTellTheTruth /\ Paced /\ ShadeInv /\ RelayInv

-----------------------------------------------------------------------------
\* What the commands to the shade leave of its motor.
MotorGoes(n, m, way, bx, to) == m.pins = Set(n, way).pins /\ m.bx = bx /\ m.onoff = to /\ m.open = n.open
\* A run, a full run with its octet to the display, and a halt.
LEMMA RunGoes ==
  ASSUME NEW n, IsNode(n), NEW way, NEW thirds, NEW to, NEW octets
  PROVE  /\ MotorGoes(n, Say(Done(Run(n, way, thirds, to))), way, thirds * Third, to)
         /\ MotorGoes(n, Say(Done(Write(Run(n, way, thirds, to), octets))), way, thirds * Third, to)
         /\ MotorGoes(n, Say(Done(Write(Set(n, way), octets))), way, n.bx, n.onoff)
BY DEF MotorGoes, IsNode, Fields, Say, Done, Write, Run, Set

\* All that a command can do to the motor.
ShadeGoes(n, m) ==
  \/ m.pins = n.pins /\ m.bx = n.bx /\ m.onoff = n.onoff /\ m.open = n.open
  \/ MotorGoes(n, m, Halt, n.bx, n.onoff)
  \/ MotorGoes(n, m, Up, 4 * Third, AA) \/ MotorGoes(n, m, Down, 4 * Third, BB)
  \/ n.onoff = 162 /\ MotorGoes(n, m, Down, 1 * Third, 161)
  \/ n.onoff = AA /\ (MotorGoes(n, m, Down, 2 * Third, 161) \/ MotorGoes(n, m, Down, 1 * Third, 162))
  \/ n.onoff = BB /\ (MotorGoes(n, m, Up, 1 * Third, 161) \/ MotorGoes(n, m, Up, 2 * Third, 162))
  \/ n.onoff = 161 /\ MotorGoes(n, m, Up, 1 * Third, 162)

\* The branches of GenericApp_MessageMSGCB for the shade.
LEMMA ShadeBranches ==
  ASSUME NEW n, IsNode(n), NEW d
  PROVE  ShadeGoes(n, Do05(d, n))
<1> DEFINE m == Do05(d, n)
<1>1.    \/ m = Say(n) \/ m = Say(Done(n)) \/ m = Say(Done(Write(Set(n, Halt), <<2>>)))
         \/ m = Say(Done(Write(Run(n, Up, 4, AA), <<1>>)))
         \/ m = Say(Done(Write(Run(n, Down, 4, BB), <<3>>)))
         \/ n.onoff = 162 /\ m = Say(Done(Run(n, Down, 1, 161)))
         \/ n.onoff = AA /\ (m = Say(Done(Run(n, Down, 2, 161))) \/ m = Say(Done(Run(n, Down, 1, 162))))
         \/ n.onoff = BB /\ (m = Say(Done(Run(n, Up, 1, 161))) \/ m = Say(Done(Run(n, Up, 2, 162))))
         \/ n.onoff = 161 /\ m = Say(Done(Run(n, Up, 1, 162)))
  BY DEF Do05
<1>2. \A x \in {Say(n), Say(Done(n))} :
        x.pins = n.pins /\ x.bx = n.bx /\ x.onoff = n.onoff /\ x.open = n.open
  BY DEF IsNode, Fields, Say, Done
<1>3. /\ MotorGoes(n, Say(Done(Write(Set(n, Halt), <<2>>))), Halt, n.bx, n.onoff)
      /\ MotorGoes(n, Say(Done(Write(Run(n, Up, 4, AA), <<1>>))), Up, 4 * Third, AA)
      /\ MotorGoes(n, Say(Done(Write(Run(n, Down, 4, BB), <<3>>))), Down, 4 * Third, BB)
      /\ MotorGoes(n, Say(Done(Run(n, Down, 1, 161))), Down, 1 * Third, 161)
      /\ MotorGoes(n, Say(Done(Run(n, Down, 2, 161))), Down, 2 * Third, 161)
      /\ MotorGoes(n, Say(Done(Run(n, Down, 1, 162))), Down, 1 * Third, 162)
      /\ MotorGoes(n, Say(Done(Run(n, Up, 1, 161))), Up, 1 * Third, 161)
      /\ MotorGoes(n, Say(Done(Run(n, Up, 2, 162))), Up, 2 * Third, 162)
      /\ MotorGoes(n, Say(Done(Run(n, Up, 1, 162))), Up, 1 * Third, 162)
  BY RunGoes
<1> HIDE DEF m
<1>4. ASSUME m = Say(n) \/ m = Say(Done(n)) PROVE ShadeGoes(n, m)
  BY <1>2, <1>4 DEF ShadeGoes
<1>5. ASSUME ~(m = Say(n) \/ m = Say(Done(n))) PROVE ShadeGoes(n, m)
  BY <1>1, <1>3, <1>5 DEF ShadeGoes
<1> QED
  BY <1>4, <1>5 DEF m

\* The motor's two pins after each way it is set.
LEMMA ShadePins ==
  ASSUME NEW n, IsNode(n)
  PROVE  /\ Set(n, Up).pins["P1_6"] = 1 /\ Set(n, Up).pins["P1_7"] = 0
         /\ Set(n, Down).pins["P1_6"] = 0 /\ Set(n, Down).pins["P1_7"] = 1
         /\ Set(n, Halt).pins["P1_6"] = 0 /\ Set(n, Halt).pins["P1_7"] = 0
BY DEF IsNode, Fields, Pins, Set, Up, Down, Halt, Motor

\* Thirds of the way, by the octet told.
LEMMA Places == Place[AA] = 3 /\ Place[BB] = 0 /\ Place[161] = 1 /\ Place[162] = 2
BY DEF Place, AA, BB

\* A command leaves the shade's motor such that it ends where it was sent.
LEMMA ShadeObeys ==
  ASSUME kind = "05", NEW n, IsNode(n), NEW d, sure \in BOOLEAN, Shade(n, pos, sure)
  PROVE  Shade(Do05(d, n), pos, Believe(n, Do05(d, n))) /\ Believe(n, Do05(d, n)) \in BOOLEAN
<1> DEFINE m == Do05(d, n)
           t == Believe(n, m)
           same == m.pins = n.pins /\ m.bx = n.bx /\ m.onoff = n.onoff
           full == Drives(m) /\ m.bx = 4 * Third
<1>1. ShadeGoes(n, m)
  BY ShadeBranches
<1> HIDE DEF m
<1>2. full <=> FullRun(m)
  BY DEF FullRun, Running, Drives
<1>3. Drives(n) <=> Running(n)
  BY DEF Running, Drives
<1>4. same => t = sure
  BY DEF Believe
<1>5. ~same => t = (full \/ (sure /\ ~Drives(n)))
  <2> HIDE DEF full
  <2> QED BY <1>2, <1>3 DEF Believe
<1> HIDE DEF t
<1>7. /\ n.pins["P1_6"] \in {0, 1} /\ n.pins["P1_7"] \in {0, 1} /\ pos \in 0 .. 3 * Third
      /\ Third \in Nat /\ Third > 1
  BY ThirdAssumption DEF Shade
<1>8. ASSUME m.pins = n.pins, m.bx = n.bx, m.onoff = n.onoff, m.open = n.open
      PROVE  Shade(m, pos, t) /\ t \in BOOLEAN
  BY <1>4, <1>7, <1>8 DEF Shade, Drives, Ahead, Spot, AA, BB
<1>9. /\ Set(n, Up).pins["P1_6"] = 1 /\ Set(n, Up).pins["P1_7"] = 0
      /\ Set(n, Down).pins["P1_6"] = 0 /\ Set(n, Down).pins["P1_7"] = 1
      /\ Set(n, Halt).pins["P1_6"] = 0 /\ Set(n, Halt).pins["P1_7"] = 0
  BY ShadePins
<1>10. ASSUME MotorGoes(n, m, Halt, n.bx, n.onoff)
       PROVE  Shade(m, pos, t) /\ t \in BOOLEAN
  <2>1. /\ m.pins["P1_6"] = 0 /\ m.pins["P1_7"] = 0
        /\ m.bx = n.bx /\ m.onoff = n.onoff /\ m.open = n.open
    BY <1>9, <1>10 DEF MotorGoes
  <2>2. t \in BOOLEAN /\ (t => sure /\ ~Drives(n))
    <3>1. ~full /\ (same => ~Drives(n))
      BY <2>1 DEF Drives
    <3> HIDE DEF full, same
    <3>2. CASE same
      BY <1>4, <3>1, <3>2
    <3>3. CASE ~same
      BY <1>5, <3>1, <3>3
    <3> QED BY <3>2, <3>3
  <2>3. t => n.onoff \in {AA, BB, 161, 162} /\ pos = Spot(n.onoff)
    BY <2>2 DEF Shade, Ahead, Drives
  <2> QED BY <1>7, <2>1, <2>2, <2>3 DEF Shade, Drives, Ahead
<1>11. ASSUME MotorGoes(n, m, Up, 4 * Third, AA)
       PROVE  Shade(m, pos, t) /\ t \in BOOLEAN
  <2>1. /\ m.pins["P1_6"] = 1 /\ m.pins["P1_7"] = 0
        /\ m.bx = 4 * Third /\ m.onoff = AA /\ m.open = n.open
    BY <1>9, <1>11 DEF MotorGoes
  <2>2. t \in BOOLEAN
    BY <1>4, <1>5, <1>7, <1>11, <2>1 DEF Drives, AA, BB
  <2>3. t => pos \in 0 .. 3 * Third
    BY <1>7, <1>11, <2>2 DEF Shade, Ahead, Drives, Spot, AA, BB
  <2> HIDE DEF same, full
  <2> QED BY <1>7, <2>1, <2>2, <2>3 DEF Shade, Drives, Ahead, Spot, AA, BB
<1>12. ASSUME MotorGoes(n, m, Down, 4 * Third, BB)
       PROVE  Shade(m, pos, t) /\ t \in BOOLEAN
  <2>1. /\ m.pins["P1_6"] = 0 /\ m.pins["P1_7"] = 1
        /\ m.bx = 4 * Third /\ m.onoff = BB /\ m.open = n.open
    BY <1>9, <1>12 DEF MotorGoes
  <2>2. t \in BOOLEAN
    BY <1>4, <1>5, <1>7, <1>12, <2>1 DEF Drives, AA, BB
  <2>3. t => pos \in 0 .. 3 * Third
    BY <1>7, <1>12, <2>2 DEF Shade, Ahead, Drives, Spot, AA, BB
  <2> HIDE DEF same, full
  <2> QED BY <1>7, <2>1, <2>2, <2>3 DEF Shade, Drives, Ahead, Spot, AA, BB
<1>13. ASSUME n.onoff = 162, MotorGoes(n, m, Down, 1 * Third, 161)
       PROVE  Shade(m, pos, t) /\ t \in BOOLEAN
  <2>1. /\ m.pins["P1_6"] = 0 /\ m.pins["P1_7"] = 1
        /\ m.bx = 1 * Third /\ m.onoff = 161 /\ m.open = n.open
    BY <1>9, <1>13 DEF MotorGoes
  <2>2. t \in BOOLEAN /\ (t => sure /\ ~Drives(n))
    <3>1. ~full
      BY <1>7, <2>1
    <3>2. ~same
      BY <1>13, <2>1 DEF AA, BB
    <3> HIDE DEF full, same
    <3> QED BY <1>5, <3>1, <3>2
  <2>3. t => pos = 2 * Third
    BY <1>7, <1>13, <2>2 DEF Shade, Ahead, Drives, Spot, AA, BB
  <2> HIDE DEF same, full
  <2> QED BY <1>7, <2>1, <2>2, <2>3 DEF Shade, Drives, Ahead, Spot, AA, BB
<1>14. ASSUME n.onoff = AA, MotorGoes(n, m, Down, 2 * Third, 161)
       PROVE  Shade(m, pos, t) /\ t \in BOOLEAN
  <2>1. /\ m.pins["P1_6"] = 0 /\ m.pins["P1_7"] = 1
        /\ m.bx = 2 * Third /\ m.onoff = 161 /\ m.open = n.open
    BY <1>9, <1>14 DEF MotorGoes
  <2>2. t \in BOOLEAN /\ (t => sure /\ ~Drives(n))
    <3>1. ~full
      BY <1>7, <2>1
    <3>2. ~same
      BY <1>14, <2>1 DEF AA, BB
    <3> HIDE DEF full, same
    <3> QED BY <1>5, <3>1, <3>2
  <2>3. t => pos = 3 * Third
    BY <1>7, <1>14, <2>2 DEF Shade, Ahead, Drives, Spot, AA, BB
  <2> HIDE DEF same, full
  <2> QED BY <1>7, <2>1, <2>2, <2>3 DEF Shade, Drives, Ahead, Spot, AA, BB
<1>15. ASSUME n.onoff = AA, MotorGoes(n, m, Down, 1 * Third, 162)
       PROVE  Shade(m, pos, t) /\ t \in BOOLEAN
  <2>1. /\ m.pins["P1_6"] = 0 /\ m.pins["P1_7"] = 1
        /\ m.bx = 1 * Third /\ m.onoff = 162 /\ m.open = n.open
    BY <1>9, <1>15 DEF MotorGoes
  <2>2. t \in BOOLEAN /\ (t => sure /\ ~Drives(n))
    <3>1. ~full
      BY <1>7, <2>1
    <3>2. ~same
      BY <1>15, <2>1 DEF AA, BB
    <3> HIDE DEF full, same
    <3> QED BY <1>5, <3>1, <3>2
  <2>3. t => pos = 3 * Third
    BY <1>7, <1>15, <2>2 DEF Shade, Ahead, Drives, Spot, AA, BB
  <2> HIDE DEF same, full
  <2> QED BY <1>7, <2>1, <2>2, <2>3 DEF Shade, Drives, Ahead, Spot, AA, BB
<1>16. ASSUME n.onoff = BB, MotorGoes(n, m, Up, 1 * Third, 161)
       PROVE  Shade(m, pos, t) /\ t \in BOOLEAN
  <2>1. /\ m.pins["P1_6"] = 1 /\ m.pins["P1_7"] = 0
        /\ m.bx = 1 * Third /\ m.onoff = 161 /\ m.open = n.open
    BY <1>9, <1>16 DEF MotorGoes
  <2>2. t \in BOOLEAN /\ (t => sure /\ ~Drives(n))
    <3>1. ~full
      BY <1>7, <2>1
    <3>2. ~same
      BY <1>16, <2>1 DEF AA, BB
    <3> HIDE DEF full, same
    <3> QED BY <1>5, <3>1, <3>2
  <2>3. t => pos = 0
    BY <1>7, <1>16, <2>2 DEF Shade, Ahead, Drives, Spot, AA, BB
  <2> HIDE DEF same, full
  <2> QED BY <1>7, <2>1, <2>2, <2>3 DEF Shade, Drives, Ahead, Spot, AA, BB
<1>17. ASSUME n.onoff = BB, MotorGoes(n, m, Up, 2 * Third, 162)
       PROVE  Shade(m, pos, t) /\ t \in BOOLEAN
  <2>1. /\ m.pins["P1_6"] = 1 /\ m.pins["P1_7"] = 0
        /\ m.bx = 2 * Third /\ m.onoff = 162 /\ m.open = n.open
    BY <1>9, <1>17 DEF MotorGoes
  <2>2. t \in BOOLEAN /\ (t => sure /\ ~Drives(n))
    <3>1. ~full
      BY <1>7, <2>1
    <3>2. ~same
      BY <1>17, <2>1 DEF AA, BB
    <3> HIDE DEF full, same
    <3> QED BY <1>5, <3>1, <3>2
  <2>3. t => pos = 0
    BY <1>7, <1>17, <2>2 DEF Shade, Ahead, Drives, Spot, AA, BB
  <2> HIDE DEF same, full
  <2> QED BY <1>7, <2>1, <2>2, <2>3 DEF Shade, Drives, Ahead, Spot, AA, BB
<1>18. ASSUME n.onoff = 161, MotorGoes(n, m, Up, 1 * Third, 162)
       PROVE  Shade(m, pos, t) /\ t \in BOOLEAN
  <2>1. /\ m.pins["P1_6"] = 1 /\ m.pins["P1_7"] = 0
        /\ m.bx = 1 * Third /\ m.onoff = 162 /\ m.open = n.open
    BY <1>9, <1>18 DEF MotorGoes
  <2>2. t \in BOOLEAN /\ (t => sure /\ ~Drives(n))
    <3>1. ~full
      BY <1>7, <2>1
    <3>2. ~same
      BY <1>18, <2>1 DEF AA, BB
    <3> HIDE DEF full, same
    <3> QED BY <1>5, <3>1, <3>2
  <2>3. t => pos = Third
    BY <1>7, <1>18, <2>2 DEF Shade, Ahead, Drives, Spot, AA, BB
  <2> HIDE DEF same, full
  <2> QED BY <1>7, <2>1, <2>2, <2>3 DEF Shade, Drives, Ahead, Spot, AA, BB
<1>19. Shade(m, pos, t) /\ t \in BOOLEAN
  BY <1>1, <1>8, <1>10, <1>11, <1>12, <1>13, <1>14, <1>15, <1>16, <1>17, <1>18 DEF ShadeGoes
<1> QED
  BY <1>19 DEF m, t

\* As time passes, the motor brings the shade nearer to that place.
Along(n, p) ==
  IF ~Drives(n) THEN p
  ELSE IF n.pins["P1_6"] = 1 THEN IF p + 1 < 3 * Third THEN p + 1 ELSE 3 * Third
  ELSE IF p > 1 THEN p - 1 ELSE 0
\* A tick of travel, without the least and greatest of a set.
LEMMA MovedIsAlong ==
  ASSUME kind = "05", Shade(node, pos, sure)
  PROVE  Moved = Along(node, pos)
<1>1. Third \in Nat /\ pos \in Nat
  BY ThirdAssumption DEF Shade
<1>2. Min({pos + 1, 3 * Third}) = IF pos + 1 < 3 * Third THEN pos + 1 ELSE 3 * Third
  <2> DEFINE x == IF pos + 1 < 3 * Third THEN pos + 1 ELSE 3 * Third
  <2>1. x \in {pos + 1, 3 * Third} /\ \A y \in {pos + 1, 3 * Third} : x <= y
    BY <1>1
  <2>2. \A z \in {pos + 1, 3 * Third} : (\A y \in {pos + 1, 3 * Third} : z <= y) => z = x
    BY <1>1
  <2> HIDE DEF x
  <2>3. Min({pos + 1, 3 * Third}) = x
    BY <2>1, <2>2 DEF Min
  <2> QED BY <2>3 DEF x
<1>3. Max({pos - 1, 0}) = IF pos > 1 THEN pos - 1 ELSE 0
  <2> DEFINE x == IF pos > 1 THEN pos - 1 ELSE 0
  <2>1. x \in {pos - 1, 0} /\ \A y \in {pos - 1, 0} : x >= y
    BY <1>1
  <2>2. \A z \in {pos - 1, 0} : (\A y \in {pos - 1, 0} : z >= y) => z = x
    BY <1>1
  <2> HIDE DEF x
  <2>3. Max({pos - 1, 0}) = x
    BY <2>1, <2>2 DEF Max
  <2> QED BY <2>3 DEF x
<1> QED
  BY <1>2, <1>3 DEF Moved, Running, Drives, Along

\* A tick counts down what the shade travels: the place ahead stays.
LEMMA TickShadeObeys ==
  ASSUME kind = "05", IsNode(node), sure \in BOOLEAN, Shade(node, pos, sure), node.open
  PROVE  /\ IsNode(TickShade) /\ TickShade.open = node.open
         /\ Shade(TickShade, Along(node, pos), sure)
<1> DEFINE m == TickShade
           p == Along(node, pos)
<1>1. /\ IsNode(m) /\ m.open = node.open /\ m.onoff = node.onoff
      /\ m.bx = IF node.bx > 1 THEN node.bx - 1 ELSE node.bx
      /\ node.bx > 1 => m.pins = node.pins
      /\ ~(node.bx > 1) => m.pins["P1_6"] = 0 /\ m.pins["P1_7"] = 0
  BY DEF TickShade, IsNode, Fields, Set, Halt, Motor, Pins
<1> HIDE DEF m
<1>2. /\ node.pins["P1_6"] \in {0, 1} /\ node.pins["P1_7"] \in {0, 1} /\ pos \in 0 .. 3 * Third
      /\ node.pins["P1_6"] = 0 \/ node.pins["P1_7"] = 0
      /\ Third \in Nat /\ Third > 1
      /\ Drives(node) => node.bx \in 1 .. 4 * Third
  BY ThirdAssumption DEF Shade
<1>3. p \in 0 .. 3 * Third
  BY <1>2 DEF Along
<1>4. Drives(m) => Drives(node) /\ node.bx > 1 /\ m.pins = node.pins /\ m.bx = node.bx - 1
  BY <1>1 DEF Drives
<1>5. Drives(m) => m.bx \in 1 .. 4 * Third /\ m.bx # 4 * Third
  BY <1>2, <1>4
<1>6. Ahead(m, p) = Ahead(node, pos)
  <2>1. CASE ~Drives(node)
    BY <1>1, <2>1 DEF Drives, Ahead, Along
  <2>2. CASE Drives(node) /\ node.bx > 1
    BY <1>1, <1>2, <2>2 DEF Drives, Ahead, Along
  <2>3. CASE Drives(node) /\ ~(node.bx > 1)
    BY <1>1, <1>2, <2>3 DEF Drives, Ahead, Along
  <2> QED BY <2>1, <2>2, <2>3
<1>7. /\ m.pins["P1_6"] \in {0, 1} /\ m.pins["P1_7"] \in {0, 1}
      /\ m.pins["P1_6"] = 0 \/ m.pins["P1_7"] = 0
  BY <1>1, <1>2
<1>8. sure => m.onoff \in {AA, BB, 161, 162} /\ Ahead(m, p) = Spot(m.onoff)
  BY <1>1, <1>6 DEF Shade
<1> HIDE DEF p
<1>9. Shade(m, p, sure)
  BY <1>3, <1>5, <1>7, <1>8 DEF Shade
<1> QED
  BY <1>1, <1>9 DEF m, p

\* The relay is on while its count is not 0, after a command and after a tick.
LEMMA RelayObeys ==
  ASSUME NEW n, IsNode(n), Relay(n), NEW d \in [1 .. 60 -> 0 .. 255]
  PROVE  Relay(DoK(d, n))
BY DEF DoK, IsNode, Fields, Pins, Relay, Say, Done, Put, DD, AA, BB, CC

LEMMA TickRelayObeys ==
  ASSUME IsNode(node), Relay(node)
  PROVE  IsNode(TickRelay) /\ Relay(TickRelay)
BY DEF TickRelay, IsNode, Fields, Pins, Relay, Put

\* Shade and Relay look at these fields only.
LEMMA ShadeSame ==
  ASSUME NEW n, NEW m, NEW p, NEW s, Shade(n, p, s),
         m.pins = n.pins, m.bx = n.bx, m.onoff = n.onoff, m.open = n.open
  PROVE  Shade(m, p, s)
BY DEF Shade, Drives, Ahead

LEMMA RelaySame ==
  ASSUME NEW n, NEW m, Relay(n), m.pins = n.pins, m.tmg = n.tmg
  PROVE  Relay(m)
BY DEF Relay

\* The kinds looked at are kinds there are.
LEMMA KindsKnown == kind \in Kinds => kind \in NodeKinds
BY KindsAssumption

-----------------------------------------------------------------------------
(* The steps.                                                              *)
\* A command: its branch, then what is told of it.
LEMMA CommandKeeps == ASSUME NodeInv, NEW d \in Commands(kind), Command(d) PROVE NodeInv'
<1> DEFINE n == Act(kind, d, node)
           m == IF kind = "07" THEN [n EXCEPT !.lock = 1] ELSE n
           acted == m.wrote # <<>> \/ Shown(m) # Shown(node)
<1>1. /\ kind \in NodeKinds /\ kind \in Kinds /\ IsNode(node) /\ node.wrote = <<>> /\ node.say = FALSE
      /\ Sized(kind, node) /\ sure \in BOOLEAN
  BY KindsKnown DEF NodeInv, Rested
<1>2. d \in [1 .. 60 -> 0 .. 255]
  BY <1>1, CommandsAssumption
<1>3. Carried(kind, node, n)
  BY <1>1, ActCarries
<1>4. /\ Tell(m, "command", acted) /\ sure' = Believe(node, m) /\ late' = (late \/ node.time # m.time)
      /\ UNCHANGED <<kind, mode, pos>>
  BY Zenon DEF Command
<1>5. kind = "05" => n = Do05(d, node)
  BY DEF Act
<1>6. kind = "K" => n = DoK(d, node)
  BY DEF Act
<1> HIDE DEF n
<1>7. /\ IsNode(m) /\ m.time = n.time /\ m.timer = n.timer /\ m.timing = n.timing /\ m.open = n.open
      /\ m.wrote = n.wrote /\ m.say = n.say /\ m.buf = n.buf /\ m.switch = n.switch /\ m.len = n.len
      /\ Shown(m) = Shown(n)
      /\ kind # "07" => m = n
  BY <1>3 DEF Carried, Keeps, IsNode, Fields, Shown
<1> HIDE DEF m
<1>8. Sized(kind, m)
  BY <1>1, <1>3, <1>7 DEF Carried, Sized, FiveLong, NoSum
<1>9. acted /\ m.say /\ kind \notin Excused => Marks(kind, m)
  <2>1. CASE kind = "07"
    BY <1>3, <1>7, <2>1 DEF Carried, Idle, Marks, Displays, NoSum, Excused
  <2>2. CASE kind # "07"
    BY <1>3, <1>7, <2>2 DEF Carried, Idle
  <2> QED BY <2>1, <2>2
<1> HIDE DEF acted
<1>10. /\ AnswersTellTheTruth' /\ Rested'
       /\ node'.time = m.time /\ node'.timer = m.timer /\ node'.timing = m.timing /\ node'.open = m.open
       /\ kind \in {"05", "K"} =>
            node'.pins = m.pins /\ node'.bx = m.bx /\ node'.onoff = m.onoff /\ node'.tmg = m.tmg
  BY <1>1, <1>4, <1>7, <1>8, <1>9, TellIsTrue
<1>11. Paced'
  BY <1>3, <1>4, <1>7, <1>10 DEF NodeInv, Paced, Carried, Keeps
<1>12. ShadeInv' /\ sure' \in BOOLEAN
  <2>1. CASE kind # "05"
    BY <1>1, <1>4, <2>1 DEF ShadeInv, Believe
  <2>2. CASE kind = "05"
    <3>1. m = Do05(d, node)
      BY <1>5, <1>7, <2>2
    <3>2. Shade(m, pos, sure') /\ sure' \in BOOLEAN
      BY <1>1, <1>4, <2>2, <3>1, ShadeObeys DEF NodeInv, ShadeInv
    <3>3. Shade(node', pos, sure')
      BY <1>10, <2>2, <3>2, ShadeSame
    <3> QED BY <1>4, <3>2, <3>3 DEF ShadeInv
  <2> QED BY <2>1, <2>2
<1>13. RelayInv'
  <2> SUFFICES ASSUME kind = "K" PROVE Relay(node')
    BY <1>4 DEF RelayInv
  <2>1. Relay(m)
    BY <1>1, <1>2, <1>6, <1>7, RelayObeys DEF NodeInv, RelayInv
  <2> QED BY <1>10, <2>1, RelaySame
<1> QED
  BY <1>1, <1>4, <1>10, <1>11, <1>12, <1>13 DEF NodeInv

\* Told of itself, without a command: enough if the node told of is as before
\* but for what neither the timing nor the shade nor the relay looks at.
LEMMA TellKeeps ==
  ASSUME NodeInv, NEW n, IsNode(n), Sized(kind, n), NEW what, what # "command", Tell(n, what, FALSE),
         UNCHANGED <<kind, mode, late, sure>>,
         \/ n.time = node.time /\ n.timer = node.timer
         \/ kind \in Timed /\ node.time = 1 /\ n.time = 0 /\ n.timer = DefaultPeriod,
         kind = "05" => Shade(n, pos', sure),
         kind = "K" => Relay(n)
  PROVE  NodeInv'
<1>1. kind \in NodeKinds
  BY KindsKnown DEF NodeInv
<1>2. /\ AnswersTellTheTruth' /\ Rested'
      /\ node'.time = n.time /\ node'.timer = n.timer /\ node'.timing = n.timing /\ node'.open = n.open
      /\ kind \in {"05", "K"} =>
           node'.pins = n.pins /\ node'.bx = n.bx /\ node'.onoff = n.onoff /\ node'.tmg = n.tmg
  BY <1>1, TellIsTrue
<1>3. Paced'
  BY <1>2 DEF NodeInv, Paced
<1>4. ShadeInv'
  BY <1>2, ShadeSame DEF ShadeInv
<1>5. RelayInv'
  BY <1>2, RelaySame DEF RelayInv
<1> QED
  BY <1>2, <1>3, <1>4, <1>5 DEF NodeInv

\* Nothing told, and nothing of the motor or the relay touched.
LEMMA QuietKeeps ==
  ASSUME NodeInv, IsNode(node'), node'.wrote = <<>>, node'.say = FALSE,
         node'.len = node.len, node'.buf = node.buf \/ kind \notin {"31", "73", "A3"},
         node'.pins = node.pins, node'.bx = node.bx, node'.onoff = node.onoff, node'.tmg = node.tmg,
         UNCHANGED <<kind, told, doing, pos>>, sure' \in BOOLEAN,
         kind = "05" => Shade(node', pos, sure'),
         Paced'
  PROVE  NodeInv'
<1>1. Rested'
  BY DEF NodeInv, Rested, Sized
<1>2. AnswersTellTheTruth'
  BY DEF NodeInv, AnswersTellTheTruth
<1>3. ShadeInv'
  BY DEF ShadeInv
<1>4. RelayInv'
  BY RelaySame DEF NodeInv, RelayInv
<1> QED
  BY <1>1, <1>2, <1>3, <1>4 DEF NodeInv

\* A command to another node turns a lock only.
LEMMA OverheardKeeps == ASSUME NodeInv, Overheard PROVE NodeInv'
<1>1. /\ kind = "07" /\ node' = [node EXCEPT !.lock = 1]
      /\ UNCHANGED <<kind, told, doing, mode, late, pos, sure>>
  BY DEF Overheard
<1>2. Paced'
  BY <1>1 DEF NodeInv, Rested, IsNode, Fields, Paced, Timed
<1> QED
  BY <1>1, <1>2, QuietKeeps DEF NodeInv, Rested, IsNode, Fields

\* A call to all nodes of the kind marks nothing as done.
LEMMA TriggerKeeps == ASSUME NodeInv, Trigger PROVE NodeInv'
<1> DEFINE n == [node EXCEPT !.len = IF @ = 0 \/ @ > 32 THEN 3 ELSE @, !.buf = 0, !.say = TRUE]
           m == IF kind = "07" THEN [n EXCEPT !.lock = 1] ELSE n
<1>1. /\ Tell(m, "trigger", FALSE)
      /\ UNCHANGED <<kind, mode, late, pos, sure>>
  BY Zenon DEF Trigger, Still
<1>2. /\ IsNode(m) /\ m.time = node.time /\ m.timer = node.timer /\ m.open = node.open /\ m.buf = 0
      /\ m.pins = node.pins /\ m.bx = node.bx /\ m.onoff = node.onoff /\ m.tmg = node.tmg
      /\ node.len \in {4, 5} => m.len = node.len
  BY DEF NodeInv, Rested, IsNode, Fields
<1> HIDE DEF m
<1>3. Sized(kind, m)
  BY <1>2 DEF NodeInv, Rested, Sized
<1>4. kind = "05" => Shade(m, pos', sure)
  BY <1>1, <1>2, ShadeSame DEF NodeInv, ShadeInv
<1>5. kind = "K" => Relay(m)
  BY <1>2, RelaySame DEF NodeInv, RelayInv
<1> QED
  BY <1>1, <1>2, <1>3, <1>4, <1>5, "trigger" # "command", TellKeeps

\* Put off while its motor runs, the shade is no longer sure of its place.
LEMMA PowerKeeps == ASSUME NodeInv, NEW on \in BOOLEAN, Power(on) PROVE NodeInv'
<1>1. /\ node' = [node EXCEPT !.open = on] /\ sure' = (sure /\ ~Running(node))
      /\ UNCHANGED <<kind, told, doing, mode, late, pos>>
  BY DEF Power
<1>2. IsNode(node) /\ node.wrote = <<>> /\ node.say = FALSE
  BY DEF NodeInv, Rested
<1>3. /\ IsNode(node') /\ node'.wrote = <<>> /\ node'.say = FALSE
      /\ node'.len = node.len /\ node'.buf = node.buf
      /\ node'.pins = node.pins /\ node'.bx = node.bx /\ node'.onoff = node.onoff /\ node'.tmg = node.tmg
      /\ node'.time = node.time /\ node'.timer = node.timer
  BY <1>1, <1>2 DEF IsNode, Fields
<1>4. Paced'
  BY <1>1, <1>3 DEF NodeInv, Paced
<1>5. sure' \in BOOLEAN
  BY <1>1
<1>6. kind = "05" => Shade(node', pos, sure')
  BY <1>1, <1>3 DEF NodeInv, ShadeInv, Shade, Drives, Ahead, Running
<1> QED
  BY <1>1, <1>3, <1>4, <1>5, <1>6, QuietKeeps

\* The timing commands and timer 3.
LEMMA TimingKeeps ==
  ASSUME NodeInv, AllDefault \/ AllClose \/ (\E s \in {1, 3} : SetPeriod(s)) \/ Close \/ ReadNow \/ Timer3
  PROVE  NodeInv'
<1>1. IsNode(node) /\ node.wrote = <<>> /\ node.say = FALSE /\ sure \in BOOLEAN
  BY DEF NodeInv, Rested
<1>2. kind \in Timed /\ kind' = kind /\ UNCHANGED <<told, doing, pos, sure>>
  <2>1. Timer3 => kind \in Timed
    BY DEF Timer3, NodeInv, Paced
  <2> QED
    BY <2>1 DEF AllDefault, AllClose, SetPeriod, Close, ReadNow, Timer3, Quiet
<1>3. ASSUME IsNode(node'), node'.wrote = <<>>, node'.say = FALSE, node'.len = node.len, Paced'
      PROVE  NodeInv'
  <2>1. Rested'
    BY <1>1, <1>2, <1>3 DEF NodeInv, Rested, Sized, Timed
  <2>2. AnswersTellTheTruth'
    BY <1>2 DEF NodeInv, AnswersTellTheTruth
  <2>3. ShadeInv' /\ RelayInv'
    BY <1>2 DEF ShadeInv, RelayInv, Timed
  <2> QED BY <1>1, <1>2, <2>1, <2>2, <2>3, <1>3 DEF NodeInv
<1>4. CASE AllDefault
  <2>1. node' = [node EXCEPT !.timing = "default", !.time = 1] /\ mode' = "default"
    BY <1>4 DEF AllDefault
  <2>2. /\ IsNode(node') /\ node'.wrote = <<>> /\ node'.say = FALSE /\ node'.len = node.len
        /\ node'.timer = node.timer /\ node'.time = 1
    BY <1>1, <2>1 DEF IsNode, Fields
  <2>3. Paced'
    BY <1>2, <2>1, <2>2 DEF Paced
  <2> QED BY <1>3, <2>2, <2>3
<1>5. CASE AllClose
  <2>1. node' = [Stopped(node) EXCEPT !.timing = "none"] /\ mode' = "closed"
    BY <1>5 DEF AllClose
  <2>2. /\ IsNode(node') /\ node'.wrote = <<>> /\ node'.say = FALSE /\ node'.len = node.len
        /\ node'.timer = 0 /\ node'.time = 0
    BY <1>1, <2>1 DEF Stopped, IsNode, Fields
  <2>3. Paced'
    BY <1>2, <2>1, <2>2 DEF Paced
  <2> QED BY <1>3, <2>2, <2>3
<1>6. ASSUME NEW s \in {1, 3}, SetPeriod(s) PROVE NodeInv'
  <2>1. /\ node' = [AskNow(node) EXCEPT !.timing = "set", !.timer = IF s < 2 THEN 1 ELSE s]
        /\ mode' = "set"
    BY <1>6 DEF SetPeriod
  <2>2. /\ IsNode(node') /\ node'.wrote = <<>> /\ node'.say = FALSE /\ node'.len = node.len
        /\ node'.timer = (IF s < 2 THEN 1 ELSE s) /\ node'.time = 0
    BY <1>1, <2>1 DEF AskNow, AskRead, IsNode, Fields
  <2>3. Paced'
    BY <1>2, <1>6, <2>1, <2>2 DEF Paced
  <2> QED BY <1>3, <2>2, <2>3
<1>7. CASE Close
  <2>1. node' = [AskRead(Stopped(node)) EXCEPT !.timing = "none"] /\ mode' = "closed"
    BY <1>7 DEF Close
  <2>2. /\ IsNode(node') /\ node'.wrote = <<>> /\ node'.say = FALSE /\ node'.len = node.len
        /\ node'.timer = 0 /\ node'.time = 0
    BY <1>1, <2>1 DEF AskRead, Stopped, IsNode, Fields
  <2>3. Paced'
    BY <1>2, <2>1, <2>2 DEF Paced
  <2> QED BY <1>3, <2>2, <2>3
<1>8. CASE ReadNow
  <2>1. node' = AskRead(node) /\ UNCHANGED <<mode, late>>
    BY <1>8 DEF ReadNow, Still
  <2>2. /\ IsNode(node') /\ node'.wrote = <<>> /\ node'.say = FALSE /\ node'.len = node.len
        /\ node'.timer = node.timer /\ node'.time = node.time
    BY <1>1, <2>1 DEF AskRead, IsNode, Fields
  <2>3. Paced'
    BY <1>2, <2>1, <2>2 DEF NodeInv, Paced
  <2> QED BY <1>3, <2>2, <2>3
<1>9. CASE Timer3
  <2>1. node' = AskNow(node) /\ late' = (late \/ node.time = 1) /\ mode' = mode
    BY <1>9 DEF Timer3
  <2>2. /\ IsNode(node') /\ node'.wrote = <<>> /\ node'.say = FALSE /\ node'.len = node.len
        /\ node'.timer = node.timer /\ node'.time = 0
    BY <1>1, <2>1 DEF AskNow, AskRead, IsNode, Fields
  <2>3. Paced'
    BY <1>2, <2>1, <2>2 DEF NodeInv, Paced
  <2> QED BY <1>3, <2>2, <2>3
<1> QED
  BY <1>4, <1>5, <1>6, <1>7, <1>8, <1>9

\* The buttons.
LEMMA KeyKeeps == ASSUME NodeInv, NEW first \in BOOLEAN, Key(first) PROVE NodeInv'
<1>1. IsNode(node) /\ node.wrote = <<>> /\ node.say = FALSE /\ sure \in BOOLEAN /\ Sized(kind, node)
  BY DEF NodeInv, Rested
<1>2. UNCHANGED <<kind, pos, sure>>
  BY DEF Key
<1>3. CASE kind \in Collectors /\ KeyCollector(first)
  <2> DEFINE fresh == node.timing = "none"
             m == IF ~fresh THEN AskRead(node)
                  ELSE IF first THEN Stopped(AskRead(node)) ELSE [AskRead(node) EXCEPT !.time = 1]
  <2>1. /\ node' = m /\ UNCHANGED <<told, doing>>
        /\ mode' = IF ~fresh THEN mode ELSE IF first THEN "closed" ELSE "default"
        /\ late' = (late /\ ~(fresh /\ ~first))
    BY <1>3, Zenon DEF KeyCollector
  <2>2. /\ IsNode(m) /\ m.wrote = <<>> /\ m.say = FALSE /\ m.len = node.len
        /\ ~fresh => m.time = node.time /\ m.timer = node.timer
        /\ fresh /\ first => m.time = 0 /\ m.timer = 0
        /\ fresh /\ ~first => m.time = 1 /\ m.timer = node.timer
    BY <1>1 DEF AskRead, Stopped, IsNode, Fields
  <2> HIDE DEF m, fresh
  <2>3. Paced'
    BY <1>2, <2>1, <2>2 DEF NodeInv, Paced
  <2>4. Rested'
    BY <1>1, <1>2, <1>3, <2>1, <2>2 DEF Rested, Sized, Collectors, Timed
  <2>5. AnswersTellTheTruth'
    BY <1>2, <2>1 DEF NodeInv, AnswersTellTheTruth
  <2>6. ShadeInv' /\ RelayInv'
    BY <1>2, <1>3 DEF ShadeInv, RelayInv, Collectors, Timed
  <2> QED BY <1>1, <1>2, <2>3, <2>4, <2>5, <2>6 DEF NodeInv
<1>4. CASE kind \in {"K", "02", "06", "09", "12", "15", "18", "29", "30", "40", "79", "83", "A3"}
           /\ Tell(KeyState(first), "key", FALSE) /\ Still
  <2> DEFINE m == KeyState(first)
  <2>1. /\ IsNode(m) /\ m.time = node.time /\ m.timer = node.timer
        /\ kind # "79" => m.len = node.len
        /\ kind = "A3" => m.buf = 0
        /\ kind = "K" => m.pins = node.pins /\ m.tmg = node.tmg
    BY <1>1, <1>4 DEF KeyState, Status79, Flip, Put, Say, IsNode, Fields
  <2> HIDE DEF m
  <2>2. Sized(kind, m)
    BY <1>1, <1>4, <2>1 DEF Sized, FiveLong
  <2>3. kind = "K" => Relay(m)
    BY <2>1, RelaySame DEF NodeInv, RelayInv
  <2>4. Tell(m, "key", FALSE) /\ UNCHANGED <<kind, mode, late, sure>>
    BY <1>2, <1>4 DEF Still, m
  <2> QED BY <1>4, <2>1, <2>2, <2>3, <2>4, "key" # "command", TellKeeps
<1> QED
  BY <1>3, <1>4 DEF Key

\* What the node does by itself.
LEMMA TickOffKeeps == ASSUME NodeInv, TickOff PROVE NodeInv'
<1>1. /\ kind = "05" /\ Drives(node) /\ ~node.open /\ pos' = Moved
      /\ UNCHANGED <<kind, node, told, doing, mode, late, sure>>
  BY DEF TickOff, Running, Drives
<1>2. Shade(node, pos, sure) /\ pos' = Along(node, pos)
  BY <1>1, MovedIsAlong DEF NodeInv, ShadeInv
<1>3. Shade(node, pos', sure)
  <2>1. pos' \in 0 .. 3 * Third
    BY <1>1, <1>2, ThirdAssumption DEF Shade, Along
  <2> QED BY <1>1, <1>2, <2>1 DEF Shade
<1>4. Rested' /\ AnswersTellTheTruth' /\ Paced' /\ RelayInv'
  BY <1>1 DEF NodeInv, Rested, AnswersTellTheTruth, Paced, RelayInv
<1>5. ShadeInv'
  BY <1>1, <1>3 DEF ShadeInv
<1> QED
  BY <1>1, <1>4, <1>5 DEF NodeInv

\* The shade, the relay, the lamp, the gate and the ports, each 100 ms.
LEMMA TickKeeps == ASSUME NodeInv, Tick PROVE NodeInv'
<1>1. IsNode(node) /\ node.wrote = <<>> /\ node.say = FALSE /\ sure \in BOOLEAN /\ Sized(kind, node)
  BY DEF NodeInv, Rested
<1>2. node.open /\ pos' = Moved /\ UNCHANGED <<kind, mode, late, sure>>
  BY DEF Tick
<1>3. CASE kind = "05" /\ Tell(TickShade, "tick", FALSE)
  <2>1. /\ IsNode(TickShade) /\ Shade(TickShade, pos', sure)
    BY <1>1, <1>2, <1>3, TickShadeObeys, MovedIsAlong DEF NodeInv, ShadeInv
  <2>2. TickShade.time = node.time /\ TickShade.timer = node.timer
    BY <1>1 DEF TickShade, Set, IsNode, Fields
  <2>3. Sized(kind, TickShade)
    BY <1>3 DEF Sized, FiveLong
  <2> QED BY <1>2, <1>3, <2>1, <2>2, <2>3, "tick" # "command", TellKeeps
<1>4. CASE kind = "K" /\ Tell(TickRelay, "tick", FALSE)
  <2>1. IsNode(TickRelay) /\ Relay(TickRelay)
    BY <1>1, <1>4, TickRelayObeys DEF NodeInv, RelayInv
  <2>2. TickRelay.time = node.time /\ TickRelay.timer = node.timer
    BY <1>1 DEF TickRelay, Put, IsNode, Fields
  <2>3. Sized(kind, TickRelay)
    BY <1>4 DEF Sized, FiveLong
  <2> QED BY <1>2, <1>4, <2>1, <2>2, <2>3, "tick" # "command", TellKeeps
<1>5. CASE kind = "40" /\ Tell(TickBlink, "tick", FALSE)
  <2>1. IsNode(TickBlink) /\ TickBlink.time = node.time /\ TickBlink.timer = node.timer
    BY <1>1 DEF TickBlink, Set, IsNode, Fields
  <2>3. Sized(kind, TickBlink)
    BY <1>5 DEF Sized, FiveLong
  <2> QED BY <1>2, <1>5, <2>1, <2>3, "tick" # "command", TellKeeps
<1>6. ASSUME kind = "30", NEW free \in BOOLEAN, Tell(TickGate(free), "tick", FALSE)
      PROVE  NodeInv'
  <2> DEFINE m == TickGate(free)
  <2>1. IsNode(m) /\ m.time = node.time /\ m.timer = node.timer
    BY <1>1 DEF TickGate, IsNode, Fields
  <2> HIDE DEF m
  <2>3. Sized(kind, m)
    BY <1>6 DEF Sized, FiveLong
  <2>4. Tell(m, "tick", FALSE)
    BY <1>6 DEF m
  <2> QED BY <1>2, <1>6, <2>1, <2>3, <2>4, "tick" # "command", TellKeeps
<1>7. ASSUME kind = "83", NEW down \in BOOLEAN,
             Tell(IF down THEN Flip(node, "P1_0") ELSE node, "tick", FALSE)
      PROVE  NodeInv'
  <2> DEFINE m == IF down THEN Flip(node, "P1_0") ELSE node
  <2>1. IsNode(m) /\ m.time = node.time /\ m.timer = node.timer
    BY <1>1 DEF Flip, Put, IsNode, Fields
  <2> HIDE DEF m
  <2>3. Sized(kind, m)
    BY <1>7 DEF Sized, FiveLong
  <2>4. Tell(m, "tick", FALSE)
    BY <1>7 DEF m
  <2> QED BY <1>2, <1>7, <2>1, <2>3, <2>4, "tick" # "command", TellKeeps
<1> QED
  BY <1>3, <1>4, <1>5, <1>6, <1>7 DEF Tick

\* A collector takes its reading, or asks its meter for it.
LEMMA CollectKeeps == ASSUME NodeInv, Collect PROVE NodeInv'
<1> DEFINE n == Timing(node)
<1>1. IsNode(node) /\ node.wrote = <<>> /\ node.say = FALSE /\ sure \in BOOLEAN /\ Sized(kind, node)
  BY DEF NodeInv, Rested
<1>2. kind \in Collectors /\ UNCHANGED <<kind, mode, late, pos, sure>>
  BY DEF Collect
<1>9. Tell(n, "tick", FALSE) \/ Give(n) \/ Ask(n)
  BY Zenon DEF Collect
<1>3. /\ IsNode(n) /\ n.wrote = <<>> /\ n.say = FALSE /\ n.len = node.len
      /\ \/ n.time = node.time /\ n.timer = node.timer
         \/ kind \in Timed /\ node.time = 1 /\ n.time = 0 /\ n.timer = DefaultPeriod
  BY <1>1 DEF Timing, IsNode, Fields
<1> HIDE DEF n
<1>4. kind \notin {"31", "73", "A3", "05", "K"}
  BY <1>2 DEF Collectors, Timed
<1>5. ASSUME NEW m, IsNode(m), m.len = n.len, m.time = n.time, m.timer = n.timer, Tell(m, "tick", FALSE)
      PROVE  NodeInv'
  <2>1. Sized(kind, m)
    BY <1>1, <1>3, <1>4, <1>5 DEF Sized
  <2> QED BY <1>2, <1>3, <1>4, <1>5, <2>1, "tick" # "command", TellKeeps
<1>6. CASE Tell(n, "tick", FALSE)
  BY <1>3, <1>5, <1>6
<1>7. ASSUME NEW b \in After(n), Tell(Given(n, b), "tick", FALSE)
      PROVE  NodeInv'
  <2> DEFINE m == Given(n, b)
             x == [n EXCEPT !.buf = IF kind = "6A" /\ b = 0 THEN 1 ELSE b]
  <2>1. IsNode(x) /\ x.len = n.len /\ x.time = n.time /\ x.timer = n.timer
    BY <1>3 DEF IsNode, Fields
  <2>4. m = Say(Reading(x))
    BY DEF Given
  <2> HIDE DEF x
  <2>2. IsNode(m) /\ m.len = n.len /\ m.time = n.time /\ m.timer = n.timer
    BY <2>1, <2>4 DEF Reading, Summed, Marked, Say, IsNode, Fields
  <2>3. Tell(m, "tick", FALSE)
    BY <1>7
  <2> HIDE DEF m
  <2> QED BY <1>5, <2>2, <2>3
<1>8. ASSUME NEW b \in After(n), node' = [n EXCEPT !.buf = b], UNCHANGED <<told, doing>>
      PROVE  NodeInv'
  <2>1. /\ IsNode(node') /\ node'.wrote = <<>> /\ node'.say = FALSE /\ node'.len = node.len
        /\ node'.time = n.time /\ node'.timer = n.timer
    BY <1>3, <1>8 DEF IsNode, Fields
  <2>2. Rested'
    BY <1>1, <1>2, <1>4, <2>1 DEF Rested, Sized
  <2>3. Paced'
    BY <1>2, <1>3, <2>1 DEF NodeInv, Paced
  <2>4. AnswersTellTheTruth'
    BY <1>2, <1>8 DEF NodeInv, AnswersTellTheTruth
  <2>5. ShadeInv' /\ RelayInv'
    BY <1>2, <1>4 DEF ShadeInv, RelayInv
  <2> QED BY <1>1, <1>2, <2>2, <2>3, <2>4, <2>5 DEF NodeInv
<1>10. ASSUME Ask(n) PROVE NodeInv'
  BY <1>8, <1>10 DEF Ask
<1>11. ASSUME Give(n) PROVE NodeInv'
  <2>1. PICK b \in After(n) : Tell(Given(n, b), "tick", FALSE)
    BY <1>11 DEF Give
  <2> QED BY <1>7, <2>1
<1>12. ASSUME Tell(n, "tick", FALSE) PROVE NodeInv'
  BY <1>6, <1>12
<1> QED
  BY <1>9, <1>10, <1>11, <1>12

\* Kind 22 tells of a change by itself.
LEMMA MeasureKeeps == ASSUME NodeInv, Measure PROVE NodeInv'
<1>1. IsNode(node) /\ Sized(kind, node)
  BY DEF NodeInv, Rested
<1>2. kind = "22" /\ UNCHANGED <<kind, mode, late, pos, sure>>
  BY DEF Measure
<1>3. PICK v \in {0, 20} :
        LET n == [node EXCEPT !.data[8] = v]
        IN IF v # n.out THEN Tell(Say([n EXCEPT !.out = v]), "tick", FALSE) ELSE Tell(n, "tick", FALSE)
  BY Zenon DEF Measure
<1> DEFINE n == [node EXCEPT !.data[8] = v]
           m == IF v # n.out THEN Say([n EXCEPT !.out = v]) ELSE n
<1>4. IsNode(m) /\ m.len = node.len /\ m.time = node.time /\ m.timer = node.timer
  BY <1>1 DEF Say, IsNode, Fields
<1>5. Tell(m, "tick", FALSE)
  BY <1>3
<1> HIDE DEF m
<1>6. Sized(kind, m)
  BY <1>1, <1>2, <1>4 DEF Sized
<1> QED
  BY <1>2, <1>4, <1>5, <1>6, "tick" # "command", TellKeeps

-----------------------------------------------------------------------------
\* GenericApp_Init leaves every kind in its invariant.
LEMMA NodeStarts == NodeInit => NodeInv
<1> SUFFICES ASSUME NodeInit PROVE NodeInv
  OBVIOUS
<1>1. /\ kind \in Kinds /\ kind \in NodeKinds /\ node = Start(kind) /\ doing.said = FALSE
      /\ mode = IF kind \in Collectors THEN "default" ELSE "none"
      /\ pos \in (IF kind = "05" THEN {0, 3 * Third} ELSE {0}) /\ sure = FALSE
  BY KindsKnown DEF NodeInit
<1>2. /\ IsNode(node) /\ node.wrote = <<>> /\ node.say = FALSE /\ node.timer = 0 /\ node.tmg = 0
      /\ node.time = IF kind \in Collectors THEN 1 ELSE 0
      /\ kind \notin Collectors => node.buf = 0
  BY <1>1 DEF Start, IsNode, Fields
<1>3. node.len = CASE kind \in {"U", "13", "70"} -> 4 [] kind = "14" -> 7 [] OTHER -> 5
  BY <1>1 DEF Start
<1>4. node.pins = [q \in Pins |-> IF \/ kind = "05" /\ q \in {"P1_6", "P1_7"}
                                     \/ kind = "40" /\ q \in {"P1_0", "P1_4", "P1_7"} THEN 0 ELSE 1]
  BY <1>1 DEF Start
<1>5. Rested
  BY <1>2, <1>3 DEF Rested, Sized, FiveLong, Collectors, Timed
<1>6. Paced
  BY <1>1, <1>2 DEF Paced, Collectors
<1>7. ShadeInv
  BY <1>1, <1>4, ThirdAssumption DEF ShadeInv, Shade, Drives, Pins
<1>8. RelayInv
  BY <1>2, <1>4 DEF RelayInv, Relay, Pins
<1> QED
  BY <1>1, <1>5, <1>6, <1>7, <1>8 DEF NodeInv, AnswersTellTheTruth

\* Every step keeps the invariant.
LEMMA NodeSteps == NodeInv /\ [NodeNext]_nodeVars => NodeInv'
<1> SUFFICES ASSUME NodeInv, [NodeNext]_nodeVars PROVE NodeInv'
  OBVIOUS
<1>1. CASE UNCHANGED nodeVars
  BY <1>1 DEF nodeVars, NodeInv, Rested, AnswersTellTheTruth, Paced, ShadeInv, RelayInv
<1>2. CASE NodeNext
  BY <1>2, CommandKeeps, OverheardKeeps, TriggerKeeps, PowerKeeps, TimingKeeps, KeyKeeps,
     TickOffKeeps,
     TickKeeps, CollectKeeps, MeasureKeeps DEF NodeNext
<1> QED
  BY <1>1, <1>2

\* The invariant says what a reader wants to know.
LEMMA NodeHolds == NodeInv => NodeSound
<1> SUFFICES ASSUME NodeInv PROVE NodeSound
  OBVIOUS
<1>1. AnswersTellTheTruth
  BY DEF NodeInv
<1>2. PeriodKept
  BY DEF NodeInv, Paced, PeriodKept
<1>3. kind = "05" => /\ ~(node.pins["P1_6"] = 1 /\ node.pins["P1_7"] = 1)
                     /\ sure /\ ~Running(node) => pos = Place[node.onoff] * Third
  <2> SUFFICES ASSUME kind = "05"
               PROVE  /\ ~(node.pins["P1_6"] = 1 /\ node.pins["P1_7"] = 1)
                      /\ sure /\ ~Running(node) => pos = Place[node.onoff] * Third
    OBVIOUS
  <2>1. Shade(node, pos, sure) /\ Third \in Nat
    BY ThirdAssumption DEF NodeInv, ShadeInv
  <2>2. sure /\ ~Running(node) => node.onoff \in {AA, BB, 161, 162} /\ pos = Spot(node.onoff)
    BY <2>1 DEF Shade, Running, Drives, Ahead
  <2>3. node.onoff \in {AA, BB, 161, 162} => Place[node.onoff] * Third = Spot(node.onoff)
    BY <2>1, Places DEF Spot, AA, BB
  <2> QED BY <2>1, <2>2, <2>3 DEF Shade
<1>4. kind = "K" => /\ node.tmg = 0 => node.pins["P1_0"] = 1
                    /\ node.tmg = 1 => node.pins["P1_0"] = 0
  BY DEF NodeInv, RelayInv, Relay
<1> QED
  BY <1>1, <1>2, <1>3, <1>4 DEF NodeSound, WhereItSays

(***************************************************************************)
(* NodeSound, for every kind of node: it does not say of its own accord    *)
(* what a command made it do, its answers end in their sum, a shade sure   *)
(* of its place stands where it was sent when its motor rests, the relay   *)
(* is on as its count says, and a collector keeps its timing               *)
(* (GenericApp_MessageMSGCB, GenericApp_SendTheMessage, T3_IRQ).           *)
(***************************************************************************)
THEOREM NodeIsSound == NodeSpec => []NodeSound
<1>1. NodeInit => NodeInv
  BY NodeStarts
<1>2. NodeInv /\ [NodeNext]_nodeVars => NodeInv'
  BY NodeSteps
<1>3. NodeInv => NodeSound
  BY NodeHolds
<1> QED
  BY <1>1, <1>2, <1>3, PTL DEF NodeSpec
=============================================================================
