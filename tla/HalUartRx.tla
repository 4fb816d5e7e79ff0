----------------------------- MODULE HalUartRx -----------------------------
(***************************************************************************)
(* The receive side of the serial driver                                   *)
(* (Components/hal/target/CC2530EB/_hal_uart_dma.c): the DMA controller    *)
(* writes each octet with a pad into a ring, without end and without a     *)
(* look at what has been read; the reader finds by the pad what is new,    *)
(* and changes it when it has taken the octet.  HalUARTPoll tells the      *)
(* application when much has come or when the line has been quiet for      *)
(* HAL_UART_DMA_IDLE, which it measures with the lowest octet of the sleep *)
(* timer.                                                                  *)
(*                                                                         *)
(* Poll, read and clear run on the thread of the OSAL loop; the controller *)
(* interleaves with each of their accesses.  Octets are numbered in the    *)
(* order in which they came.                                               *)
(***************************************************************************)
EXTENDS Integers, Sequences, FiniteSets

CONSTANTS
    RxMax,           \* HAL_UART_DMA_RX_MAX, the size of the ring
    High, Full,      \* HAL_UART_DMA_HIGH and HAL_UART_DMA_FULL
    Idle,            \* HAL_UART_DMA_IDLE, in ticks
    RxSleepTimer,    \* values of the octet ST0 (256)
    RxLongestRound,  \* ticks at most from a poll to the next
    MaxOctets,       \* bound: octets that come in
    RtsHeeded        \* the sender stops when RTS says so (flowControl)

ASSUME RingAssumption == RxMax \in Nat \ {0} /\ High \in Nat /\ Full \in Nat /\ MaxOctets \in Nat
ASSUME TickAssumption == Idle \in Nat /\ RxSleepTimer \in Nat \ {0} /\ RxLongestRound \in Nat

VARIABLES
    rxBuf,          \* the ring: 0, or the number of the octet that is new there
    dmaNext,        \* where the controller writes next
    rxHead, rxTail, rxTick, rxShdw,
    rxST0,
    rts,            \* RTS tells the sender to stop
    rxPc,           \* "idle", or inside of HalUARTPoll or of a read
    taken,          \* local of the read: the octet it has got and not yet marked
    came,           \* history: octets that came
    got,            \* history: octets that were read or thrown away
    overrun,        \* history: an octet was written over one not read
    misread,        \* history: an octet was read out of its turn
    quiet,          \* history: ticks since an octet came, up to Idle
    rxSince         \* history: ticks since the last poll

ring   == <<rxBuf, dmaNext, came, overrun>>
timing == <<rxTail, rxTick, rxShdw>>
clock  == <<rxST0, quiet, rxSince>>
rxVars   == <<ring, rxHead, timing, clock, rts, rxPc, taken, got, misread>>

Slot    == 0 .. RxMax - 1
Next1(i) == (i + 1) % RxMax

HAL_UART_DMA_NEW_RX_BYTE(i) == rxBuf[i] # 0

\* HalUARTOpenDMA: the ring is marked as read and the receiver is turned on.
RxInit ==
    /\ rxBuf = [i \in Slot |-> 0] /\ dmaNext = 0
    /\ rxHead = 0 /\ rxTail = 0 /\ rxTick = 0 /\ rxShdw = 0
    /\ rxST0 = 0 /\ rts = FALSE
    /\ rxPc = "idle" /\ taken = 0
    /\ came = 0 /\ got = 0 /\ overrun = FALSE /\ misread = FALSE
    /\ quiet = Idle /\ rxSince = 0

-----------------------------------------------------------------------------
(* The sender and the controller.                                          *)
DmaOctet ==
    /\ came < MaxOctets
    /\ RtsHeeded => ~rts
    /\ rxBuf' = [rxBuf EXCEPT ![dmaNext] = came + 1]
    /\ dmaNext' = Next1(dmaNext)
    /\ came' = came + 1
    /\ overrun' = (overrun \/ HAL_UART_DMA_NEW_RX_BYTE(dmaNext))
    /\ quiet' = 0
    /\ UNCHANGED <<rxHead, timing, rxST0, rxSince, rts, rxPc, taken, got, misread>>

RxTick ==
    /\ rxSince < RxLongestRound
    /\ rxST0' = (rxST0 + 1) % RxSleepTimer
    /\ quiet' = IF quiet < Idle THEN quiet + 1 ELSE quiet
    /\ rxSince' = rxSince + 1
    /\ UNCHANGED <<ring, rxHead, timing, rts, rxPc, taken, got, misread>>

-----------------------------------------------------------------------------
(* HalUARTPollDMA.                                                         *)

\* findTail: the first place from the head on that is not new.
Ahead(k) == (rxHead + k) % RxMax
findTail ==
    IF \A i \in Slot : HAL_UART_DMA_NEW_RX_BYTE(i) THEN rxHead
    ELSE Ahead(CHOOSE k \in Slot : /\ ~HAL_UART_DMA_NEW_RX_BYTE(Ahead(k))
                                   /\ \A j \in 0 .. k - 1 : HAL_UART_DMA_NEW_RX_BYTE(Ahead(j)))

\* Mutant: the tail is not remembered.
IdleTimerForgets(tail, decr) ==
    \/ /\ rxTail # tail
       /\ UNCHANGED rxTail /\ rxTick' = Idle
       /\ rxShdw' = IF rxTick = 0 THEN rxST0 ELSE rxShdw
    \/ /\ rxTail = tail /\ UNCHANGED rxTail
       /\ rxTick' = IF rxTick > decr THEN rxTick - decr ELSE 0
       /\ rxShdw' = IF rxTick > decr THEN rxST0 ELSE rxShdw

\* The idle time starts anew when the tail has moved; its shadow only with
\* a first octet.
IdleTimer(tail, decr) ==
    \/ /\ rxTail # tail
       /\ rxTail' = tail /\ rxTick' = Idle
       /\ rxShdw' = IF rxTick = 0 THEN rxST0 ELSE rxShdw
    \/ /\ rxTail = tail /\ UNCHANGED rxTail
       /\ rxTick' = IF rxTick > decr THEN rxTick - decr ELSE 0
       /\ rxShdw' = IF rxTick > decr THEN rxST0 ELSE rxShdw

PollTail ==
    /\ rxPc = "idle"
    /\ rxSince' = 0
    /\ IF HAL_UART_DMA_NEW_RX_BYTE(rxHead)
       THEN rxPc' = "count" /\ IdleTimer(findTail, (rxST0 - rxShdw) % RxSleepTimer)
       ELSE rxPc' = "idle" /\ rxTick' = 0 /\ UNCHANGED <<rxTail, rxShdw>>
    /\ UNCHANGED <<ring, rxHead, rxST0, quiet, rts, taken, got, misread>>

\* HalUARTRxAvailDMA: all that is new, wherever it is.
HalUARTRxAvailDMA ==
    IF HAL_UART_DMA_NEW_RX_BYTE(rxHead) THEN Cardinality({i \in Slot : rxBuf[i] # 0}) ELSE 0

Event(cnt) ==
    IF cnt >= Full THEN "RX_FULL"
    ELSE IF cnt >= High THEN "RX_ABOUT_FULL"
    ELSE IF cnt # 0 /\ rxTick = 0 THEN "RX_TIMEOUT" ELSE "none"

\* The event is told; the count is of now, the idle time of a moment ago.
PollCount ==
    /\ rxPc = "count"
    /\ LET evt == Event(HalUARTRxAvailDMA)
       IN /\ rxPc' = IF evt = "none" THEN "idle" ELSE "callback"
          /\ rts' = (rts \/ evt = "RX_ABOUT_FULL")
    /\ UNCHANGED <<ring, rxHead, timing, clock, taken, got, misread>>

-----------------------------------------------------------------------------
(* The application's callback reads octets one by one while the driver has *)
(* any, or returns before; it may throw what is there away.                *)

\* HalUARTReadDMA: the octet is got, then its place is marked and left.
ReadGet ==
    /\ rxPc = "callback"
    /\ HAL_UART_DMA_NEW_RX_BYTE(rxHead)
    /\ taken' = rxBuf[rxHead]
    /\ rxPc' = "mark"
    /\ UNCHANGED <<ring, rxHead, timing, clock, rts, got, misread>>

\* Mutant: the head goes two places on.
AdvanceTwice == Next1(Next1(rxHead))

Advance == Next1(rxHead)

ReadMark ==
    /\ rxPc = "mark"
    /\ rxBuf' = [rxBuf EXCEPT ![rxHead] = 0]
    /\ rxHead' = Advance
    /\ rts' = FALSE
    /\ misread' = (misread \/ taken # got + 1)
    /\ got' = got + 1
    /\ taken' = 0
    /\ rxPc' = "callback"
    /\ UNCHANGED <<dmaNext, came, overrun, timing, clock>>

\* HalUARTclerDMA, for all that is there.
HalUARTclerDMA ==
    /\ rxPc = "callback"
    /\ HAL_UART_DMA_NEW_RX_BYTE(rxHead)
    /\ LET full == \A i \in Slot : rxBuf[i] # 0
           n == IF full THEN RxMax ELSE (findTail - rxHead) % RxMax
           cleared == {Ahead(k) : k \in 0 .. n - 1}
       IN /\ rxBuf' = [i \in Slot |-> IF i \in cleared THEN 0 ELSE rxBuf[i]]
          /\ rxHead' = Ahead(n)
          /\ got' = got + n
    /\ rts' = FALSE
    /\ UNCHANGED <<dmaNext, came, overrun, timing, clock, rxPc, taken, misread>>

CallbackReturns ==
    /\ rxPc = "callback"
    /\ rxPc' = "idle"
    /\ UNCHANGED <<ring, rxHead, timing, clock, rts, taken, got, misread>>

-----------------------------------------------------------------------------
Driver == PollTail \/ PollCount \/ ReadGet \/ ReadMark \/ HalUARTclerDMA \/ CallbackReturns
RxNext   == DmaOctet \/ RxTick \/ Driver

\* The loop polls for ever and callbacks return, time passes; the sender
\* need not send.
RxFairness == /\ WF_rxVars(PollTail) /\ WF_rxVars(PollCount) /\ WF_rxVars(ReadMark) /\ WF_rxVars(RxTick)
              /\ WF_rxVars(CallbackReturns)
RxSpec     == RxInit /\ [][RxNext]_rxVars
RxFairSpec == RxSpec /\ RxFairness

-----------------------------------------------------------------------------
(* Properties.                                                             *)

\* As long as no octet was written over one not read, the ring holds exactly
\* the octets that came and were not read, one after the other from the head
\* on, and the controller writes next behind the last: the reader, which
\* never sees where the controller writes, reads every octet in its turn.
RingInStep ==
    ~overrun =>
      /\ ~misread
      /\ came - got \in 0 .. RxMax
      /\ dmaNext = (rxHead + (came - got)) % RxMax
      /\ \A k \in Slot : rxBuf[Ahead(k)] = IF k < came - got THEN got + 1 + k ELSE 0

\* Octets that wait are told of, though none comes behind them and though the
\* time is measured by one octet of the timer: a poll at least once in its
\* round is enough.
WaitingIsTold == []<>(rxPc = "callback" \/ overrun \/ came = got)

\* "If the DMA has transferred in more Rx bytes, reset the Rx idle timer"
\* (HalUARTPollDMA): the application is told that the line is idle only when
\* nothing came for the idle time, but for the time between two polls.
IdleMeansIdle ==
    [][(PollTail /\ rxPc' = "count" /\ rxTick' = 0) => quiet + 2 * RxLongestRound >= Idle]_rxVars
=============================================================================
