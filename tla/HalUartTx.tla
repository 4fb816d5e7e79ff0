----------------------------- MODULE HalUartTx -----------------------------
(***************************************************************************)
(* The transmit side of the serial driver                                  *)
(* (Components/hal/target/CC2530EB/_hal_uart_dma.c): two buffers, one that *)
(* HalUARTWrite fills and one that the DMA controller sends, exchanged by  *)
(* HalUARTPoll.  After a transfer the driver waits one character time, so  *)
(* that the first byte of the next one does not overwrite the last one in  *)
(* the data register; it measures that time with the lowest byte of the    *)
(* sleep timer.                                                            *)
(*                                                                         *)
(* Write and Poll run on the thread of the OSAL loop; the DMA controller   *)
(* and its interrupt interleave with them.  Bytes are numbered in the      *)
(* order in which they are written.                                        *)
(***************************************************************************)
EXTENDS Integers, Sequences

CONSTANTS
    TxMax,          \* HAL_UART_DMA_TX_MAX, the size of a buffer
    txTick,         \* one character time, in sleep timer ticks
    SleepTimer,     \* values of the byte ST0 (256)
    LongestRound,   \* ticks at most from a poll to the end of the next
    MaxBytes        \* bound: bytes written in a behaviour

ASSUME SizeAssumption  == TxMax \in Nat \ {0} /\ MaxBytes \in Nat
ASSUME TimeAssumption  == txTick \in Nat /\ SleepTimer \in Nat /\ txTick + 1 < SleepTimer
ASSUME RoundAssumption == LongestRound \in Nat

VARIABLES
    txBuf,          \* txBuf[b]: the bytes in buffer b
    txIdx,          \* txIdx[b]: how many of them count
    txSel,          \* the buffer that HalUARTWrite fills
    txDMAPending,   \* a transfer is to be started
    txShdw,         \* ST0 when the last transfer was noticed to be done
    txShdwValid,    \* the wait for the character time is on
    channel,        \* the DMA channel: its source buffer, length, next byte
    armed,          \* the channel is transferring
    irq,            \* the channel is done and its ISR has not run
    ST0,            \* the lowest byte of the sleep timer
    pc,             \* "idle", or inside of HalUARTWrite or HalUARTPoll
    copied,         \* local of HalUARTWrite: txIdx after its copying
    wire,           \* history: bytes that reached the data register
    written,        \* history: bytes HalUARTWrite has accepted
    age,            \* history: ticks since a byte reached the data register
    since           \* ticks since the end of the last poll

buffers  == <<txBuf, txIdx, txSel>>
shadow   == <<txShdw, txShdwValid>>
dma      == <<channel, armed, irq>>
time     == <<ST0, age, since>>
vars     == <<buffers, txDMAPending, shadow, dma, time, pc, copied, wire, written>>

Buffer  == {0, 1}
Other   == 1 - txSel
Oldest  == txTick + 1       \* age and since are counted up to a bound
Bytes   == Seq(1 .. MaxBytes)

TypeOK ==
    /\ txBuf \in [Buffer -> Bytes]
    /\ txIdx \in [Buffer -> 0 .. TxMax]
    /\ \A b \in Buffer : txIdx[b] <= Len(txBuf[b])
    /\ txSel \in Buffer
    /\ txDMAPending \in BOOLEAN /\ txShdwValid \in BOOLEAN
    /\ txShdw \in 0 .. SleepTimer - 1 /\ ST0 \in 0 .. SleepTimer - 1
    /\ channel \in [src : Buffer, len : 0 .. TxMax, next : 1 .. TxMax + 1]
    /\ armed \in BOOLEAN /\ irq \in BOOLEAN
    /\ pc \in {"idle", "write", "poll"}
    /\ copied \in 0 .. TxMax
    /\ wire \in 0 .. MaxBytes /\ written \in 0 .. MaxBytes
    /\ age \in 0 .. Oldest /\ since \in 0 .. LongestRound

Init ==
    /\ txBuf = [b \in Buffer |-> <<>>] /\ txIdx = [b \in Buffer |-> 0] /\ txSel = 0
    /\ txDMAPending = FALSE
    /\ txShdw = 0 /\ txShdwValid = FALSE
    /\ channel = [src |-> 0, len |-> 0, next |-> 1] /\ armed = FALSE /\ irq = FALSE
    /\ ST0 \in 0 .. SleepTimer - 1
    /\ pc = "idle" /\ copied = 0
    /\ wire = 0 /\ written = 0 /\ age = Oldest /\ since = 0

-----------------------------------------------------------------------------
(* HalUARTWriteDMA.  Its second copy, for a buffer exchanged meanwhile, is *)
(* dead code: only HalUARTPoll, on the same thread, exchanges them.        *)

\* Mutant: the room left is not looked at.
HasRoomAlways(n) == TRUE

\* "Enforce all or none."
HasRoom(n) == txIdx[txSel] + n <= TxMax

WriteCopy ==
    /\ pc = "idle"
    /\ \E n \in 1 .. TxMax :
         /\ written + n <= MaxBytes
         /\ HasRoom(n)
         /\ txBuf' = [txBuf EXCEPT ![txSel] =
                SubSeq(@, 1, txIdx[txSel]) \o [i \in 1 .. n |-> written + i]]
         /\ copied' = txIdx[txSel] + n
         /\ written' = written + n
    /\ pc' = "write"
    /\ UNCHANGED <<txIdx, txSel, txDMAPending, shadow, dma, time, wire>>

\* Mutant: a transfer is asked for even while the other buffer is in use.
StartAlways == TRUE

\* The other buffer is empty: no transfer is under way, one is to start.
StartNow == txIdx[Other] = 0

WriteCommit ==
    /\ pc = "write"
    /\ txIdx' = [txIdx EXCEPT ![txSel] = copied]
    /\ txDMAPending' = (txDMAPending \/ StartNow)
    /\ pc' = "idle"
    /\ UNCHANGED <<txBuf, txSel, shadow, dma, time, copied, wire, written>>

-----------------------------------------------------------------------------
(* The DMA controller and HalUARTIsrDMA. *)

DmaByte ==
    /\ armed
    /\ wire' = wire + 1
    /\ age' = 0
    /\ channel' = [channel EXCEPT !.next = @ + 1]
    /\ armed' = (channel.next < channel.len)
    /\ irq' = (channel.next = channel.len)
    /\ UNCHANGED <<buffers, txDMAPending, shadow, ST0, since, pc, copied, written>>

\* Mutants: the buffer that was sent stays in use; the wait is not started.
HalUARTIsrDMAKeeps ==
    /\ irq' = FALSE
    /\ UNCHANGED txIdx
    /\ txShdw' = ST0 /\ txShdwValid' = TRUE
    /\ txDMAPending' = (txDMAPending \/ txIdx[txSel] # 0)
HalUARTIsrDMAEager ==
    /\ irq' = FALSE
    /\ txIdx' = [txIdx EXCEPT ![Other] = 0]
    /\ UNCHANGED shadow
    /\ txDMAPending' = (txDMAPending \/ txIdx[txSel] # 0)

HalUARTIsrDMA ==
    /\ irq' = FALSE
    /\ txIdx' = [txIdx EXCEPT ![Other] = 0]
    /\ txShdw' = ST0 /\ txShdwValid' = TRUE
    /\ txDMAPending' = (txDMAPending \/ txIdx[txSel] # 0)

halDmaIsr ==
    /\ irq
    /\ HalUARTIsrDMA
    /\ UNCHANGED <<txBuf, txSel, channel, armed, time, pc, copied, wire, written>>

-----------------------------------------------------------------------------
(* HalUARTPollDMA. *)

\* Mutant: the wait ends only at one value of the timer.
WaitedExactly == (ST0 - txShdw) % SleepTimer = SleepTimer - 1

Waited == (ST0 - txShdw) % SleepTimer > txTick

PollShadow ==
    /\ pc = "idle"
    /\ txShdwValid' = (txShdwValid /\ ~Waited)
    /\ pc' = "poll"
    /\ UNCHANGED <<buffers, txDMAPending, txShdw, dma, time, copied, wire, written>>

PollEnds == pc' = "idle" /\ since' = 0

PollFire ==
    /\ pc = "poll"
    /\ txDMAPending /\ ~txShdwValid
    /\ txDMAPending' = FALSE
    /\ channel' = [src |-> txSel, len |-> txIdx[txSel], next |-> 1]
    /\ txSel' = Other
    /\ armed' = TRUE /\ irq' = FALSE
    /\ PollEnds
    /\ UNCHANGED <<txBuf, txIdx, shadow, ST0, age, copied, wire, written>>

\* Bytes wait, and the channel is neither busy nor just done.
Stalled == txIdx[txSel] # 0 /\ ~armed /\ ~irq

PollRecover ==
    /\ pc = "poll"
    /\ ~(txDMAPending /\ ~txShdwValid)
    /\ Stalled
    /\ HalUARTIsrDMA
    /\ PollEnds
    /\ UNCHANGED <<txBuf, txSel, channel, armed, ST0, age, copied, wire, written>>

PollNothing ==
    /\ pc = "poll"
    /\ ~(txDMAPending /\ ~txShdwValid)
    /\ ~Stalled
    /\ PollEnds
    /\ UNCHANGED <<buffers, txDMAPending, shadow, dma, ST0, age, copied, wire, written>>

Tick ==
    /\ since < LongestRound
    /\ ST0' = (ST0 + 1) % SleepTimer
    /\ age' = IF age < Oldest THEN age + 1 ELSE age
    /\ since' = since + 1
    /\ UNCHANGED <<buffers, txDMAPending, shadow, dma, pc, copied, wire, written>>

-----------------------------------------------------------------------------
Write == WriteCopy \/ WriteCommit
Poll  == PollShadow \/ PollFire \/ PollRecover \/ PollNothing
Next  == Write \/ DmaByte \/ halDmaIsr \/ Poll \/ Tick

\* The loop polls for ever, the hardware works, time passes; nothing obliges
\* the application to write.
Fairness == WF_vars(WriteCommit) /\ WF_vars(Poll) /\ WF_vars(DmaByte)
            /\ WF_vars(halDmaIsr) /\ WF_vars(Tick)
Spec     == Init /\ [][Next]_vars
FairSpec == Spec /\ Fairness

-----------------------------------------------------------------------------
(* Properties. *)

\* What is still to be sent: the rest of the transfer, then the buffer being
\* filled (with what a write in progress has copied).
Left ==
    (IF armed THEN SubSeq(txBuf[channel.src], channel.next, channel.len) ELSE <<>>)
    \o SubSeq(txBuf[txSel], 1, IF pc = "write" THEN copied ELSE txIdx[txSel])

\* Every accepted byte is sent once, in order, and unchanged: what is left is
\* the accepted bytes that have not reached the wire, whatever the writers,
\* the polls and the controller do meanwhile.
NothingLost == Left = [i \in 1 .. written - wire |-> wire + i]

\* The index of the buffer not being filled says whether the channel is in
\* use: HalUARTWrite starts a transfer, and HalUARTPoll reuses the channel
\* and the buffer, on no other evidence.
OtherBufferInUse == txIdx[Other] # 0 <=> armed \/ irq

\* "While the shadow was valid, DMA ISR cannot be triggered" (comment in
\* HalUARTPollDMA, on not protecting txShdwValid).
ShadowMeansIdle == txShdwValid => ~armed /\ ~irq

\* What the driver's variables say of the channel is so.
ChannelKnown == OtherBufferInUse /\ ShadowMeansIdle

\* The transmitter: typed, every accepted byte sent once and in order, and
\* what it believes of the channel is so.
TxSound == TypeOK /\ NothingLost /\ ChannelKnown

\* A transfer starts only when the last byte of the one before has had a
\* character time to leave the data register, though ST0 wraps.
DataRegisterFree == [][PollFire => age >= txTick]_vars

\* Once the application pauses, everything it wrote is sent: the wait is for
\* "time lapse since DMA ISR to allow delay margin before start firing DMA"
\* (_hal_uart_dma.c), and that time lapses.
WrittenIsSent == []<>(wire = written)

\* A poll more than a character time, and less than a round of ST0, after the
\* one before: what the wait and its recovery branch take for granted.
UnhurriedPoll == PollShadow /\ since % SleepTimer > txTick

\* If such polls keep coming among the others, everything written is sent,
\* though each other poll may start the wait anew.
SentIfUnhurried == []<><<UnhurriedPoll>>_vars => WrittenIsSent
=============================================================================
