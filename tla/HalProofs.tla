----------------------------- MODULE HalProofs -----------------------------
(***************************************************************************)
(* Proofs about what works with the hardware.                              *)
(*                                                                         *)
(* The two halves of the serial driver: HalUartTx, for any buffer size,    *)
(* character time, width of the timer byte, distance of the polls and      *)
(* number of bytes; and HalUartRx, for a ring of any size, any event       *)
(* levels and any timer: the reader, which sees only the pads, stays in    *)
(* step with the DMA controller until an octet is written over one not     *)
(* read.                                                                   *)
(*                                                                         *)
(* OsalSleep, for any number of tasks, any timers and any timeouts: the    *)
(* processor is never in a power mode while an event waits, and it enters  *)
(* one only with the alarm set for the first timer.                        *)
(***************************************************************************)
EXTENDS HalUartTx, HalUartRx, OsalSleep, SequenceTheorems, FiniteSetTheorems, TLAPS

-----------------------------------------------------------------------------
(* Transmission: the inductive invariant. *)

\* Bytes in the buffer being filled, and bytes the channel has still to send.
Filled  == IF pc = "write" THEN copied ELSE txIdx[txSel]
Pending == IF armed THEN channel.len - channel.next + 1 ELSE 0

\* The channel sends the other buffer, is not done before it is, and has
\* something left to send.
ChannelSends ==
    /\ ~ (armed /\ irq)
    /\ armed => /\ channel.src = Other /\ channel.len = txIdx[Other]
                /\ channel.next <= channel.len

\* A transfer that is to be started finds bytes and an idle channel.
PendingFinds == txDMAPending => txIdx[txSel] # 0 /\ ~armed /\ ~irq

\* A write in progress has copied something, into the buffer being filled.
CopyKnown == pc = "write" => copied # 0 /\ copied <= Len(txBuf[txSel])

\* The bytes behind the channel's next one, and those being filled in behind
\* them, are those that follow the ones on the wire.
InOrder ==
    /\ armed => \A k \in channel.next .. channel.len :
                    txBuf[Other][k] = wire + k - channel.next + 1
    /\ \A k \in 1 .. Filled : txBuf[txSel][k] = wire + Pending + k
    /\ written = wire + Pending + Filled

\* What the difference of two timer bytes says of the time since a byte went
\* to the data register, wrap or not; and the wait has ended only once it was
\* longer than a character.
WaitKnown ==
    /\ txShdwValid => (ST0 - txShdw) % SleepTimer <= age \/ age = Oldest
    /\ ~armed /\ ~irq /\ ~txShdwValid => age = Oldest

TxInv ==
    /\ TypeOK
    /\ ChannelKnown /\ ChannelSends /\ PendingFinds /\ CopyKnown
    /\ InOrder /\ WaitKnown

-----------------------------------------------------------------------------
(* Sequences and the timer. *)

\* The first m of a buffer.
LEMMA Kept ==
    ASSUME NEW S, NEW b \in Seq(S), NEW m \in 0 .. Len(b)
    PROVE  /\ SubSeq(b, 1, m) \in Seq(S) /\ Len(SubSeq(b, 1, m)) = m
           /\ \A k \in 1 .. m : SubSeq(b, 1, m)[k] = b[k]
OBVIOUS

\* The buffer after d was put behind the first m of it.
LEMMA Appended ==
    ASSUME NEW S, NEW b \in Seq(S), NEW m \in 0 .. Len(b), NEW d \in Seq(S)
    PROVE  /\ SubSeq(b, 1, m) \o d \in Seq(S)
           /\ Len(SubSeq(b, 1, m) \o d) = m + Len(d)
           /\ \A k \in 1 .. m + Len(d) :
                 (SubSeq(b, 1, m) \o d)[k] = IF k <= m THEN b[k] ELSE d[k - m]
<1> DEFINE a == SubSeq(b, 1, m)
<1>1. a \in Seq(S) /\ Len(a) = m /\ \A k \in 1 .. m : a[k] = b[k]
  BY Kept
<1> HIDE DEF a
<1>2. /\ a \o d \in Seq(S) /\ Len(a \o d) = Len(a) + Len(d)
      /\ \A k \in 1 .. Len(a) + Len(d) :
            (a \o d)[k] = IF k <= Len(a) THEN a[k] ELSE d[k - Len(a)]
  BY <1>1, ConcatProperties, Zenon
<1>3. \A k \in 1 .. m + Len(d) : (a \o d)[k] = IF k <= m THEN b[k] ELSE d[k - m]
  BY <1>1, <1>2
<1>4. QED
  BY <1>1, <1>2, <1>3, Zenon DEF a

\* One tick later the difference of two timer bytes is one more, or zero.
LEMMA TimerStep ==
    ASSUME NEW N \in Nat \ {0}, NEW x \in 0 .. N - 1, NEW y \in 0 .. N - 1
    PROVE  /\ (x + 1) % N \in 0 .. N - 1
           /\ (x - y) % N \in 0 .. N - 1
           /\ (((x + 1) % N) - y) % N
                 = IF (x - y) % N = N - 1 THEN 0 ELSE ((x - y) % N) + 1
<1>1. (x + 1) % N = IF x = N - 1 THEN 0 ELSE x + 1
  OBVIOUS
<1>2. \A z \in (1 - N) .. (N - 1) : z % N = IF z < 0 THEN z + N ELSE z
  OBVIOUS
<1>3. QED
  BY <1>1, <1>2

-----------------------------------------------------------------------------
(* The invariant holds at the start, and every action keeps it. *)

LEMMA TxInitHolds == ASSUME Init PROVE TxInv
<1> USE SizeAssumption, TimeAssumption, RoundAssumption
<1>1. <<>> \in Bytes /\ Len(<<>>) = 0
  BY DEF Bytes
<1>2. TypeOK
  <2>1. /\ txBuf \in [Buffer -> Bytes] /\ txIdx \in [Buffer -> 0 .. TxMax]
        /\ \A b \in Buffer : txIdx[b] <= Len(txBuf[b])
    BY <1>1 DEF Init
  <2>2. channel \in [src : Buffer, len : 0 .. TxMax, next : 1 .. TxMax + 1]
    BY DEF Init, Buffer
  <2>3. /\ txSel \in Buffer
        /\ txShdw \in 0 .. SleepTimer - 1 /\ ST0 \in 0 .. SleepTimer - 1
        /\ pc \in {"idle", "write", "poll"}
        /\ copied \in 0 .. TxMax /\ wire \in 0 .. MaxBytes /\ written \in 0 .. MaxBytes
        /\ age \in 0 .. Oldest /\ since \in 0 .. LongestRound
    BY DEF Init, Buffer, Oldest
  <2>4. /\ txDMAPending \in BOOLEAN /\ txShdwValid \in BOOLEAN
        /\ armed \in BOOLEAN /\ irq \in BOOLEAN
    BY Zenon DEF Init
  <2>5. QED
    BY <2>1, <2>2, <2>3, <2>4, Zenon DEF TypeOK
<1>3. ChannelKnown /\ ChannelSends /\ PendingFinds /\ CopyKnown
  BY DEF Init, ChannelKnown, OtherBufferInUse, ShadowMeansIdle, ChannelSends,
         PendingFinds, CopyKnown, Other, Buffer
<1>4. InOrder /\ WaitKnown
  BY DEF Init, InOrder, Filled, Pending, WaitKnown, Buffer
<1>5. QED
  BY <1>2, <1>3, <1>4 DEF TxInv

\* The two buffers.
LEMMA TwoBuffers ==
    ASSUME TypeOK
    PROVE  txSel \in Buffer /\ Other \in Buffer /\ Other # txSel /\ 1 - Other = txSel
BY DEF TypeOK, Buffer, Other

LEMMA WriteCopyKeeps == ASSUME TxInv, WriteCopy PROVE TxInv'
<1> USE SizeAssumption DEF TxInv, buffers, shadow, dma, time
<1>0. PICK n \in 1 .. TxMax :
        /\ written + n <= MaxBytes
        /\ HasRoom(n)
        /\ txBuf' = [txBuf EXCEPT ![txSel] =
               SubSeq(@, 1, txIdx[txSel]) \o [i \in 1 .. n |-> written + i]]
        /\ copied' = txIdx[txSel] + n
        /\ written' = written + n
  BY DEF WriteCopy
<1>1. /\ pc = "idle" /\ pc' = "write"
      /\ UNCHANGED <<txIdx, txSel, txDMAPending, shadow, dma, time, wire>>
      /\ Other' = Other
  BY DEF WriteCopy, Other
<1>2. /\ txSel \in Buffer /\ Other \in Buffer /\ Other # txSel
      /\ txBuf[txSel] \in Bytes /\ txBuf[Other] \in Bytes
      /\ txIdx[txSel] \in 0 .. Len(txBuf[txSel]) /\ txIdx[txSel] \in 0 .. TxMax
      /\ written \in 0 .. MaxBytes /\ wire \in 0 .. MaxBytes
  BY TwoBuffers DEF TypeOK, Bytes
<1> DEFINE old == txBuf[txSel]
           m == txIdx[txSel]
           c == txBuf'[txSel]
<1>3. /\ c \in Bytes /\ Len(c) = m + n
      /\ \A k \in 1 .. m + n : c[k] = IF k <= m THEN old[k] ELSE written + k - m
  <2> DEFINE d == [i \in 1 .. n |-> written + i]
             S == 1 .. MaxBytes
  <2>1. c = SubSeq(old, 1, m) \o d
    BY <1>0, <1>2 DEF TypeOK
  <2>2. d \in Seq(S) /\ Len(d) = n /\ \A k \in 1 .. n : d[k] = written + k
    BY <1>0, <1>2
  <2>3. old \in Seq(S) /\ m \in 0 .. Len(old) /\ n \in Nat /\ written \in Nat
    BY <1>0, <1>2 DEF Bytes
  <2>4. c \in Seq(S) => c \in Bytes
    BY DEF Bytes
  <2> HIDE DEF old, c, m, d, S
  <2>5. /\ c \in Seq(S) /\ Len(c) = m + Len(d)
        /\ \A k \in 1 .. m + Len(d) : c[k] = IF k <= m THEN old[k] ELSE d[k - m]
    <3>1. old \in Seq(S) /\ d \in Seq(S) /\ m \in 0 .. Len(old)
      BY <2>2, <2>3
    <3>2. /\ SubSeq(old, 1, m) \o d \in Seq(S)
          /\ Len(SubSeq(old, 1, m) \o d) = m + Len(d)
          /\ \A k \in 1 .. m + Len(d) :
                (SubSeq(old, 1, m) \o d)[k] = IF k <= m THEN old[k] ELSE d[k - m]
      BY <3>1, Appended
    <3>3. QED
      BY <2>1, <3>2, Zenon
  <2>6. \A k \in 1 .. m + n : c[k] = IF k <= m THEN old[k] ELSE written + k - m
    BY <2>2, <2>3, <2>5
  <2>7. QED
    BY <2>2, <2>4, <2>5, <2>6
<1>4. txBuf' \in [Buffer -> Bytes] /\ txBuf'[Other] = txBuf[Other]
  BY <1>0, <1>2, <1>3 DEF TypeOK
<1>5. copied' = m + n /\ m + n <= TxMax /\ m + n \in 0 .. TxMax
  BY <1>0, <1>2 DEF HasRoom
<1>6. TypeOK'
  <2>1. \A b \in Buffer : b = txSel \/ b = Other
    BY <1>2 DEF Buffer
  <2>2. \A b \in Buffer : txIdx'[b] <= Len(txBuf'[b])
    BY <1>0, <1>1, <1>2, <1>3, <1>4, <2>1 DEF TypeOK
  <2>3. written' \in 0 .. MaxBytes
    BY <1>0, <1>2
  <2>4. QED
    BY <1>1, <1>4, <1>5, <2>2, <2>3 DEF TypeOK
<1>7. ChannelKnown' /\ ChannelSends' /\ PendingFinds' /\ WaitKnown'
  BY <1>1 DEF ChannelKnown, OtherBufferInUse, ShadowMeansIdle, ChannelSends,
              PendingFinds, WaitKnown
<1>8. CopyKnown'
  BY <1>0, <1>1, <1>2, <1>3, <1>5 DEF CopyKnown
<1>9. InOrder'
  <2>1. Pending' = Pending /\ Filled' = m + n /\ Filled = m /\ Pending \in Int
    BY <1>1, <1>5 DEF Pending, Filled, TypeOK
  <2>2. written = wire + Pending + m
    BY <2>1 DEF InOrder
  <2>3. \A k \in 1 .. m : old[k] = wire + Pending + k
    BY <2>1 DEF InOrder
  <2>4. m \in Nat /\ n \in Nat /\ wire \in Nat /\ written \in Nat
    BY <1>0, <1>2
  <2>5. written' = wire + Pending + (m + n)
    BY <1>0, <2>1, <2>2, <2>4
  <2> HIDE DEF old, c, m
  <2>6. \A k \in 1 .. m + n : c[k] = wire + Pending + k
    BY <1>3, <2>1, <2>2, <2>3, <2>4
  <2>7. txSel' = txSel /\ wire' = wire /\ channel' = channel /\ armed' = armed
    BY <1>1
  <2>8. armed => \A k \in channel.next .. channel.len :
                    txBuf'[Other][k] = wire + k - channel.next + 1
    BY <1>4 DEF InOrder
  <2>9. QED
    BY <1>1, <2>1, <2>5, <2>6, <2>7, <2>8 DEF InOrder, c
<1>10. QED
  BY <1>6, <1>7, <1>8, <1>9

LEMMA WriteCommitKeeps == ASSUME TxInv, WriteCommit PROVE TxInv'
<1> USE SizeAssumption DEF TxInv, shadow, dma, time
<1>1. /\ pc = "write" /\ pc' = "idle" /\ txIdx' = [txIdx EXCEPT ![txSel] = copied]
      /\ txDMAPending' = (txDMAPending \/ StartNow)
      /\ UNCHANGED <<txBuf, txSel, shadow, dma, time, copied, wire, written>>
      /\ Other' = Other
  BY DEF WriteCommit, Other
<1>2. txSel \in Buffer /\ Other \in Buffer /\ Other # txSel
  BY TwoBuffers
<1>3. /\ txIdx'[txSel] = copied /\ txIdx'[Other] = txIdx[Other]
      /\ txIdx' \in [Buffer -> 0 .. TxMax]
  BY <1>1, <1>2 DEF TypeOK
<1>4. TypeOK'
  <2>1. \A b \in Buffer : txIdx'[b] <= Len(txBuf'[b])
    BY <1>1, <1>2 DEF TypeOK, CopyKnown
  <2>2. QED
    BY <1>1, <1>3, <2>1 DEF TypeOK
<1>5. ChannelKnown' /\ ChannelSends' /\ WaitKnown' /\ CopyKnown'
  BY <1>1, <1>3 DEF ChannelKnown, OtherBufferInUse, ShadowMeansIdle, ChannelSends,
                    WaitKnown, CopyKnown
<1>6. PendingFinds'
  BY <1>1, <1>3 DEF PendingFinds, StartNow, ChannelKnown, OtherBufferInUse, CopyKnown
<1>7. InOrder'
  <2>1. Pending' = Pending /\ Filled' = Filled
    BY <1>1, <1>3 DEF Pending, Filled
  <2>2. QED
    BY <1>1, <2>1 DEF InOrder
<1>8. QED
  BY <1>4, <1>5, <1>6, <1>7

LEMMA DmaByteKeeps == ASSUME TxInv, DmaByte PROVE TxInv'
<1> USE SizeAssumption DEF TxInv, buffers, shadow
<1>1. /\ armed /\ wire' = wire + 1 /\ age' = 0
      /\ channel' = [channel EXCEPT !.next = @ + 1]
      /\ UNCHANGED <<buffers, txDMAPending, shadow, ST0, since, pc, copied, written>>
      /\ Other' = Other
  BY DEF DmaByte, Other
<1>2. (armed' <=> channel.next < channel.len) /\ (irq' <=> channel.next = channel.len)
  BY DEF DmaByte
<1>3. armed' \in BOOLEAN /\ irq' \in BOOLEAN
  BY DEF DmaByte
<1>4. /\ ~irq /\ ~txDMAPending /\ ~txShdwValid
      /\ channel.src = Other /\ channel.len = txIdx[Other] /\ channel.next <= channel.len
      /\ txIdx[Other] # 0
  BY <1>1 DEF ChannelSends, PendingFinds, ChannelKnown, ShadowMeansIdle, OtherBufferInUse
<1>5. /\ channel \in [src : Buffer, len : 0 .. TxMax, next : 1 .. TxMax + 1]
      /\ channel.len \in 0 .. TxMax /\ channel.next \in 1 .. TxMax + 1
  BY DEF TypeOK
<1>6. /\ channel'.src = channel.src /\ channel'.len = channel.len
      /\ channel'.next = channel.next + 1
      /\ channel' \in [src : Buffer, len : 0 .. TxMax, next : 1 .. TxMax + 1]
  BY <1>1, <1>4, <1>5
<1>7. wire \in Nat /\ written \in 0 .. MaxBytes /\ Filled \in Nat /\ Filled' = Filled
  BY <1>1, TwoBuffers DEF TypeOK, Filled
<1>8. Pending = channel.len - channel.next + 1 /\ Pending' = Pending - 1
  BY <1>1, <1>2, <1>4, <1>5, <1>6 DEF Pending
<1>9. written = wire + Pending + Filled
  BY DEF InOrder
<1>10. TypeOK'
  <2>1. wire' \in 0 .. MaxBytes
    BY <1>1, <1>4, <1>5, <1>7, <1>8, <1>9
  <2>2. age' \in 0 .. Oldest
    BY <1>1, TimeAssumption DEF Oldest
  <2>3. QED
    BY <1>1, <1>3, <1>6, <2>1, <2>2 DEF TypeOK
<1>11. ChannelKnown' /\ ChannelSends' /\ PendingFinds' /\ WaitKnown' /\ CopyKnown'
  BY <1>1, <1>2, <1>4, <1>5, <1>6
     DEF ChannelKnown, OtherBufferInUse, ShadowMeansIdle, ChannelSends, PendingFinds,
         WaitKnown, CopyKnown
<1>12. InOrder'
  <2>1. \A k \in channel.next .. channel.len :
            txBuf[Other][k] = wire + k - channel.next + 1
    BY <1>1 DEF InOrder
  <2>2. \A k \in 1 .. Filled : txBuf[txSel][k] = wire + Pending + k
    BY DEF InOrder
  <2>3. \A k \in channel'.next .. channel'.len :
            txBuf'[Other'][k] = wire' + k - channel'.next + 1
    BY <1>1, <1>5, <1>6, <1>7, <2>1
  <2>4. wire' + Pending' = wire + Pending
    BY <1>1, <1>5, <1>7, <1>8
  <2>5. QED
    BY <1>1, <1>7, <1>9, <2>2, <2>3, <2>4 DEF InOrder
<1>13. QED
  BY <1>10, <1>11, <1>12

\* The interrupt and the recovery branch of the poll do the same.
LEMMA SentKeeps ==
    ASSUME TxInv, ~armed, ~txDMAPending \/ txIdx[txSel] # 0, HalUARTIsrDMA,
           UNCHANGED <<txBuf, txSel, channel, armed, ST0, age, copied, wire, written>>,
           since' \in 0 .. LongestRound, pc' \in {"idle", "write", "poll"},
           pc' = "write" <=> pc = "write"
    PROVE  TxInv'
<1> USE SizeAssumption DEF TxInv
<1>1. /\ irq' = FALSE /\ txIdx' = [txIdx EXCEPT ![Other] = 0]
      /\ txShdw' = ST0 /\ txShdwValid' = TRUE
      /\ txDMAPending' = (txDMAPending \/ txIdx[txSel] # 0)
      /\ Other' = Other
  BY DEF HalUARTIsrDMA, Other
<1>2. txSel \in Buffer /\ Other \in Buffer /\ Other # txSel
  BY TwoBuffers
<1>3. /\ txIdx'[txSel] = txIdx[txSel] /\ txIdx'[Other] = 0
      /\ txIdx' \in [Buffer -> 0 .. TxMax]
  BY <1>1, <1>2 DEF TypeOK
<1>4. TypeOK'
  <2>1. \A b \in Buffer : txIdx'[b] <= Len(txBuf'[b])
    BY <1>1, <1>2 DEF TypeOK, Bytes
  <2>2. QED
    BY <1>1, <1>3, <2>1 DEF TypeOK
<1>5. ChannelKnown' /\ ChannelSends' /\ PendingFinds' /\ CopyKnown'
  BY <1>1, <1>3 DEF ChannelKnown, OtherBufferInUse, ShadowMeansIdle, ChannelSends,
                    PendingFinds, CopyKnown
<1>6. WaitKnown'
  <2>1. (ST0 - ST0) % SleepTimer = 0
    BY TimeAssumption DEF TypeOK
  <2>2. QED
    BY <1>1, <2>1 DEF WaitKnown, TypeOK
<1>7. InOrder'
  <2>1. Pending' = Pending /\ Filled' = Filled
    BY <1>1, <1>3 DEF Pending, Filled
  <2>2. QED
    BY <1>1, <2>1 DEF InOrder
<1>8. QED
  BY <1>4, <1>5, <1>6, <1>7

LEMMA IsrKeeps == ASSUME TxInv, halDmaIsr PROVE TxInv'
<1>1. irq /\ ~armed /\ ~txDMAPending
  BY DEF halDmaIsr, TxInv, ChannelSends, PendingFinds
<1>2. QED
  BY <1>1, SentKeeps DEF halDmaIsr, time, TxInv, TypeOK

LEMMA PollRecoverKeeps == ASSUME TxInv, PollRecover PROVE TxInv'
BY SentKeeps, RoundAssumption DEF PollRecover, Stalled, PollEnds

LEMMA PollShadowKeeps == ASSUME TxInv, PollShadow PROVE TxInv'
<1> USE DEF TxInv, buffers, dma, time
<1>1. /\ pc = "idle" /\ pc' = "poll"
      /\ UNCHANGED <<buffers, txDMAPending, txShdw, dma, time, copied, wire, written>>
      /\ Other' = Other
  BY DEF PollShadow, Other
<1>2. txShdwValid' = (txShdwValid /\ ~Waited)
  BY DEF PollShadow
<1>3. TypeOK'
  <2>1. txShdwValid' \in BOOLEAN
    BY <1>2, Zenon
  <2>2. QED
    BY <1>1, <2>1 DEF TypeOK
<1>4. ChannelKnown' /\ ChannelSends' /\ PendingFinds' /\ CopyKnown'
  BY <1>1, <1>2 DEF ChannelKnown, OtherBufferInUse, ShadowMeansIdle, ChannelSends,
                    PendingFinds, CopyKnown
<1>5. WaitKnown'
  <2>1. Waited /\ txShdwValid => age = Oldest
    BY TimerStep, TimeAssumption DEF Waited, WaitKnown, TypeOK, Oldest
  <2>2. QED
    BY <1>1, <1>2, <2>1 DEF WaitKnown
<1>6. InOrder'
  <2>1. Pending' = Pending /\ Filled' = Filled
    BY <1>1 DEF Pending, Filled
  <2>2. QED
    BY <1>1, <2>1 DEF InOrder
<1>7. QED
  BY <1>3, <1>4, <1>5, <1>6

LEMMA PollFireKeeps == ASSUME TxInv, PollFire PROVE TxInv'
<1> USE SizeAssumption DEF TxInv, shadow
<1>1. /\ pc = "poll" /\ pc' = "idle" /\ since' = 0
      /\ txDMAPending /\ ~txShdwValid /\ txDMAPending' = FALSE
      /\ channel' = [src |-> txSel, len |-> txIdx[txSel], next |-> 1]
      /\ txSel' = Other /\ armed' = TRUE /\ irq' = FALSE
      /\ UNCHANGED <<txBuf, txIdx, shadow, ST0, age, copied, wire, written>>
  BY DEF PollFire, PollEnds
<1>2. txSel \in Buffer /\ Other \in Buffer /\ Other # txSel /\ Other' = txSel
  BY <1>1, TwoBuffers DEF Other
<1>3. txIdx[txSel] # 0 /\ ~armed /\ ~irq /\ txIdx[Other] = 0
  BY <1>1 DEF PendingFinds, ChannelKnown, OtherBufferInUse
<1>4. txIdx[txSel] \in 1 .. TxMax
  BY <1>2, <1>3 DEF TypeOK
<1>5. /\ channel'.src = txSel /\ channel'.len = txIdx[txSel] /\ channel'.next = 1
      /\ channel' \in [src : Buffer, len : 0 .. TxMax, next : 1 .. TxMax + 1]
  BY <1>1, <1>2, <1>4
<1>6. TypeOK'
  <2>1. /\ txDMAPending' \in BOOLEAN /\ txShdwValid' \in BOOLEAN
        /\ armed' \in BOOLEAN /\ irq' \in BOOLEAN
    BY <1>1 DEF TypeOK
  <2>2. /\ txBuf' = txBuf /\ txIdx' = txIdx /\ txShdw' = txShdw /\ ST0' = ST0
        /\ copied' = copied /\ wire' = wire /\ written' = written /\ age' = age
    BY <1>1
  <2>3. txSel' \in Buffer /\ pc' \in {"idle", "write", "poll"}
        /\ since' \in 0 .. LongestRound
    BY <1>1, <1>2, RoundAssumption
  <2>4. QED
    BY <1>5, <2>1, <2>2, <2>3 DEF TypeOK
<1>7. ChannelKnown' /\ ChannelSends' /\ PendingFinds' /\ CopyKnown' /\ WaitKnown'
  BY <1>1, <1>2, <1>3, <1>4, <1>5
     DEF ChannelKnown, OtherBufferInUse, ShadowMeansIdle, ChannelSends, PendingFinds,
         CopyKnown, WaitKnown
<1>8. InOrder'
  <2>1. Pending = 0 /\ Filled = txIdx[txSel] /\ Pending' = txIdx[txSel] /\ Filled' = 0
    BY <1>1, <1>2, <1>3, <1>4, <1>5 DEF Pending, Filled
  <2>2. wire \in Nat
    BY DEF TypeOK
  <2>3. \A k \in 1 .. txIdx[txSel] : txBuf[txSel][k] = wire + k
    BY <2>1, <2>2 DEF InOrder
  <2>4. \A k \in channel'.next .. channel'.len :
            txBuf'[Other'][k] = wire' + k - channel'.next + 1
    BY <1>1, <1>2, <1>4, <1>5, <2>2, <2>3
  <2>5. written' = wire' + Pending' + Filled'
    BY <1>1, <1>4, <2>1, <2>2 DEF InOrder
  <2>6. QED
    BY <2>1, <2>4, <2>5 DEF InOrder
<1>9. QED
  BY <1>6, <1>7, <1>8

LEMMA PollNothingKeeps == ASSUME TxInv, PollNothing PROVE TxInv'
<1> USE DEF TxInv, buffers, shadow, dma
<1>1. /\ pc = "poll" /\ pc' = "idle" /\ since' = 0
      /\ UNCHANGED <<buffers, txDMAPending, shadow, dma, ST0, age, copied, wire, written>>
      /\ Other' = Other
  BY DEF PollNothing, PollEnds, Other
<1>2. TypeOK'
  BY <1>1, RoundAssumption DEF TypeOK
<1>3. ChannelKnown' /\ ChannelSends' /\ PendingFinds' /\ CopyKnown' /\ WaitKnown'
  BY <1>1 DEF ChannelKnown, OtherBufferInUse, ShadowMeansIdle, ChannelSends,
              PendingFinds, CopyKnown, WaitKnown
<1>4. InOrder'
  <2>1. Pending' = Pending /\ Filled' = Filled
    BY <1>1 DEF Pending, Filled
  <2>2. QED
    BY <1>1, <2>1 DEF InOrder
<1>5. QED
  BY <1>2, <1>3, <1>4

LEMMA TickKeeps == ASSUME TxInv, Tick PROVE TxInv'
<1> USE TimeAssumption, RoundAssumption DEF TxInv, buffers, shadow, dma
<1>1. /\ since < LongestRound /\ since' = since + 1
      /\ ST0' = (ST0 + 1) % SleepTimer
      /\ age' = (IF age < Oldest THEN age + 1 ELSE age)
      /\ UNCHANGED <<buffers, txDMAPending, shadow, dma, pc, copied, wire, written>>
      /\ Other' = Other
  BY DEF Tick, Other
<1>2. ST0 \in 0 .. SleepTimer - 1 /\ txShdw \in 0 .. SleepTimer - 1
      /\ age \in 0 .. Oldest /\ Oldest \in Nat /\ SleepTimer \in Nat \ {0}
  BY DEF TypeOK, Oldest
<1>3. /\ ST0' \in 0 .. SleepTimer - 1
      /\ (ST0 - txShdw) % SleepTimer \in 0 .. SleepTimer - 1
      /\ (ST0' - txShdw) % SleepTimer
            = IF (ST0 - txShdw) % SleepTimer = SleepTimer - 1 THEN 0
              ELSE ((ST0 - txShdw) % SleepTimer) + 1
  BY <1>1, <1>2, TimerStep
<1>4. age' \in 0 .. Oldest /\ (age' = Oldest \/ age' = age + 1) /\ (age = Oldest => age' = Oldest)
  BY <1>1, <1>2
<1>5. TypeOK'
  <2>1. since' \in 0 .. LongestRound
    BY <1>1 DEF TypeOK
  <2>2. QED
    BY <1>1, <1>3, <1>4, <2>1 DEF TypeOK
<1>6. ChannelKnown' /\ ChannelSends' /\ PendingFinds' /\ CopyKnown'
  BY <1>1 DEF ChannelKnown, OtherBufferInUse, ShadowMeansIdle, ChannelSends,
              PendingFinds, CopyKnown
<1>7. WaitKnown'
  <2>1. UNCHANGED <<txShdw, txShdwValid, armed, irq>>
    BY <1>1
  <2>2. txShdwValid' => (ST0' - txShdw') % SleepTimer <= age' \/ age' = Oldest
    <3> DEFINE r == (ST0 - txShdw) % SleepTimer
               t == (ST0' - txShdw) % SleepTimer
    <3>1. txShdwValid => r <= age \/ age = Oldest
      BY DEF WaitKnown
    <3>2. /\ r \in 0 .. SleepTimer - 1
          /\ t = IF r = SleepTimer - 1 THEN 0 ELSE r + 1
      BY <1>3, Zenon
    <3>3. txShdwValid' = txShdwValid /\ txShdw' = txShdw
      BY <2>1
    <3> HIDE DEF r, t
    <3>4. txShdwValid' => t <= age' \/ age' = Oldest
      BY <1>2, <1>4, <3>1, <3>2, <3>3
    <3>5. QED
      BY <3>3, <3>4 DEF t
  <2>3. ~armed' /\ ~irq' /\ ~txShdwValid' => age' = Oldest
    BY <1>4, <2>1 DEF WaitKnown
  <2>4. Oldest' = Oldest
    BY DEF Oldest
  <2>5. QED
    BY <2>2, <2>3, <2>4 DEF WaitKnown
<1>8. InOrder'
  <2>1. Pending' = Pending /\ Filled' = Filled
    BY <1>1 DEF Pending, Filled
  <2>2. QED
    BY <1>1, <2>1 DEF InOrder
<1>9. QED
  BY <1>5, <1>6, <1>7, <1>8

LEMMA StutterKeeps == ASSUME TxInv, UNCHANGED vars PROVE TxInv'
BY DEF vars, buffers, shadow, dma, time, TxInv, TypeOK, ChannelKnown, OtherBufferInUse,
       ShadowMeansIdle, ChannelSends, PendingFinds, CopyKnown, InOrder, Filled, Pending,
       WaitKnown, Other, Oldest

\* Every state the driver reaches satisfies the invariant.
THEOREM UartIInv == Spec => []TxInv
<1>1. TxInv /\ [Next]_vars => TxInv'
  BY WriteCopyKeeps, WriteCommitKeeps, DmaByteKeeps, IsrKeeps, PollShadowKeeps,
     PollFireKeeps, PollRecoverKeeps, PollNothingKeeps, TickKeeps, StutterKeeps, Zenon
     DEF Next, Write, Poll
<1>2. QED
  BY TxInitHolds, <1>1, PTL DEF Spec

-----------------------------------------------------------------------------
(* What follows from it. *)

\* The variables stay in range: no write overruns a buffer.
THEOREM UartTypeOK == Spec => []TypeOK
<1>1. TxInv => TypeOK
  BY DEF TxInv
<1>2. QED
  BY <1>1, UartIInv, PTL

\* The index of the buffer not being filled, and the mark of the wait, say
\* truly whether the channel is in use (HalUARTWriteDMA and HalUARTPollDMA
\* rely on them).
THEOREM UartChannelKnown == Spec => []ChannelKnown
<1>1. TxInv => ChannelKnown
  BY DEF TxInv
<1>2. QED
  BY <1>1, UartIInv, PTL

\* A transfer starts a character time at least after the last byte of the one
\* before (the wait of HalUARTPollDMA), however often ST0 wraps meanwhile.
THEOREM UartDataRegisterFree == Spec => DataRegisterFree
<1>1. TxInv /\ [Next]_vars => [PollFire => age >= txTick]_vars
  <2>1. ASSUME TxInv, PollFire PROVE age >= txTick
    <3>1. ~armed /\ ~irq /\ ~txShdwValid
      BY <2>1 DEF TxInv, PendingFinds, PollFire
    <3>2. QED
      BY <2>1, <3>1, TimeAssumption DEF TxInv, WaitKnown, Oldest
  <2>2. QED
    BY <2>1
<1>2. QED
  BY <1>1, UartIInv, PTL DEF Spec, DataRegisterFree

\* Every accepted byte is sent once, in order and unchanged, whatever the
\* writers, the polls and the controller do meanwhile.
THEOREM UartNothingLost == Spec => []NothingLost
<1>1. TxInv => NothingLost
  <2> SUFFICES ASSUME TxInv PROVE NothingLost
    OBVIOUS
  <2> DEFINE S == 1 .. MaxBytes
             head == IF armed THEN SubSeq(txBuf[channel.src], channel.next, channel.len)
                     ELSE <<>>
             tail == SubSeq(txBuf[txSel], 1, Filled)
  <2>1. /\ txBuf[txSel] \in Seq(S) /\ txBuf[Other] \in Seq(S)
        /\ Filled \in 0 .. Len(txBuf[txSel]) /\ wire \in Nat /\ written \in 0 .. MaxBytes
    BY TwoBuffers, SizeAssumption DEF TxInv, TypeOK, Bytes, Filled, CopyKnown
  <2>2. /\ tail \in Seq(S) /\ Len(tail) = Filled
        /\ \A k \in 1 .. Filled : tail[k] = wire + Pending + k
    BY <2>1, Kept DEF TxInv, InOrder
  <2>3. /\ head \in Seq(S) /\ Len(head) = Pending /\ Pending \in Nat
        /\ \A k \in 1 .. Pending : head[k] = wire + k
    <3>1. CASE ~armed
      BY <3>1 DEF Pending
    <3>2. CASE armed
      <4> DEFINE b == txBuf[Other]
                 f == channel.next
                 l == channel.len
      <4>1. /\ channel.src = Other /\ l <= Len(b) /\ f <= l /\ f \in Nat \ {0} /\ l \in Nat
        BY <3>2, TwoBuffers DEF TxInv, TypeOK, ChannelSends
      <4>2. \A k \in f .. l : b[k] = wire + k - f + 1
        BY <3>2 DEF TxInv, InOrder
      <4>3. Pending = l - f + 1 /\ head = SubSeq(b, f, l) /\ b \in Seq(S)
        BY <2>1, <3>2, <4>1 DEF Pending
      <4> HIDE DEF b, f, l, head, S
      <4>4. /\ SubSeq(b, f, l) \in Seq(S) /\ Len(SubSeq(b, f, l)) = l - f + 1
            /\ \A k \in 1 .. l - f + 1 : SubSeq(b, f, l)[k] = b[f + k - 1]
        BY <4>1, <4>3
      <4>5. \A k \in 1 .. Pending : head[k] = wire + k
        BY <2>1, <4>1, <4>2, <4>3, <4>4
      <4>6. QED
        BY <4>1, <4>3, <4>4, <4>5
    <3>3. QED
      BY <3>1, <3>2
  <2>4. written = wire + Pending + Filled
    BY DEF TxInv, InOrder
  <2>5. Left = head \o tail
    BY DEF Left, Filled
  <2> HIDE DEF head, tail, S
  <2>6. /\ head \o tail \in Seq(S) /\ Len(head \o tail) = Pending + Filled
        /\ \A k \in 1 .. Pending + Filled :
              (head \o tail)[k] = IF k <= Pending THEN head[k] ELSE tail[k - Pending]
    BY <2>2, <2>3, ConcatProperties, Zenon
  <2>7. \A k \in 1 .. Pending + Filled : (head \o tail)[k] = wire + k
    BY <2>1, <2>2, <2>3, <2>6
  <2> DEFINE d == [i \in 1 .. Pending + Filled |-> wire + i]
  <2>8. /\ d \in Seq(S) /\ Len(d) = Pending + Filled
        /\ \A k \in 1 .. Pending + Filled : d[k] = wire + k
    BY <2>1, <2>2, <2>3, <2>4, SizeAssumption DEF S
  <2> HIDE DEF d
  <2>9. head \o tail = d
    BY <2>6, <2>7, <2>8, SeqEqual
  <2>10. written - wire = Pending + Filled
    BY <2>1, <2>3, <2>4
  <2>11. QED
    BY <2>5, <2>9, <2>10, Zenon DEF NothingLost, d
<1>2. QED
  BY <1>1, UartIInv, PTL

\* The transmitter is sound: in range, nothing lost between the writer, the
\* poll and the interrupt, and the use of the channel known.
THEOREM UartTxIsSound == Spec => []TxSound
<1>1. TypeOK /\ NothingLost /\ ChannelKnown => TxSound
  BY DEF TxSound
<1>2. QED
  BY <1>1, UartTypeOK, UartNothingLost, UartChannelKnown, PTL
-----------------------------------------------------------------------------
(* Reception. *)

(***************************************************************************)
(* Between HalUARTReadDMA's access to the octet and its access to the pad  *)
(* the controller may write.  What the reader holds there is the oldest    *)
(* octet still in the ring: if not, marking its place would throw away     *)
(* another.  After an overrun nothing is claimed.                          *)
(***************************************************************************)
RingTyped ==
    /\ rxBuf \in [Slot -> Nat]
    /\ dmaNext \in Slot /\ rxHead \in Slot
    /\ came \in Nat /\ got \in Nat

\* The place k places on from place h.
From(h, k) == (h + k) % RxMax

\* RingInStep, without its premise.
InTurn ==
    /\ ~misread
    /\ came - got \in 0 .. RxMax
    /\ dmaNext = From(rxHead, came - got)
    /\ \A k \in Slot : rxBuf[From(rxHead, k)] = IF k < came - got THEN got + 1 + k ELSE 0

HoldsOldest == rxPc = "mark" => taken = got + 1 /\ got < came

RxInv == ~overrun => RingTyped /\ InTurn /\ HoldsOldest

-----------------------------------------------------------------------------
(* The ring. *)

\* The places from a place on, in order: each is one of the ring, no two are
\* the same short of a round, and a round goes to every place.
LEMMA RoundTheRing ==
    ASSUME NEW h \in Slot
    PROVE  /\ From(h, 0) = h /\ From(h, RxMax) = h
           /\ \A k \in Nat : From(h, k) \in Slot
           /\ \A j, k \in Slot : From(h, j) = From(h, k) => j = k
           /\ \A i \in Slot : \E k \in Slot : From(h, k) = i
           /\ \A k \in Slot : (From(h, k) - h) % RxMax = k
<1>1. RxMax \in Nat \ {0} /\ \A k \in Slot : k \in 0 .. RxMax - 1
  BY RingAssumption DEF Slot
<1>2. \A z \in (1 - RxMax) .. (2 * RxMax - 1) :
        z % RxMax = IF z < 0 THEN z + RxMax ELSE IF z < RxMax THEN z ELSE z - RxMax
  BY <1>1
<1>3. \A k \in Nat : From(h, k) \in Slot
  BY <1>1 DEF Slot, From
<1>4. \A k \in 0 .. RxMax : From(h, k) = IF h + k < RxMax THEN h + k ELSE h + k - RxMax
  BY <1>1, <1>2 DEF From
<1>5. From(h, 0) = h /\ From(h, RxMax) = h
  BY <1>1, <1>4
<1>6. ASSUME NEW j \in Slot, NEW k \in Slot, From(h, j) = From(h, k) PROVE j = k
  BY <1>1, <1>4, <1>6
<1>7. ASSUME NEW i \in Slot PROVE \E k \in Slot : From(h, k) = i
  <2>1. (IF i < h THEN i - h + RxMax ELSE i - h) \in Slot
    BY <1>1 DEF Slot
  <2>2. From(h, IF i < h THEN i - h + RxMax ELSE i - h) = i
    BY <1>1, <1>4
  <2>3. QED
    BY <2>1, <2>2
<1>8. ASSUME NEW k \in Slot PROVE (From(h, k) - h) % RxMax = k
  BY <1>1, <1>2, <1>4
<1>9. QED
  BY <1>3, <1>5, <1>6, <1>7, <1>8

\* One place on, and one from there.
LEMMA OnePlaceOn ==
    ASSUME NEW h \in Slot, NEW k \in Slot
    PROVE  /\ Next1(h) \in Slot
           /\ From(Next1(h), k) = From(h, k + 1)
           /\ Next1(From(h, k)) = From(h, k + 1)
<1>1. RxMax \in Nat \ {0}
  BY RingAssumption
<1>2. \A z \in 0 .. (2 * RxMax - 1) : z % RxMax = IF z < RxMax THEN z ELSE z - RxMax
  BY <1>1
<1>3. Next1(h) \in Slot /\ From(h, k) \in Slot
  BY <1>1 DEF Slot, Next1, From
<1>4. From(Next1(h), k) = From(h, k + 1)
  BY <1>1, <1>2, <1>3 DEF Slot, Next1, From
<1>5. Next1(From(h, k)) = From(h, k + 1)
  BY <1>1, <1>2, <1>3 DEF Slot, Next1, From
<1>6. QED
  BY <1>3, <1>4, <1>5

\* What a ring in step looks like to the reader: new are the places of the
\* octets that wait and no others.
LEMMA NewAhead ==
    ASSUME RingTyped, InTurn
    PROVE  /\ came - got \in 0 .. RxMax
           /\ \A k \in Slot : rxBuf[From(rxHead, k)] # 0 <=> k < came - got
           /\ (\A i \in Slot : rxBuf[i] # 0) <=> came - got = RxMax
<1>1. /\ came - got \in 0 .. RxMax
      /\ \A k \in Slot : rxBuf[From(rxHead, k)] = IF k < came - got THEN got + 1 + k ELSE 0
  BY DEF InTurn
<1>2. \A k \in Slot : rxBuf[From(rxHead, k)] # 0 <=> k < came - got
  BY <1>1 DEF RingTyped, Slot
<1>3. \A k \in Slot : k \in Nat /\ k < RxMax
  BY RingAssumption DEF Slot
<1>4. came - got < RxMax => came - got \in Slot
  BY <1>1, RingAssumption DEF Slot
<1>5. (\A i \in Slot : rxBuf[i] # 0) <=> \A k \in Slot : rxBuf[From(rxHead, k)] # 0
  <2>1. rxHead \in Slot
    BY DEF RingTyped
  <2>2. /\ \A k \in Slot : From(rxHead, k) \in Slot
        /\ \A i \in Slot : \E k \in Slot : From(rxHead, k) = i
    BY <1>3, <2>1, RoundTheRing
  <2>3. QED
    BY <2>2
<1>6. (\A k \in Slot : k < came - got) <=> came - got = RxMax
  BY <1>1, <1>3, <1>4, RingAssumption
<1>7. QED
  BY <1>1, <1>2, <1>5, <1>6

\* findTail finds the place where the controller writes next.
LEMMA TailFound ==
    ASSUME RingTyped, InTurn, came - got < RxMax
    PROVE  findTail = From(rxHead, came - got)
<1> DEFINE First(k) == /\ ~HAL_UART_DMA_NEW_RX_BYTE(From(rxHead, k))
                       /\ \A j \in 0 .. k - 1 : HAL_UART_DMA_NEW_RX_BYTE(From(rxHead, j))
<1>1. came - got \in Slot
  BY NewAhead, RingAssumption DEF Slot
<1>2. \A k \in Slot : HAL_UART_DMA_NEW_RX_BYTE(From(rxHead, k)) <=> k < came - got
  BY NewAhead DEF HAL_UART_DMA_NEW_RX_BYTE
<1>3. ASSUME NEW k \in Slot PROVE First(k) <=> k = came - got
  <2>1. \A j \in 0 .. k - 1 : j \in Slot
    BY RingAssumption DEF Slot
  <2>2. First(k) <=> ~ (k < came - got) /\ \A j \in 0 .. k - 1 : j < came - got
    BY <1>2, <2>1
  <2> HIDE DEF First
  <2>3. k > came - got => came - got \in 0 .. k - 1
    BY <1>1 DEF Slot
  <2>4. QED
    BY <1>1, <2>2, <2>3 DEF Slot
<1>4. (CHOOSE k \in Slot : First(k)) = came - got
  <2> HIDE DEF First
  <2>1. QED
    BY <1>1, <1>3
<1>5. ~ \A i \in Slot : HAL_UART_DMA_NEW_RX_BYTE(i)
  BY NewAhead DEF HAL_UART_DMA_NEW_RX_BYTE
<1>6. QED
  BY <1>4, <1>5 DEF findTail, Ahead, From

-----------------------------------------------------------------------------
(* The invariant holds at the start, and every action keeps it. *)

LEMMA RxInitHolds == ASSUME RxInit PROVE RxInv
<1>1. /\ 0 \in Slot /\ From(0, 0) = 0 /\ 0 \in 0 .. RxMax
      /\ \A k \in Slot : From(0, k) \in Slot /\ ~ (k < 0)
  <2>1. 0 \in Slot /\ 0 \in 0 .. RxMax /\ \A k \in Slot : k \in Nat /\ ~ (k < 0)
    BY RingAssumption DEF Slot
  <2>2. QED
    BY <2>1, RoundTheRing
<1>2. RingTyped
  BY <1>1 DEF RxInit, RingTyped
<1>3. InTurn
  BY <1>1 DEF RxInit, InTurn
<1>4. QED
  BY <1>2, <1>3 DEF RxInit, RxInv, HoldsOldest

\* The controller writes behind the last octet.
LEMMA DmaOctetKeeps == ASSUME RxInv, DmaOctet PROVE RxInv'
<1>1. SUFFICES ASSUME ~overrun' PROVE (RingTyped /\ InTurn /\ HoldsOldest)'
  BY DEF RxInv
<1>2. /\ ~overrun /\ rxBuf[dmaNext] = 0
      /\ rxBuf' = [rxBuf EXCEPT ![dmaNext] = came + 1] /\ dmaNext' = Next1(dmaNext)
      /\ came' = came + 1
      /\ UNCHANGED <<rxHead, got, misread, rxPc, taken>>
  BY <1>1 DEF DmaOctet, HAL_UART_DMA_NEW_RX_BYTE
<1>3. RingTyped /\ InTurn /\ HoldsOldest
  BY <1>2 DEF RxInv
<1> DEFINE n == came - got
<1>4. n \in Slot /\ dmaNext = From(rxHead, n)
  <2>1. n \in 0 .. RxMax /\ dmaNext = From(rxHead, n) /\ ~misread
    BY <1>2, <1>3 DEF InTurn
  <2>2. n # RxMax
    BY <1>2, <1>3, NewAhead DEF RingTyped
  <2>3. QED
    BY <2>1, <2>2, RingAssumption DEF Slot
<1>5. dmaNext' = From(rxHead, n + 1) /\ dmaNext' \in Slot
  BY <1>2, <1>3, <1>4, OnePlaceOn DEF RingTyped
<1>6. RingTyped'
  BY <1>2, <1>3, <1>5 DEF RingTyped
<1>7. ASSUME NEW k \in Slot
      PROVE  rxBuf'[From(rxHead, k)] = IF k < n + 1 THEN got + 1 + k ELSE 0
  <2>1. From(rxHead, k) \in Slot /\ (From(rxHead, k) = dmaNext => k = n)
    BY <1>3, <1>4, RoundTheRing DEF RingTyped, Slot
  <2>2. rxBuf[From(rxHead, k)] = IF k < n THEN got + 1 + k ELSE 0
    BY <1>2, <1>3 DEF InTurn
  <2>3. CASE k = n
    BY <1>2, <1>3, <1>4, <2>3 DEF RingTyped
  <2>4. CASE k # n
    BY <1>2, <1>3, <1>4, <2>1, <2>2, <2>4 DEF RingTyped, Slot
  <2>5. QED
    BY <2>3, <2>4
<1>8. InTurn'
  <2>1. came' - got' = n + 1 /\ n + 1 \in 0 .. RxMax
    BY <1>2, <1>3, <1>4, RingAssumption DEF RingTyped, Slot
  <2>2. ~misread'
    BY <1>2, <1>3 DEF InTurn
  <2>3. \A k \in Slot : From(rxHead', k) = From(rxHead, k)
    BY <1>2
  <2> HIDE DEF n
  <2>4. QED
    BY <1>2, <1>5, <1>7, <2>1, <2>2, <2>3 DEF InTurn
<1>9. HoldsOldest'
  BY <1>2, <1>3 DEF HoldsOldest, RingTyped
<1>10. QED
  BY <1>6, <1>8, <1>9

\* The reader gets the oldest octet ...
LEMMA ReadGetKeeps == ASSUME RxInv, ReadGet PROVE RxInv'
<1>1. SUFFICES ASSUME ~overrun PROVE (RingTyped /\ InTurn /\ HoldsOldest)'
  BY DEF RxInv, ReadGet, ring
<1>2. RingTyped /\ InTurn
  BY <1>1 DEF RxInv
<1>3. /\ UNCHANGED <<rxBuf, dmaNext, came, overrun, rxHead, got, misread>>
      /\ rxBuf[rxHead] # 0 /\ taken' = rxBuf[rxHead]
  BY DEF ReadGet, ring, HAL_UART_DMA_NEW_RX_BYTE
<1>4. 0 \in Slot /\ From(rxHead, 0) = rxHead
  BY <1>2, RoundTheRing, RingAssumption DEF RingTyped, Slot
<1>5. rxBuf[rxHead] = got + 1 /\ 0 < came - got
  BY <1>1, <1>2, <1>3, <1>4 DEF InTurn, RingTyped
<1>6. QED
  BY <1>2, <1>3, <1>5 DEF RingTyped, InTurn, HoldsOldest

\* ... and marks its place, whatever has come between.
LEMMA ReadMarkKeeps == ASSUME RxInv, ReadMark PROVE RxInv'
<1>1. SUFFICES ASSUME ~overrun PROVE (RingTyped /\ InTurn /\ HoldsOldest)'
  BY DEF RxInv, ReadMark
<1>2. RingTyped /\ InTurn /\ taken = got + 1 /\ got < came
  BY <1>1 DEF RxInv, HoldsOldest, ReadMark
<1>3. /\ rxBuf' = [rxBuf EXCEPT ![rxHead] = 0] /\ rxHead' = Next1(rxHead) /\ got' = got + 1
      /\ misread' = (misread \/ taken # got + 1)
      /\ UNCHANGED <<dmaNext, came>> /\ rxPc' = "callback"
  BY DEF ReadMark, Advance
<1> DEFINE n == came - got
<1>4. /\ RxMax \in Nat \ {0}
      /\ n \in 0 .. RxMax /\ n > 0 /\ n - 1 \in Slot /\ 0 \in Slot /\ RxMax - 1 \in Slot
      /\ came' - got' = n - 1
  BY <1>1, <1>2, <1>3, RingAssumption DEF InTurn, RingTyped, Slot
<1>5. \A k \in Slot : From(rxHead', k) = From(rxHead, k + 1)
  BY <1>2, <1>3, OnePlaceOn DEF RingTyped
<1>6. RingTyped'
  BY <1>2, <1>3, OnePlaceOn DEF RingTyped
<1>7. ASSUME NEW k \in Slot
      PROVE  rxBuf'[From(rxHead, k + 1)] = IF k < n - 1 THEN got + 1 + 1 + k ELSE 0
  <2>1. CASE k = RxMax - 1
    <3>1. From(rxHead, k + 1) = rxHead
      BY <1>2, <1>4, <2>1, RoundTheRing DEF RingTyped
    <3>2. ~ (k < n - 1)
      BY <1>4, <2>1
    <3>3. QED
      BY <1>2, <1>3, <3>1, <3>2 DEF RingTyped
  <2>2. CASE k # RxMax - 1
    <3>1. k + 1 \in Slot /\ k + 1 # 0 /\ k + 1 \in Nat
      BY <1>4, <2>2 DEF Slot
    <3>2. From(rxHead, k + 1) \in Slot /\ From(rxHead, k + 1) # rxHead
      <4>1. rxHead \in Slot
        BY <1>2 DEF RingTyped
      <4>2. QED
        BY <1>4, <3>1, <4>1, RoundTheRing
    <3>3. rxBuf'[From(rxHead, k + 1)] = rxBuf[From(rxHead, k + 1)]
      BY <1>2, <1>3, <3>2 DEF RingTyped
    <3>4. rxBuf[From(rxHead, k + 1)] = IF k + 1 < n THEN got + 1 + (k + 1) ELSE 0
      BY <1>1, <1>2, <3>1 DEF InTurn
    <3>5. QED
      BY <1>2, <1>4, <3>3, <3>4 DEF RingTyped, Slot
  <2>3. QED
    BY <2>1, <2>2
<1>8. dmaNext' = From(rxHead', n - 1)
  <2>1. dmaNext = From(rxHead, n)
    BY <1>1, <1>2 DEF InTurn
  <2>2. From(rxHead', n - 1) = From(rxHead, n - 1 + 1) /\ n - 1 + 1 = n
    BY <1>3, <1>4, <1>2, OnePlaceOn DEF RingTyped
  <2>3. QED
    BY <1>3, <2>1, <2>2
<1>9. InTurn'
  <2>1. ~misread'
    BY <1>1, <1>2, <1>3 DEF InTurn
  <2>2. n - 1 \in 0 .. RxMax
    BY <1>4
  <2> HIDE DEF n
  <2>3. QED
    BY <1>3, <1>4, <1>5, <1>7, <1>8, <2>1, <2>2 DEF InTurn
<1>10. QED
  BY <1>3, <1>6, <1>9 DEF HoldsOldest

\* Throwing away what is there leaves an empty ring, full as it may have been.
LEMMA ClearKeeps == ASSUME RxInv, HalUARTclerDMA PROVE RxInv'
<1>1. SUFFICES ASSUME ~overrun PROVE (RingTyped /\ InTurn /\ HoldsOldest)'
  BY DEF RxInv, HalUARTclerDMA
<1>2. RingTyped /\ InTurn
  BY <1>1 DEF RxInv
<1> DEFINE full == \A i \in Slot : rxBuf[i] # 0
           n == came - got
           cleared == {From(rxHead, k) : k \in 0 .. n - 1}
<1>3. /\ n \in 0 .. RxMax /\ RxMax \in Nat \ {0}
      /\ \A k \in Slot : rxBuf[From(rxHead, k)] # 0 <=> k < n
      /\ full <=> n = RxMax
  BY <1>1, <1>2, NewAhead, RingAssumption
<1>4. n = IF full THEN RxMax ELSE (findTail - rxHead) % RxMax
  <2>1. CASE n = RxMax
    BY <1>3, <2>1
  <2>2. CASE n # RxMax
    <3>1. n \in Slot /\ findTail = From(rxHead, n)
      BY <1>1, <1>2, <1>3, <2>2, TailFound DEF Slot
    <3>2. (From(rxHead, n) - rxHead) % RxMax = n
      BY <1>2, <3>1, RoundTheRing DEF RingTyped
    <3>3. QED
      BY <1>3, <2>2, <3>1, <3>2
  <2>3. QED
    BY <2>1, <2>2
<1>5. /\ rxBuf' = [i \in Slot |-> IF i \in cleared THEN 0 ELSE rxBuf[i]]
      /\ rxHead' = From(rxHead, n) /\ got' = got + n
      /\ UNCHANGED <<dmaNext, came, misread, rxPc>> /\ rxPc = "callback"
  BY <1>4 DEF HalUARTclerDMA, Ahead, From
<1>6. \A i \in Slot : rxBuf'[i] = 0
  <2>1. ASSUME NEW i \in Slot PROVE i \in cleared \/ rxBuf[i] = 0
    <3>1. PICK k \in Slot : i = From(rxHead, k)
      BY <1>2, RoundTheRing DEF RingTyped
    <3>2. CASE k < n
      <4>1. k \in 0 .. n - 1
        BY <1>3, <3>2 DEF Slot
      <4>2. QED
        BY <3>1, <4>1
    <3>3. CASE ~ (k < n)
      BY <1>3, <3>1, <3>3
    <3>4. QED
      BY <3>2, <3>3
  <2> HIDE DEF cleared
  <2>2. QED
    BY <1>5, <2>1
<1>7. rxHead' \in Slot /\ \A k \in Slot : From(rxHead', k) \in Slot
  <2>1. From(rxHead, n) \in Slot
    BY <1>2, <1>3, RoundTheRing DEF RingTyped
  <2>2. \A k \in Slot : k \in Nat
    BY <1>3 DEF Slot
  <2>3. QED
    BY <1>5, <2>1, <2>2, RoundTheRing
<1>8. RingTyped'
  <2>1. rxBuf' \in [Slot -> Nat]
    BY <1>5, <1>6
  <2>2. got' \in Nat
    BY <1>2, <1>3, <1>5 DEF RingTyped
  <2>3. QED
    BY <1>2, <1>5, <1>7, <2>1, <2>2 DEF RingTyped
<1>9. InTurn'
  <2>1. came' - got' = 0 /\ ~misread' /\ dmaNext' = rxHead'
    BY <1>1, <1>2, <1>5 DEF RingTyped, InTurn
  <2>2. From(rxHead', 0) = rxHead'
    BY <1>7, RoundTheRing
  <2>3. 0 \in 0 .. RxMax /\ \A k \in Slot : ~ (k < 0)
    BY <1>3 DEF Slot
  <2>4. QED
    BY <1>6, <1>7, <2>1, <2>2, <2>3 DEF InTurn
<1>10. QED
  BY <1>5, <1>8, <1>9 DEF HoldsOldest

\* The rest leaves the ring and the reader alone, and takes no octet.
LEMMA OthersKeep ==
    ASSUME RxInv, \/ RxTick \/ PollTail \/ PollCount \/ CallbackReturns
                 \/ UNCHANGED rxVars
    PROVE  RxInv'
<1>1. /\ UNCHANGED <<rxBuf, dmaNext, came, overrun, rxHead, got, misread, taken>>
      /\ rxPc' = "mark" => rxPc = "mark"
  BY DEF RxTick, PollTail, PollCount, CallbackReturns, rxVars, ring, timing
<1>2. QED
  BY <1>1 DEF RxInv, RingTyped, InTurn, HoldsOldest

-----------------------------------------------------------------------------
(* The theorem. *)

\* Until an octet is written over one not read, every octet is read or thrown
\* away in its turn, and reader and controller agree on where the next one
\* goes (HalUARTReadDMA, HalUARTclerDMA, findTail), wherever the controller
\* writes between their accesses.
THEOREM RingStaysInStep == RxSpec => []RingInStep
<1>1. ASSUME RxInv, [RxNext]_rxVars PROVE RxInv'
  BY <1>1, DmaOctetKeeps, ReadGetKeeps, ReadMarkKeeps, ClearKeeps, OthersKeep DEF RxNext, Driver
<1>2. RxInv => RingInStep
  BY DEF RxInv, InTurn, RingInStep, Ahead, From
<1>3. QED
  BY RxInitHolds, <1>1, <1>2, PTL DEF RxSpec

-----------------------------------------------------------------------------
(* Power: the inductive invariant. *)

(***************************************************************************)
(* What halSleepPconValue carries from the place where the loop allows     *)
(* sleep to the place where PCON is written: as long as no interrupt has   *)
(* cleared it, no task that the loop has looked at has an event, and the   *)
(* timeout it goes by is no longer than any that runs.  The masks of the   *)
(* power mode keep events away without it.                                 *)
(***************************************************************************)
LookedAt ==
    /\ powerPc = "app" => idx = 0
    /\ powerPc = "scan" /\ halSleepPconValue => \A t \in Task : t < idx => t \notin tasksEvents
    /\ powerPc \in {"conserve", "halSleep"} /\ halSleepPconValue => tasksEvents = {}
    /\ powerPc \in {"pmWindow", "pm", "pmExit"} => tasksEvents = {}

InTime ==
    /\ powerPc = "halSleep" /\ halSleepPconValue =>
          \A tm \in Timer : timeout[tm] > 0 => next > 0 /\ next <= timeout[tm]
    /\ powerPc = "pmWindow" /\ halSleepPconValue =>
          \A tm \in Timer : timeout[tm] > 0 => alarmOn /\ alarm <= timeout[tm]

PowerInv == PowerTypeOK /\ LookedAt /\ InTime

-----------------------------------------------------------------------------
(* The lowest timeout. *)

\* There is a lowest of some timeouts.
LEMMA LowestTimeout ==
    ASSUME NEW n \in Nat, NEW S \in SUBSET (0 .. n), S # {}
    PROVE  \E x \in S : \A y \in S : x <= y
<1> DEFINE T == {0 .. x : x \in S}
<1>1. T \subseteq FiniteSubsetsOf(0 .. n) /\ T # {}
  <2>1. ASSUME NEW x \in S PROVE 0 .. x \subseteq 0 .. n /\ IsFiniteSet(0 .. x)
    BY FS_Interval
  <2>2. QED
    BY <2>1 DEF FiniteSubsetsOf
<1>2. PICK t \in T : \A u \in T : ~ (<<u, t>> \in StrictSubsetOrdering(0 .. n))
  <2> HIDE DEF T
  <2>1. QED
    BY <1>1, FS_StrictSubsetOrderingWellFounded, WFMin
<1>3. PICK x \in S : t = 0 .. x
  BY <1>2
<1>4. ASSUME NEW y \in S PROVE x <= y
  <2>1. 0 .. y \in T /\ 0 .. y \subseteq 0 .. n /\ 0 .. x \subseteq 0 .. n
    OBVIOUS
  <2>2. ~ (0 .. y \subseteq 0 .. x /\ 0 .. y # 0 .. x)
    BY <1>2, <1>3, <2>1 DEF StrictSubsetOrdering
  <2>3. x \in Nat /\ y \in Nat
    OBVIOUS
  <2>4. QED
    BY <2>2, <2>3
<1>5. QED
  BY <1>4

\* osal_next_timeout is a timeout, and no running timer's is below it.
LEMMA NextTimeoutIsFirst ==
    ASSUME PowerTypeOK
    PROVE  /\ osal_next_timeout \in 0 .. MaxTimeout
           /\ \A tm \in Timer : timeout[tm] > 0 =>
                 osal_next_timeout > 0 /\ osal_next_timeout <= timeout[tm]
<1>1. /\ Running \subseteq 0 .. MaxTimeout /\ 0 \notin Running /\ MaxTimeout \in Nat
      /\ \A tm \in Timer : timeout[tm] > 0 => timeout[tm] \in Running
  BY TimesAssumption DEF Running, PowerTypeOK
<1>2. CASE Running = {}
  BY <1>1, <1>2 DEF osal_next_timeout
<1>3. CASE Running # {}
  <2>1. \E x \in Running : \A y \in Running : x <= y
    BY <1>1, <1>3, LowestTimeout
  <2>2. osal_next_timeout \in Running /\ \A u \in Running : osal_next_timeout <= u
    BY <1>3, <2>1 DEF osal_next_timeout
  <2>3. osal_next_timeout \in 0 .. MaxTimeout /\ osal_next_timeout # 0
    BY <1>1, <2>2
  <2>4. osal_next_timeout > 0
    BY <1>1, <2>3
  <2>5. QED
    BY <1>1, <2>2, <2>3, <2>4
<1>4. QED
  BY <1>2, <1>3

-----------------------------------------------------------------------------
(* Types. *)

LEMMA PowerInitTypeOK == ASSUME PowerInit PROVE PowerTypeOK
<1>1. 0 \in Task /\ 0 \in 0 .. MaxTimeout /\ 0 \in 0 .. Longest /\ MaxStimuli \in 0 .. MaxStimuli
  BY TasksAssumption, TimesAssumption DEF Task, Longest
<1>2. QED
  BY <1>1 DEF PowerInit, PowerTypeOK, Waypoints

LEMMA PowerLoopTypeOK == ASSUME PowerTypeOK, Loop PROVE PowerTypeOK'
<1> USE TasksAssumption, TimersAssumption, TimesAssumption DEF PowerTypeOK, Waypoints, sleepTimer
<1>1. CASE Update
  <2>1. timeout' \in [Timer -> 0 .. MaxTimeout]
    <3>1. \A tm \in Timer : (IF timeout[tm] > lag THEN timeout[tm] - lag ELSE 0) \in 0 .. MaxTimeout
      BY DEF Longest
    <3>2. QED
      BY <1>1, <3>1 DEF Update
  <2>2. tasksEvents' \in SUBSET Task
    BY <1>1 DEF Update, Expiring
  <2>3. lag' \in 0 .. Longest
    BY <1>1 DEF Update, Longest
  <2>4. QED
    BY <1>1, <2>1, <2>2, <2>3 DEF Update
<1>2. CASE AllowSleep
  BY <1>2 DEF AllowSleep, Task
<1>3. CASE GenericAppEndDeviceEB
  BY <1>3 DEF GenericAppEndDeviceEB, Raise, Stimulus
<1>4. CASE Scan
  BY <1>4 DEF Scan, Task
<1>5. CASE Run
  <2>1. tasksEvents' \in SUBSET Task /\ stimuli' \in 0 .. MaxStimuli
    BY <1>5 DEF Run, Raise, Stimulus
  <2>2. pwrmgr_task_state' \in SUBSET Task
    BY <1>5 DEF Run
  <2>3. QED
    BY <1>5, <2>1, <2>2 DEF Run
<1>6. CASE PowerConserve
  <2>1. next' \in 0 .. MaxTimeout
    BY <1>6, NextTimeoutIsFirst DEF PowerConserve
  <2>2. QED
    BY <1>6, <2>1 DEF PowerConserve
<1>7. ASSUME NEW m \in 0 .. MaxTimeout, SetAlarm(Lesser(next, m))
      PROVE  alarm' \in 0 .. MaxTimeout /\ alarmOn' \in BOOLEAN
  BY <1>7 DEF SetAlarm, Lesser
<1>8. CASE EnterPowerMode
  <2>1. alarm' \in 0 .. MaxTimeout /\ alarmOn' \in BOOLEAN
    BY <1>7, <1>8 DEF EnterPowerMode
  <2>2. QED
    BY <1>8, <2>1 DEF EnterPowerMode
<1>9. CASE NoSleep
  BY <1>9 DEF NoSleep
<1>10. CASE EnterIdleMode
  <2>1. alarm' \in 0 .. MaxTimeout /\ alarmOn' \in BOOLEAN
    BY <1>7, <1>10 DEF EnterIdleMode
  <2>2. QED
    BY <1>10, <2>1 DEF EnterIdleMode
<1>11. CASE SetPowerMode
  BY <1>11 DEF SetPowerMode
<1>12. CASE LeavePowerMode
  BY <1>12 DEF LeavePowerMode
<1>13. QED
  BY <1>1, <1>2, <1>3, <1>4, <1>5, <1>6, <1>8, <1>9, <1>10, <1>11, <1>12 DEF Loop

LEMMA PowerOthersTypeOK == ASSUME PowerTypeOK, Isr \/ PowerTick PROVE PowerTypeOK'
<1> USE TimersAssumption, TimesAssumption DEF PowerTypeOK, Waypoints, sleepTimer
<1>1. CASE halKeyPort0Isr
  <2>1. timeout' \in [Timer -> 0 .. MaxTimeout]
    BY <1>1 DEF halKeyPort0Isr
  <2>2. stimuli' \in 0 .. MaxStimuli /\ powerPc' \in Waypoints
    BY <1>1 DEF halKeyPort0Isr, Stimulus, WakeUp
  <2>3. QED
    BY <1>1, <2>1, <2>2 DEF halKeyPort0Isr
<1>2. CASE MacIsr
  <2>1. stimuli' \in 0 .. MaxStimuli /\ powerPc' \in Waypoints
    BY <1>2 DEF MacIsr, Raise, Stimulus, WakeUp
  <2>2. tasksEvents' \in SUBSET Task
    BY <1>2 DEF MacIsr, Raise
  <2>3. QED
    BY <1>2, <2>1, <2>2 DEF MacIsr
<1>3. CASE Rollover \/ halSleepTimerIsr
  BY <1>3 DEF Rollover, halSleepTimerIsr, WakeUp
<1>4. CASE PowerTick
  BY <1>4 DEF PowerTick, Longest
<1>5. QED
  BY <1>1, <1>2, <1>3, <1>4 DEF Isr

-----------------------------------------------------------------------------
(* What the loop has looked at. *)

LEMMA PowerLoopKeeps == ASSUME PowerInv, Loop PROVE LookedAt' /\ InTime'
<1> USE DEF PowerInv, sleepTimer
<1>1. CASE Update \/ AllowSleep \/ GenericAppEndDeviceEB \/ Run
  <2>1. powerPc' \in {"poll", "app", "scan", "update"}
    BY <1>1 DEF Update, AllowSleep, GenericAppEndDeviceEB, Run
  <2>2. /\ powerPc' = "app" => idx' = 0
        /\ powerPc' = "scan" => powerPc = "app" /\ idx' = idx
    BY <1>1 DEF Update, AllowSleep, GenericAppEndDeviceEB, Run
  <2>3. powerPc' \in {"app", "scan"} => idx' = 0
    BY <2>2 DEF LookedAt
  <2>4. \A t \in Task : ~ (t < 0)
    BY DEF Task
  <2>5. QED
    BY <2>1, <2>3, <2>4 DEF LookedAt, InTime
<1>2. CASE Scan
  <2>1. powerPc' = "scan" => LookedAt'
    <3>1. /\ tasksCnt \in Nat \ {0} /\ idx \in 0 .. tasksCnt - 1
          /\ tasksEvents' = tasksEvents /\ halSleepPconValue' = halSleepPconValue /\ powerPc = "scan"
      BY <1>2, TasksAssumption DEF Scan, PowerTypeOK, Task
    <3>2. SUFFICES ASSUME powerPc' = "scan" PROVE LookedAt'
      OBVIOUS
    <3>3. idx' = idx + 1 /\ idx \notin tasksEvents
      BY <1>2, <3>2 DEF Scan
    <3>4. ASSUME NEW t \in Task, t < idx + 1, halSleepPconValue PROVE t \notin tasksEvents
      <4>1. t < idx \/ t = idx
        BY <3>1, <3>4 DEF Task
      <4>2. QED
        BY <3>1, <3>3, <3>4, <4>1 DEF LookedAt
    <3>5. QED
      BY <3>1, <3>2, <3>3, <3>4 DEF LookedAt
  <2>2. powerPc' = "conserve" => LookedAt'
    <3>1. SUFFICES ASSUME powerPc' = "conserve", halSleepPconValue PROVE tasksEvents = {}
      BY <1>2 DEF Scan, LookedAt
    <3>2. /\ idx \notin tasksEvents /\ idx + 1 = tasksCnt
          /\ \A t \in Task : t < idx => t \notin tasksEvents
      BY <1>2, <3>1 DEF Scan, LookedAt
    <3>3. \A t \in Task : t < idx \/ t = idx
      BY <3>2, TasksAssumption DEF PowerTypeOK, Task
    <3>4. QED
      BY <3>2, <3>3 DEF PowerTypeOK
  <2>3. powerPc' = "run" => LookedAt'
    BY DEF LookedAt
  <2>4. InTime' /\ powerPc' \in {"scan", "conserve", "run"}
    BY <1>2 DEF Scan, InTime
  <2>5. QED
    BY <2>1, <2>2, <2>3, <2>4
<1>3. CASE PowerConserve
  <2>1. LookedAt'
    BY <1>3 DEF PowerConserve, LookedAt
  <2>2. InTime'
    BY <1>3, NextTimeoutIsFirst DEF PowerConserve, InTime
  <2>3. QED
    BY <2>1, <2>2
<1>4. CASE EnterPowerMode
  <2>1. /\ powerPc = "halSleep" /\ powerPc' = "pmWindow" /\ halSleepPconValue
        /\ tasksEvents' = tasksEvents /\ timeout' = timeout
    BY <1>4 DEF EnterPowerMode, Forbidden
  <2>2. LookedAt'
    BY <2>1 DEF LookedAt
  <2>3. ASSUME NEW tm \in Timer, timeout[tm] > 0 PROVE alarmOn' /\ alarm' <= timeout[tm]
    <3>1. PICK m \in 0 .. MaxTimeout : SetAlarm(Lesser(next, m))
      BY <1>4 DEF EnterPowerMode
    <3>2. next > 0 /\ next <= timeout[tm]
      BY <2>1, <2>3 DEF InTime
    <3>3. Lesser(next, m) # 0 /\ Lesser(next, m) <= timeout[tm]
      BY <3>2, TimesAssumption DEF Lesser, PowerTypeOK
    <3>4. QED
      BY <3>1, <3>3 DEF SetAlarm
  <2>4. InTime'
    BY <2>1, <2>3 DEF InTime
  <2>5. QED
    BY <2>2, <2>4
<1>5. CASE NoSleep \/ EnterIdleMode
  <2>1. powerPc' \in {"wake", "idleWindow"}
    BY <1>5 DEF NoSleep, EnterIdleMode
  <2>2. QED
    BY <2>1 DEF LookedAt, InTime
<1>6. CASE SetPowerMode \/ LeavePowerMode
  <2>1. /\ powerPc' \in {"pm", "pmExit", "idle", "wake"} /\ tasksEvents' = tasksEvents
        /\ powerPc' \in {"pm", "pmExit"} => powerPc = "pmWindow"
    BY <1>6 DEF SetPowerMode, LeavePowerMode
  <2>2. QED
    BY <2>1 DEF LookedAt, InTime
<1>7. QED
  BY <1>1, <1>2, <1>3, <1>4, <1>5, <1>6 DEF Loop

\* An interrupt clears halSleepPconValue, and nothing is claimed but what the
\* masks see to.
LEMMA PowerOthersKeep == ASSUME PowerInv, Isr \/ PowerTick PROVE LookedAt' /\ InTime'
<1> USE DEF PowerInv, sleepTimer
<1>1. CASE halKeyPort0Isr \/ halSleepTimerIsr
  <2>1. /\ halSleepPconValue' = FALSE /\ tasksEvents' = tasksEvents
        /\ powerPc' \in {"pmWindow", "pm", "pmExit"} => powerPc \in {"pmWindow", "pm", "pmExit"}
        /\ powerPc' = "app" => powerPc = "app" /\ idx' = idx
    BY <1>1 DEF halKeyPort0Isr, halSleepTimerIsr, WakeUp
  <2>2. QED
    BY <2>1 DEF LookedAt, InTime
<1>2. CASE MacIsr \/ Rollover
  <2>1. /\ halSleepPconValue' = FALSE /\ powerPc' \notin {"pmWindow", "pm", "pmExit"}
        /\ powerPc' = "app" => powerPc = "app" /\ idx' = idx
    BY <1>2 DEF MacIsr, Rollover, WakeUp
  <2>2. QED
    BY <2>1 DEF LookedAt, InTime
<1>3. CASE PowerTick
  <2>1. /\ UNCHANGED <<powerPc, idx, tasksEvents, timeout, halSleepPconValue, next, alarmOn>>
        /\ alarm' <= alarm
    BY <1>3 DEF PowerTick, PowerTypeOK
  <2>2. LookedAt'
    BY <2>1 DEF LookedAt
  <2>3. \A tm \in Timer : alarm <= timeout[tm] => alarm' <= timeout[tm]
    BY <1>3, <2>1, TimesAssumption DEF PowerTick, PowerTypeOK
  <2>4. QED
    BY <2>1, <2>2, <2>3 DEF InTime
<1>4. QED
  BY <1>1, <1>2, <1>3 DEF Isr

-----------------------------------------------------------------------------
(* The theorems. *)

\* The types, and what halSleepPconValue carries, hold for ever.
THEOREM PowerIInvariant == PowerSpec => []PowerInv
<1>1. PowerInit => PowerInv
  <2>1. PowerInit => LookedAt /\ InTime
    BY DEF PowerInit, LookedAt, InTime
  <2>2. QED
    BY <2>1, PowerInitTypeOK DEF PowerInv
<1>2. ASSUME PowerInv, [PowerNext]_powerVars PROVE PowerInv'
  <2>1. CASE Loop
    BY <1>2, <2>1, PowerLoopTypeOK, PowerLoopKeeps DEF PowerInv
  <2>2. CASE Isr \/ PowerTick
    BY <1>2, <2>2, PowerOthersTypeOK, PowerOthersKeep DEF PowerInv
  <2>3. CASE UNCHANGED powerVars
    BY <1>2, <2>3 DEF powerVars, sleepTimer, PowerInv, PowerTypeOK, LookedAt, InTime
  <2>4. QED
    BY <1>2, <2>1, <2>2, <2>3 DEF PowerNext
<1>3. QED
  BY <1>1, <1>2, PTL DEF PowerSpec

\* The processor is never in a power mode while an event waits, whenever the
\* interrupts come (OSAL.c, OSAL_PwrMgr.c, hal_sleep.c), and every reachable
\* state is well typed.
THEOREM PowerIsSound == PowerSpec => []PowerSound
<1>1. PowerInv => PowerSound
  BY DEF PowerInv, LookedAt, PowerSound, NoSleepOnEvent
<1>2. QED
  BY PowerIInvariant, <1>1, PTL

\* A power mode is entered only with the alarm set for the first timer that
\* runs, the debounce timer an interrupt has just started included.
THEOREM PowerAlarmInTime == PowerSpec => AlarmInTime
<1> DEFINE Set == powerPc # "pm" /\ powerPc' = "pm" =>
                     \A tm \in Timer : timeout[tm] > 0 => alarmOn /\ alarm <= timeout[tm]
<1>1. ASSUME PowerInv, PowerNext PROVE Set
  <2>1. SUFFICES ASSUME powerPc # "pm", powerPc' = "pm" PROVE powerPc = "pmWindow" /\ halSleepPconValue
    BY <1>1 DEF PowerInv, InTime
  <2>2. SetPowerMode
    BY <1>1, <2>1 DEF PowerNext, Loop, Isr, Update, AllowSleep, GenericAppEndDeviceEB, Scan, Run,
          PowerConserve, EnterPowerMode, NoSleep, EnterIdleMode, LeavePowerMode, halKeyPort0Isr,
          MacIsr, Rollover, halSleepTimerIsr, WakeUp, PowerTick
  <2>3. QED
    BY <2>1, <2>2 DEF SetPowerMode
<1>2. PowerInv /\ [PowerNext]_powerVars => [Set]_powerVars
  BY <1>1
<1>3. QED
  BY PowerIInvariant, <1>2, PTL DEF AlarmInTime, PowerSpec
=============================================================================
