------------------------------ MODULE MacRadio ------------------------------
(***************************************************************************)
(* The MAC's low level (mac/low_level/srf04): transmit, receive, receiver  *)
(* on and off, channel and power, sleep, and the command strobe processor  *)
(* (CSP) that does CSMA and the wait for the acknowledgement.              *)
(*                                                                         *)
(* The upper MAC calls from the tasks; the radio interrupts.  The radio's  *)
(* interrupts have one priority and do not nest, so that each service      *)
(* routine is a step.  A call is as many steps as it has stretches in      *)
(* which an interrupt would matter.  Time is not modelled: what takes time *)
(* in the radio is a step of its own; an interrupt may be held off for any *)
(* time, past the end of a wait too.                                       *)
(*                                                                         *)
(* Frames of a network without beacons are sent by unslotted CSMA; the     *)
(* slotted kinds are left out, and so are promiscuous mode, time stamps,   *)
(* and the address fields.  The receive FIFO holds one frame; another that *)
(* comes on top of it overflows it.                                        *)
(***************************************************************************)
EXTENDS Integers

CONSTANTS
    Frames,             \* what may be received: [kind, right, ackReq, crc, form, addr, payload]
    NoFrame,
    MaxCsmaBackoffs,    \* macPib.maxCsmaBackoffs
    MaxRetries,         \* how often the upper MAC sends a frame again
    MaxSends,           \* bound: frames sent
    MaxMacCalls,           \* bound: other calls of the upper MAC
    MaxFrames,          \* bound: frames that arrive
    MaxTrouble          \* bound: overflows of the receive FIFO, allocations that fail

\* How a frame's header reads: too short for its addresses, or as only a chip of
\* revision A may leave it (chip bug #1547): its length or type corrupted, or an
\* address mode that is reserved.
Forms == {"sound", "short", "garbled", "reserved"}

\* The numbers of tries are numbers; a frame is what the receiver tells apart of
\* it, and its absence is none.  An ACK with the right sequence number for one
\* frame is wrong for the next.
ASSUME MacAssumption ==
    /\ MaxCsmaBackoffs \in Nat /\ MaxRetries \in Nat
    /\ Frames \subseteq [kind : {"ack", "beacon", "command", "data"}, right : BOOLEAN, ackReq : BOOLEAN,
                         crc : BOOLEAN, form : Forms, addr : BOOLEAN, payload : Nat]
    /\ \A f \in Frames : [f EXCEPT !.right = FALSE] \in Frames
    /\ NoFrame \notin Frames

VARIABLES
    m,                  \* the MAC's and the radio's state, see Start
    macPc,              \* where a call of the upper MAC is: "idle", or what it does next
    sends, macCalls, arrivals, trouble

macVars == <<m, macPc, sends, macCalls, arrivals, trouble>>
bounds == <<sends, macCalls, arrivals, trouble>>

TxStates == {"NO_ACTIVITY", "INITIALIZE", "QUEUED", "GO", "CHANNEL_BUSY",
             "DONE", "LISTEN_FOR_ACK", "POST_ACK"}
RxStates == {"NO_ACTIVITY", "STARTED", "DONE"}
Statuses == {"none", "SUCCESS", "ACK_PENDING", "NO_ACK", "CHANNEL_ACCESS_FAILURE", "TX_ABORTED"}

\* macLowLevelInit: macRadioInit, macRxOnOffInit, macRxInit and macTxInit.
MacStart ==
    [tx |-> "NO_ACTIVITY",      \* macTxActive
     ackReq |-> FALSE,          \* txAckReq
     nb |-> 0,
     rx |-> "NO_ACTIVITY",      \* macRxActive
     outgoingAck |-> FALSE,     \* macRxOutgoingAckFlag
     on |-> FALSE,              \* macRxOnFlag
     enabled |-> FALSE,         \* macRxEnableFlags /= 0
     filter |-> "OFF",          \* macRxFilter
     awake |-> FALSE,           \* macSleepState = MAC_SLEEP_STATE_AWAKE
     reset |-> FALSE,           \* rxResetFlag
     isr |-> FALSE,             \* rxIsrActiveFlag
     buf |-> FALSE,             \* pRxBuf /= NULL
     state |-> "start",         \* pFuncRxState
     left |-> 0,                \* reads still to do: of the payload, or of what is discarded
     newChannel |-> FALSE,      \* reqChannel /= macPhyChannel
     newPower |-> FALSE,        \* reqTxPower /= macPhyTxPower
     csp |-> "idle",            \* the CSP: "csma", "sending", "waiting" for an ACK, "idle"
     cspz |-> "done",           \* CSPZ
     stopIE |-> FALSE, stopIF |-> FALSE,     \* interrupts, enabled and pending: CSP stopped
     intIE |-> FALSE, intIF |-> FALSE,       \* ... CSP sends
     ackIE |-> FALSE, ackIF |-> FALSE,       \* ... ACK sent
     fifo |-> NoFrame,          \* the frame in the receive FIFO
     ready |-> FALSE,           \* FIFOP: as much of it as is awaited
     over |-> FALSE,            \* the receive FIFO has overflowed
     overIF |-> FALSE,          \* ... and its interrupt is pending
     hwAck |-> FALSE,           \* the radio is acknowledging it
     retries |-> 0,             \* the upper MAC's
     status |-> "none",         \* history: how the last transmission ended
     acked |-> FALSE,           \* history: an ACK of the frame came
     missed |-> FALSE,          \* history: ... and lay unread when the wait was over, or was flushed
     ok |-> TRUE]               \* history: every MAC_ASSERT held

RxPhysical(s) == s.rx = "STARTED" \/ s.outgoingAck
TxPhysical(s) == s.tx \in {"GO", "DONE", "LISTEN_FOR_ACK", "POST_ACK"}

AssertThat(s, fact) == [s EXCEPT !.ok = @ /\ fact]

-----------------------------------------------------------------------------
(* Receiver on and off                                                     *)

\* MAC_RADIO_FLUSH_RX_FIFO and ...CLEAR_RX_THRESHOLD_INTERRUPT_FLAG.
Flush(s) == [s EXCEPT !.fifo = NoFrame, !.ready = FALSE, !.over = FALSE]

\* macRxOn.
RxOn(s) == [s EXCEPT !.on = TRUE]

\* macRxOff: what the radio is doing is broken off.
RxOff(s) == IF s.on THEN [Flush(s) EXCEPT !.on = FALSE, !.hwAck = FALSE] ELSE s

\* macRxOnRequest.
RxOnRequest(s) == IF s.enabled THEN RxOn(s) ELSE s

\* Mutant: a transmission that is under way does not count.
RxOffRequestHasty(s) == IF ~s.enabled /\ ~RxPhysical(s) THEN RxOff(s) ELSE s

\* macRxOffRequest.
RxOffRequest(s) ==
    IF ~s.enabled /\ ~RxPhysical(s) /\ ~TxPhysical(s) THEN RxOff(s) ELSE s

-----------------------------------------------------------------------------
(* The CSP                                                                 *)

\* cspPrepForTxProgram, for macCspTxPrepCsmaUnslotted.
CspPrep(s) ==
    [AssertThat(s, ~s.stopIE) EXCEPT !.cspz = "busy", !.csp = "idle", !.stopIF = FALSE, !.intIF = FALSE]

\* macCspTxGoCsma.
CspTxGoCsma(s) ==
    [RxOn(s) EXCEPT !.stopIE = TRUE, !.intIE = TRUE, !.csp = "csma"]

\* macCspTxRequestAckTimeoutCallback.
CspRequestAckTimeout(s) ==
    [AssertThat(s, ~s.stopIE) EXCEPT !.cspz = "timeout", !.stopIF = FALSE, !.stopIE = TRUE,
                                 !.csp = "waiting"]

\* macCspTxCancelAckTimeoutCallback.
CspCancelAckTimeout(s) == [s EXCEPT !.stopIE = FALSE, !.csp = "idle"]

-----------------------------------------------------------------------------
(* Transmit                                                                *)

\* txGo with txCsmaGo.
TxGo(s) == CspTxGoCsma([s EXCEPT !.ackIE = FALSE, !.outgoingAck = FALSE])

\* macTxStartQueuedFrame.
TxStartQueuedFrame(s) ==
    LET s1 == AssertThat(s, s.rx = "NO_ACTIVITY" /\ ~s.outgoingAck) IN
    IF s1.tx = "QUEUED" THEN TxGo([s1 EXCEPT !.tx = "GO"]) ELSE s1

\* macRadioUpdateTxPower.
RadioUpdateTxPower(s) ==
    IF ~s.outgoingAck /\ ~TxPhysical(s) THEN [s EXCEPT !.newPower = FALSE] ELSE s

\* Mutant: a frame that is queued is left to the next receive.
RxPostRxUpdatesLazily(s) == RadioUpdateTxPower(RxOffRequest(s))

\* rxPostRxUpdates.
RxPostRxUpdates(s) == TxStartQueuedFrame(RadioUpdateTxPower(RxOffRequest(s)))

\* rxHaltCleanupFinalStep.
RxHaltCleanupFinalStep(s) ==
    LET s1 == [Flush(s) EXCEPT !.ackIE = FALSE, !.buf = FALSE, !.state = "start"] IN
    IF s.rx /= "NO_ACTIVITY" \/ s.outgoingAck
       THEN RxPostRxUpdates([s1 EXCEPT !.rx = "NO_ACTIVITY", !.outgoingAck = FALSE])
       ELSE s1

\* Mutant: it is done at once, in the middle of a receive interrupt too.
RxHaltCleanupAtOnce(s) == RxHaltCleanupFinalStep(s)

\* macRxHaltCleanup: within the receive interrupt it is put off to its end.
RxHaltCleanup(s) ==
    IF s.isr THEN [s EXCEPT !.reset = TRUE] ELSE RxHaltCleanupFinalStep(s)

\* macRadioUpdateChannel.
RadioUpdateChannel(s) ==
    LET s1 == AssertThat(s, s.tx = "NO_ACTIVITY") IN
    IF s1.newChannel
       THEN RxOnRequest(RxHaltCleanup(RxOff([s1 EXCEPT !.newChannel = FALSE])))
       ELSE s1

\* macTxFrame, to the point where the frame is in the radio.
TxPrepare(s) == CspPrep([s EXCEPT !.tx = "INITIALIZE", !.nb = 0])

\* macTxFrame: the critical section that decides.
TxDecide(s) ==
    [s EXCEPT !.tx = IF s.rx = "NO_ACTIVITY" /\ ~s.outgoingAck THEN "GO" ELSE "QUEUED"]

\* macTxFrameRetransmit, by the upper MAC from its callback.
TxFrameRetransmit(s) ==
    LET s1 == TxDecide(TxPrepare(AssertThat(s, s.tx = "NO_ACTIVITY"))) IN
    IF s1.tx = "GO" THEN TxGo(s1) ELSE s1

\* macTxCompleteCallback of the upper MAC: what was not acknowledged is sent again.
TxCompleteCallback(s, status) ==
    IF status = "NO_ACK" /\ s.retries > 0
       THEN TxFrameRetransmit([s EXCEPT !.retries = @ - 1, !.status = status])
       ELSE [s EXCEPT !.status = status]

\* txComplete.
TxComplete(s, status) ==
    TxCompleteCallback(
        RadioUpdateChannel(RadioUpdateTxPower(RxOffRequest([s EXCEPT !.tx = "NO_ACTIVITY"]))),
        status)

\* macTxChannelBusyCallback.
TxChannelBusyCallback(s) ==
    LET s1 == RxOffRequest([s EXCEPT !.tx = "CHANNEL_BUSY"])
        s2 == [s1 EXCEPT !.nb = @ + 1] IN
    IF s2.nb > MaxCsmaBackoffs THEN TxComplete(s2, "CHANNEL_ACCESS_FAILURE")
    ELSE CspTxGoCsma([CspPrep(s2) EXCEPT !.tx = "GO"])

\* macTxDoneCallback.
TxDoneCallback(s) ==
    IF s.tx /= "GO" THEN s
    ELSE IF ~s.ackReq THEN TxComplete([s EXCEPT !.tx = "DONE"], "SUCCESS")
    ELSE CspRequestAckTimeout([s EXCEPT !.tx = "LISTEN_FOR_ACK"])

\* macTxAckReceivedCallback.
TxAckReceivedCallback(s, right) ==
    IF s.tx /= "LISTEN_FOR_ACK" THEN s
    ELSE TxComplete(CspCancelAckTimeout([s EXCEPT !.tx = "POST_ACK"]),
                    IF right THEN "SUCCESS" ELSE "NO_ACK")

\* macTxAckNotReceivedCallback.
TxAckNotReceivedCallback(s) ==
    IF s.tx /= "LISTEN_FOR_ACK" THEN s
    ELSE TxComplete(CspCancelAckTimeout([s EXCEPT !.tx = "POST_ACK"]), "NO_ACK")

\* Mutant: what the CSP has done is left to its interrupt.
CspForceTxDoneNever(s) == s

\* macCspForceTxDoneIfPending.
CspForceTxDoneIfPending(s) ==
    IF s.cspz = "done" /\ s.stopIE
       THEN TxDoneCallback([s EXCEPT !.stopIE = FALSE, !.intIE = FALSE])
       ELSE s

-----------------------------------------------------------------------------
(* Receive                                                                 *)

\* rxDone: a FIFO that has overflowed is flushed.
RxDone(s) ==
    LET s1 == [(IF s.over THEN Flush(s) ELSE s) EXCEPT !.rx = "NO_ACTIVITY"] IN
    IF s1.outgoingAck THEN s1 ELSE RxPostRxUpdates(s1)

\* rxDiscardFrame: n reads are needed for the rest of the frame.
RxDiscardFrame(s, n) ==
    IF n = 0 THEN RxDone(s) ELSE [s EXCEPT !.left = n, !.state = "discard"]

\* rxPrepPayload.
RxPrepPayload(s) == [s EXCEPT !.state = IF s.left = 0 THEN "fcs" ELSE "payload"]

\* rxStartIsr, an ACK has arrived.
RxAck(s, f) ==
    RxDone(IF s.tx /= "LISTEN_FOR_ACK" THEN s
           ELSE IF f.crc THEN TxAckReceivedCallback(s, f.right)
           ELSE TxAckNotReceivedCallback(s))

\* rxStartIsr, a buffer for the frame.
RxAllocated(s, f) ==
    LET s1 == [AssertThat(s, ~s.buf) EXCEPT !.buf = TRUE, !.outgoingAck = f.ackReq, !.left = f.payload]
        s2 == IF f.ackReq THEN [s1 EXCEPT !.ackIF = FALSE, !.ackIE = TRUE] ELSE s1 IN
    IF f.addr THEN [s2 EXCEPT !.state = "addr"] ELSE RxPrepPayload(s2)

\* What macRxFilter keeps out.
Filtered(s, f) ==
    \/ s.filter = "ALL"
    \/ s.filter = "NON_BEACON" /\ f.kind /= "beacon"
    \/ s.filter = "NON_COMMAND" /\ f.kind /= "command"

\* rxStartIsr, a frame that is not an ACK: it is filtered, flushed, discarded, or
\* read into a buffer.
RxFrame(s, f, heap) ==
    IF f.form = "reserved" /\ ~Filtered(s, f) THEN RxDone(Flush(s))
    ELSE IF Filtered(s, f) \/ f.form = "short" \/ ~heap
       THEN RxDiscardFrame([s EXCEPT !.hwAck = FALSE], f.payload + 1)
       ELSE RxAllocated(s, f)

\* rxStartIsr, once the frame's header has been read.
RxStarted(s, f, heap) ==
    LET s1 == [CspForceTxDoneIfPending(s) EXCEPT !.ackIE = FALSE, !.outgoingAck = FALSE] IN
    IF f.form = "garbled" THEN RxDone(Flush(s1))
    ELSE IF f.kind = "ack" THEN RxAck([s1 EXCEPT !.fifo = NoFrame], f)
    ELSE RxFrame(TxAckNotReceivedCallback(s1), f, heap)

\* rxStartIsr.
RxStartIsr(s, heap) ==
    LET s1 == [AssertThat(s, s.rx = "NO_ACTIVITY") EXCEPT !.rx = "STARTED"] IN
    IF ~s1.on \/ s1.fifo = NoFrame
       THEN RxPostRxUpdates([s1 EXCEPT !.rx = "NO_ACTIVITY"])
       ELSE RxStarted(s1, s1.fifo, heap)

\* rxAddrIsr.
RxAddrIsr(s) == RxPrepPayload(s)

\* rxPayloadIsr.
RxPayloadIsr(s) == RxPrepPayload([s EXCEPT !.left = @ - 1])

\* rxFcsIsr: the upper MAC takes the buffer (macRxCompleteCallback), or it is freed.
RxFcsIsr(s) ==
    LET s1 == IF s.fifo.crc THEN RxOffRequest([s EXCEPT !.rx = "DONE"])
              ELSE [s EXCEPT !.ackIE = FALSE, !.outgoingAck = FALSE] IN
    RxDone([s1 EXCEPT !.buf = FALSE, !.state = "start", !.fifo = NoFrame])

\* rxDiscardIsr.
RxDiscardIsr(s) ==
    IF s.left > 1 THEN [s EXCEPT !.left = @ - 1]
    ELSE RxDone([s EXCEPT !.state = "start", !.fifo = NoFrame])

\* The function pFuncRxState points to.
RxState(s, heap) ==
    CASE s.state = "start" -> RxStartIsr(s, heap)
      [] s.state = "addr" -> RxAddrIsr(s)
      [] s.state = "payload" -> RxPayloadIsr(s)
      [] s.state = "fcs" -> RxFcsIsr(s)
      [] s.state = "discard" -> RxDiscardIsr(s)

\* macRxThresholdIsr.
RxThresholdIsr(s, heap) ==
    LET s1 == [RxState([s EXCEPT !.isr = TRUE], heap) EXCEPT !.isr = FALSE] IN
    IF s.reset THEN s
    ELSE IF s1.reset THEN [RxHaltCleanupFinalStep(s1) EXCEPT !.reset = FALSE]
    ELSE s1

-----------------------------------------------------------------------------
(* Interrupts (macMcuRfIsr, macMcuRfErrIsr)                                *)

\* macCspTxIntIsr; it comes before the others.
CspTxIntIsr ==
    /\ m.intIE /\ m.intIF
    /\ m' = [m EXCEPT !.intIF = FALSE, !.intIE = FALSE]
    /\ UNCHANGED <<macPc, bounds>>

\* macCspTxStopIsr.
CspTxStopIsr ==
    /\ m.stopIE /\ m.stopIF /\ ~(m.intIE /\ m.intIF)
    /\ LET s == [m EXCEPT !.stopIF = FALSE, !.stopIE = FALSE] IN
       m' = CASE s.cspz = "done" -> TxDoneCallback(s)
              [] s.cspz = "busy" -> TxChannelBusyCallback(s)
              [] s.cspz = "timeout" -> TxAckNotReceivedCallback(s)
    /\ UNCHANGED <<macPc, bounds>>

\* macRxAckTxDoneCallback.
RxAckTxDoneCallback ==
    /\ m.ackIE /\ m.ackIF /\ ~(m.intIE /\ m.intIF) /\ ~(m.stopIE /\ m.stopIF)
    /\ LET s == [m EXCEPT !.ackIE = FALSE, !.outgoingAck = FALSE] IN
       m' = IF s.rx = "NO_ACTIVITY" THEN RxPostRxUpdates(s) ELSE s
    /\ UNCHANGED <<macPc, bounds>>

\* The receive part of macMcuRfIsr: an interrupt of the CSP may have come
\* since its own part.
RxIsr ==
    /\ m.ready
    /\ \E heap \in BOOLEAN :
          /\ heap \/ trouble > 0
          /\ trouble' = IF heap THEN trouble ELSE trouble - 1
          /\ m' = RxThresholdIsr([m EXCEPT !.ready = FALSE], heap)
    /\ UNCHANGED <<macPc, sends, macCalls, arrivals>>

\* A sound ACK of the frame that was sent last is in the FIFO.
TheAck(s) ==
    /\ s.fifo /= NoFrame /\ s.fifo.kind = "ack"
    /\ s.fifo.right /\ s.fifo.crc /\ s.fifo.form /= "garbled"

\* macRxFifoOverflowIsr (macMcuRfErrIsr).  What overflowed may have been flushed
\* before, and another frame be there.
RxFifoOverflowIsr ==
    /\ m.overIF
    /\ m' = RxHaltCleanup([m EXCEPT !.overIF = FALSE, !.missed = @ \/ TheAck(m)])
    /\ UNCHANGED <<macPc, bounds>>

-----------------------------------------------------------------------------
(* The radio                                                               *)

Radio(s) == m' = s /\ UNCHANGED <<macPc, bounds>>

\* The CSP finds the channel busy.  While a frame is received it is.
ChannelBusy == m.csp = "csma" /\ Radio([m EXCEPT !.csp = "idle", !.stopIF = TRUE])

\* All of the frame in the FIFO is there, and waits for the interrupt to read it.
Whole(s) ==
    s.ready /\ (s.fifo.kind = "ack" \/ s.state = "fcs" \/ (s.state = "discard" /\ s.left = 1))

\* The channel is clear, and the frame goes out; then the CSP stops.
Strobe ==
    /\ m.csp = "csma" /\ (m.fifo = NoFrame \/ Whole(m)) /\ ~m.hwAck
    /\ Radio([m EXCEPT !.csp = "sending", !.intIF = TRUE])
Sent == m.csp = "sending" /\ Radio([m EXCEPT !.csp = "idle", !.cspz = "done", !.stopIF = TRUE])

\* The frame that was sent last awaits its ACK.
AwaitsAck ==
    /\ m.ackReq /\ m.tx \in {"GO", "LISTEN_FOR_ACK"}
    /\ m.cspz = "done" \/ m.csp = "waiting"

\* macPib.ackWaitDuration is over; the ACK may be in the FIFO, still coming in or
\* its interrupt held off.
AckTimeout ==
    /\ m.csp = "waiting"
    /\ Radio([m EXCEPT !.csp = "idle", !.stopIF = TRUE, !.missed = @ \/ TheAck(m)])

\* A frame comes in; the ACK only when it is due.
Arrive(f) ==
    /\ arrivals > 0 /\ arrivals' = arrivals - 1
    /\ m.on /\ m.fifo = NoFrame /\ m.csp /= "sending" /\ ~m.hwAck
    /\ f.kind = "ack" /\ f.right => AwaitsAck
    /\ m' = [m EXCEPT !.fifo = f]
    /\ UNCHANGED <<macPc, sends, macCalls, trouble>>

\* As much of it is there as was awaited.  At the end of a sound frame the
\* radio acknowledges.
Threshold ==
    /\ m.fifo /= NoFrame /\ ~m.ready
    /\ Radio([m EXCEPT !.ready = TRUE, !.acked = @ \/ TheAck(m),
                       !.hwAck = m.state = "fcs" /\ m.fifo.crc /\ m.fifo.ackReq])

AckSent == m.hwAck /\ Radio([m EXCEPT !.hwAck = FALSE, !.ackIF = TRUE])

\* A frame comes on top of one that waits.
Overflow ==
    /\ m.fifo /= NoFrame /\ m.ready /\ ~m.over
    /\ trouble > 0 /\ trouble' = trouble - 1
    /\ m' = [m EXCEPT !.over = TRUE, !.overIF = TRUE]
    /\ UNCHANGED <<macPc, sends, macCalls, arrivals>>

-----------------------------------------------------------------------------
(* Calls of the upper MAC                                                  *)

MacCall(s) == macPc = "idle" /\ macCalls > 0 /\ macCalls' = macCalls - 1 /\ m' = s
           /\ UNCHANGED <<sends, arrivals, trouble>>

\* A frame with a sequence number of its own: an ACK in the FIFO is not for it.
NewFrame(s, ackReq, retries) ==
    [s EXCEPT !.ackReq = ackReq, !.retries = IF ackReq THEN retries ELSE 0,
              !.fifo = IF s.fifo = NoFrame THEN NoFrame ELSE [s.fifo EXCEPT !.right = FALSE],
              !.acked = FALSE, !.missed = FALSE]

\* macTxFrame: first the frame is prepared ...
TxFrame ==
    /\ macPc = "idle" /\ sends > 0 /\ sends' = sends - 1 /\ m.tx = "NO_ACTIVITY"
    /\ \E ackReq \in BOOLEAN, retries \in 0 .. MaxRetries :
          LET s == NewFrame(m, ackReq, retries) IN
          IF m.awake THEN m' = TxPrepare(s) /\ macPc' = "decide"
                     ELSE m' = TxComplete(s, "TX_ABORTED") /\ UNCHANGED macPc
    /\ UNCHANGED <<macCalls, arrivals, trouble>>

\* ... then it is decided whether it can be sent at once ...
TxFrameDecide ==
    /\ macPc = "decide"
    /\ m' = TxDecide(m) /\ macPc' = IF m'.tx = "GO" THEN "go" ELSE "idle"
    /\ UNCHANGED bounds

\* ... and then it is sent.
TxFrameGo == macPc = "go" /\ m' = TxGo(m) /\ macPc' = "idle" /\ UNCHANGED bounds

\* macRxEnable.
RxEnable == m.awake /\ MacCall(RxOn([m EXCEPT !.enabled = TRUE])) /\ UNCHANGED macPc

\* macRxSoftEnable.
RxSoftEnable == MacCall([m EXCEPT !.enabled = TRUE]) /\ UNCHANGED macPc

\* macRxDisable: the flags, and then the receiver.
RxDisable == MacCall([m EXCEPT !.enabled = FALSE]) /\ macPc' = "off"
RxDisableOff == macPc = "off" /\ m' = RxOffRequest(m) /\ macPc' = "idle" /\ UNCHANGED bounds

\* macRadioSetChannel.
RadioSetChannel ==
    LET s == [m EXCEPT !.newChannel = TRUE] IN
    /\ m.awake
    /\ MacCall(IF s.tx = "NO_ACTIVITY" THEN RadioUpdateChannel(s) ELSE s) /\ UNCHANGED macPc

\* macRadioSetTxPower.
RadioSetTxPower ==
    MacCall(RadioUpdateTxPower([m EXCEPT !.newPower = TRUE])) /\ UNCHANGED macPc

\* macRadioStartScan: of the energy, for the coordinator (an orphan's), for beacons.
RadioStartScan ==
    /\ m.awake /\ m.filter = "OFF" /\ UNCHANGED macPc
    /\ \E filter \in {"ALL", "NON_COMMAND", "NON_BEACON"} : MacCall([m EXCEPT !.filter = filter])

\* macRadioStopScan.
RadioStopScan == m.filter /= "OFF" /\ MacCall([m EXCEPT !.filter = "OFF"]) /\ UNCHANGED macPc

\* Mutant: an ACK that goes out does not count.
SleepHasty ==
    /\ m.awake /\ m.filter = "OFF" /\ UNCHANGED macPc
    /\ m.rx = "NO_ACTIVITY" /\ m.tx = "NO_ACTIVITY" /\ ~m.enabled
    /\ MacCall([RxOff(m) EXCEPT !.awake = FALSE])

\* macSleep, if it is granted.
Sleep ==
    /\ m.awake /\ m.filter = "OFF" /\ UNCHANGED macPc
    /\ m.rx = "NO_ACTIVITY" /\ ~m.outgoingAck /\ m.tx = "NO_ACTIVITY" /\ ~m.enabled
    /\ MacCall([RxOff(m) EXCEPT !.awake = FALSE])

\* macSleepWakeUp.
SleepWakeUp ==
    ~m.awake /\ MacCall(RxOnRequest([m EXCEPT !.awake = TRUE])) /\ UNCHANGED macPc

\* macRxHardDisable.
RxHardDisable(s) ==
    RxHaltCleanup([Flush(s) EXCEPT !.enabled = FALSE, !.on = FALSE, !.hwAck = FALSE])

\* macRxTxReset.
RxTxReset(s) == [RxHardDisable(s) EXCEPT !.filter = "OFF"]

\* macLowLevelReset, with interrupts off; it is left for when nothing is sent.
LowLevelReset ==
    LET s == IF m.awake THEN RxTxReset(m) ELSE m IN
    /\ m.tx = "NO_ACTIVITY" /\ UNCHANGED macPc
    /\ MacCall(IF s.awake THEN s ELSE RxOnRequest([s EXCEPT !.awake = TRUE]))

-----------------------------------------------------------------------------
MacInit ==
    /\ m = MacStart /\ macPc = "idle"
    /\ sends = MaxSends /\ macCalls = MaxMacCalls /\ arrivals = MaxFrames /\ trouble = MaxTrouble

Hardware == ChannelBusy \/ Strobe \/ Sent \/ AckTimeout \/ Threshold \/ AckSent
Interrupts == CspTxIntIsr \/ CspTxStopIsr \/ RxAckTxDoneCallback \/ RxIsr \/ RxFifoOverflowIsr
Foreground == TxFrameDecide \/ TxFrameGo \/ RxDisableOff
MacCalls == \/ TxFrame \/ RxEnable \/ RxSoftEnable \/ RxDisable \/ RadioSetChannel
         \/ RadioSetTxPower \/ RadioStartScan \/ RadioStopScan \/ Sleep \/ SleepWakeUp
         \/ LowLevelReset

MacNext ==
    \/ Hardware \/ Interrupts \/ Foreground \/ MacCalls \/ Overflow
    \/ \E f \in Frames : Arrive(f)

\* The radio, an interrupt, or the task that made a call has something to do.
SomethingDue ==
    \/ m.csp \in {"csma", "sending", "waiting"} \/ (m.fifo /= NoFrame /\ ~m.ready) \/ m.hwAck
    \/ (m.intIE /\ m.intIF) \/ (m.stopIE /\ m.stopIF) \/ (m.ackIE /\ m.ackIF)
    \/ m.ready \/ m.overIF
    \/ macPc /= "idle"

\* They go on, in whatever order: weak fairness of the three as one, with what
\* enables them written out.
MacFairness == []<>~SomethingDue \/ []<><<Hardware \/ Interrupts \/ Foreground>>_macVars

MacSpec == MacInit /\ [][MacNext]_macVars /\ MacFairness

-----------------------------------------------------------------------------
(* Properties                                                              *)

MacTypeOK ==
    /\ DOMAIN m = DOMAIN MacStart /\ m.tx \in TxStates /\ m.rx \in RxStates
    /\ m.status \in Statuses /\ m.fifo \in Frames \cup {NoFrame}
    /\ m.state \in {"start", "addr", "payload", "fcs", "discard"}
    /\ m.csp \in {"idle", "csma", "sending", "waiting"} /\ m.cspz \in {"done", "busy", "timeout"}
    /\ m.nb \in 0 .. MaxCsmaBackoffs + 1 /\ m.retries \in 0 .. MaxRetries
    /\ macPc \in {"idle", "decide", "go", "off"}

\* The assertions of the MAC hold: no transmission is begun on top of another,
\* no receive on top of a receive, the channel does not change during a
\* transmission, the CSP is not loaded while it runs.  And between interrupts the
\* receiver's state machine is away from its start just while a receive is
\* active, and holds a buffer just while it reads the frame for it, so that no
\* buffer is lost or filled twice.
AssertsHold ==
    /\ MacTypeOK /\ m.ok /\ ~m.isr /\ ~m.reset
    /\ m.rx = "STARTED" <=> m.state /= "start"
    /\ m.buf <=> m.state \in {"addr", "payload", "fcs"}

\* The receiver is off when nothing wants it on, whatever the order in which
\* receive, transmit and the calls of the upper MAC came to an end; it is not
\* off while a transmission is contending, going out, or waiting for its ACK.
ReceiverAsWanted ==
    /\ macPc = "idle" /\ ~m.enabled /\ m.tx = "NO_ACTIVITY" /\ ~RxPhysical(m) => ~m.on
    /\ m.csp /= "idle" => m.on

\* The radio sleeps only when nothing is under way, and nothing comes in then.
SleepsQuietly ==
    ~m.awake => /\ ~m.on /\ m.rx = "NO_ACTIVITY" /\ ~m.outgoingAck /\ m.tx = "NO_ACTIVITY"
                /\ m.csp = "idle" /\ m.fifo = NoFrame /\ ~m.ready

\* The upper MAC is told the truth, whatever the interrupts and for however long
\* they are held off: that a frame was acknowledged only if an ACK of it came, of
\* this transmission or an earlier one; that it was not only if none came, or one
\* lay in the FIFO when the wait for it was over, or when the FIFO was flushed.
StatusTrue ==
    m.tx = "NO_ACTIVITY" /\ m.ackReq =>
        /\ m.status = "SUCCESS" => m.acked
        /\ m.status = "NO_ACK" => ~m.acked \/ m.missed

\* The radio as a whole: the assertions hold, the receiver is on when it is
\* wanted and only then, it sleeps only at rest, and the upper MAC is told the
\* truth.
RadioSound == AssertsHold /\ ReceiverAsWanted /\ SleepsQuietly /\ StatusTrue

\* The transmitter comes to rest again and again, whatever it sends: what is queued
\* behind a receive or an acknowledgement of ours is started at its end, and what
\* is sent is sent or given up.
Completes == []<>(m.tx = "NO_ACTIVITY")
=============================================================================
