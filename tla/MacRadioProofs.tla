--------------------------- MODULE MacRadioProofs ---------------------------
(***************************************************************************)
(* Proofs about MacRadio for any frames that may arrive and any numbers of *)
(* backoffs and retries: the MAC's own assertions hold, the receiver is on *)
(* when it is wanted and only then, the radio sleeps only at rest, and the *)
(* upper MAC is told that an ACK came, or did not, only with cause.       *)
(*                                                                         *)
(* The handlers call each other several deep on the one record m.  Each    *)
(* has a lemma that says which fields it may change (Same) and which parts *)
(* of the invariant it keeps or restores, and the lemma of a caller cites  *)
(* those of what it calls.  The receive interrupt leaves some of the       *)
(* invariant to its end; what a receive state owes by then is Served.      *)
(***************************************************************************)
EXTENDS MacRadio, TLAPS

-----------------------------------------------------------------------------
(* The inductive invariant. *)

\* The fields of the state.
Fields == DOMAIN MacStart

\* A record with these fields, whatever they hold.
Shaped(s) == s = [x \in Fields |-> s[x]]

\* r is s but for the fields in F.
Same(r, s, F) == \A x \in Fields \ F : r[x] = s[x]

-----------------------------------------------------------------------------
\* What the CSP does, and what waits for it, by where the transmission is.
Channel(s, pc) ==
    /\ s.tx \in {"NO_ACTIVITY", "INITIALIZE", "QUEUED", "GO", "LISTEN_FOR_ACK"}
    /\ s.tx = "INITIALIZE" <=> pc = "decide"
    /\ pc = "go" => s.tx = "GO"
    /\ s.tx \in {"INITIALIZE", "QUEUED"} \/ pc = "go" => ~s.stopIF /\ s.cspz = "busy"
    /\ s.tx \notin {"GO", "LISTEN_FOR_ACK"} \/ pc = "go" => s.csp = "idle" /\ ~s.stopIE
    /\ s.tx = "GO" /\ pc # "go" =>
          /\ s.on /\ s.stopIE
          /\ \/ s.csp \in {"csma", "sending"} /\ ~s.stopIF /\ s.cspz = "busy"
             \/ s.csp = "idle" /\ s.stopIF /\ s.cspz \in {"done", "busy"}
    /\ s.tx = "LISTEN_FOR_ACK" =>
          /\ s.on /\ s.stopIE /\ s.cspz = "timeout" /\ s.ackReq
          /\ \/ s.csp = "waiting" /\ ~s.stopIF
             \/ s.csp = "idle" /\ s.stopIF

\* Counters and results.
Counted(s) ==
    /\ s.nb \in 0 .. MaxCsmaBackoffs + 1
    /\ s.retries \in 0 .. MaxRetries /\ s.status \in Statuses
    /\ s.cspz \in {"done", "busy", "timeout"}

\* A transmission in progress has backoffs left.
Tries(s) == s.tx # "NO_ACTIVITY" => s.nb <= MaxCsmaBackoffs

\* A new channel waits only for the end of a transmission.
Tuned(s) == s.newChannel => s.tx # "NO_ACTIVITY"

\* Frames come to a receiver that is on.
Fifo(s) ==
    /\ s.fifo \in Frames \cup {NoFrame}
    /\ s.fifo # NoFrame => s.on
    /\ s.ready => s.fifo # NoFrame

\* The receiver's state machine.
Machine(s) ==
    /\ s.rx \in {"NO_ACTIVITY", "STARTED"}
    /\ s.state \in {"start", "addr", "payload", "fcs", "discard"}
    /\ s.rx = "STARTED" <=> s.state # "start"
    /\ s.buf <=> s.state \in {"addr", "payload", "fcs"}
    /\ s.state # "start" => s.fifo # NoFrame /\ s.fifo.kind # "ack"

\* Whoever keeps the receiver on, or a frame waiting, will let it go.
Wanted(s, pc) ==
    /\ s.on => s.enabled \/ pc = "off" \/ RxPhysical(s) \/ TxPhysical(s)
    /\ s.tx = "QUEUED" => RxPhysical(s)

\* Asleep, the radio does nothing and owes nothing.
Resting(s) ==
    ~s.awake => ~s.on /\ s.rx = "NO_ACTIVITY" /\ ~s.outgoingAck /\ s.tx = "NO_ACTIVITY"

\* The ACK of the frame that was sent last comes only while it is awaited; it is
\* still in the FIFO when its time is over only if it is missed.
Due(s, pc) ==
    TheAck(s) => \/ s.missed
                 \/ /\ s.tx \in {"GO", "LISTEN_FOR_ACK"} /\ s.ackReq /\ pc # "go"
                    /\ s.cspz = "done" \/ s.csp = "waiting"

\* What the upper MAC was told last is what happened.
Told(s) ==
    s.tx = "NO_ACTIVITY" /\ s.ackReq =>
        /\ s.status = "SUCCESS" => s.acked
        /\ s.status = "NO_ACK" => ~s.acked \/ s.missed

\* An ACK that has come is ready in the FIFO until the upper MAC is told of it, or
\* it is missed.
Acked(s) ==
    /\ s.acked /\ ~s.missed /\ s.tx # "NO_ACTIVITY" => TheAck(s) /\ s.ready
    /\ s.ready /\ TheAck(s) => s.acked

\* Nothing is left of an ACK that came for a transmission under way.
Settled(s) == s.acked /\ ~s.missed => s.tx = "NO_ACTIVITY"

\* All but the receiver's state machine and whether it is on.
Core(s, pc) ==
    /\ Shaped(s) /\ Channel(s, pc) /\ Counted(s) /\ Tries(s) /\ Tuned(s) /\ Fifo(s)
    /\ Resting(s) /\ Due(s, pc) /\ Told(s) /\ Acked(s) /\ s.ok

\* What holds between two steps.
Kept(s, pc) == Core(s, pc) /\ Machine(s) /\ Wanted(s, pc) /\ ~s.isr /\ ~s.reset

IInv == Kept(m, macPc) /\ macPc \in {"idle", "decide", "go", "off"}

-----------------------------------------------------------------------------
(* Steps of the handlers.                                                  *)

\* macRxOff flushes what is in the FIFO.
LEMMA TurnOff ==
    ASSUME NEW s, Shaped(s), NEW r, r = RxOff(s)
    PROVE  /\ Shaped(r) /\ Same(r, s, {"on", "fifo", "ready", "over", "hwAck"}) /\ ~r.on
           /\ s.on => r.fifo = NoFrame /\ ~r.ready
           /\ ~s.on => r = s
<1>1. CASE s.on
  BY ZenonT(60), <1>1 DEF RxOff, Flush, Same, Fields, MacStart, Shaped
<1>2. CASE ~s.on
  BY <1>2 DEF RxOff, Same
<1>3. QED
  BY <1>1, <1>2

\* macRxOffRequest turns the receiver off only if nothing needs it.
LEMMA OffRequest ==
    ASSUME NEW s, Shaped(s), NEW r, r = RxOffRequest(s)
    PROVE  /\ Shaped(r) /\ Same(r, s, {"on", "fifo", "ready", "over", "hwAck"})
           /\ s.enabled \/ RxPhysical(s) \/ TxPhysical(s) => r = s
           /\ ~ (s.enabled \/ RxPhysical(s) \/ TxPhysical(s)) => ~r.on
           /\ r = s \/ (~r.on /\ r.fifo = NoFrame /\ ~r.ready)
BY ZenonT(60) DEF RxOffRequest, RxOff, Flush, Same, Fields, MacStart, Shaped

\* macRadioUpdateTxPower.
LEMMA TxPower ==
    ASSUME NEW s, Shaped(s), NEW r, r = RadioUpdateTxPower(s)
    PROVE  Shaped(r) /\ Same(r, s, {"newPower"})
BY DEF RadioUpdateTxPower, Same, Fields, MacStart, Shaped

\* txGo turns the receiver on and starts CSMA.
LEMMA Go ==
    ASSUME NEW s, Shaped(s), NEW r, r = TxGo(s)
    PROVE  /\ Shaped(r) /\ Same(r, s, {"ackIE", "outgoingAck", "on", "stopIE", "intIE", "csp"})
           /\ ~r.outgoingAck /\ r.on /\ r.stopIE /\ r.csp = "csma"
BY ZenonT(60) DEF TxGo, CspTxGoCsma, RxOn, Same, Fields, MacStart, Shaped

\* macTxStartQueuedFrame sends what has waited for a receive to end.
LEMMA StartQueued ==
    ASSUME NEW s, Shaped(s), s.rx = "NO_ACTIVITY", ~s.outgoingAck, s.ok, NEW r, r = TxStartQueuedFrame(s)
    PROVE  /\ Shaped(r) /\ r.ok
           /\ Same(r, s, {"ok", "tx", "ackIE", "outgoingAck", "on", "stopIE", "intIE", "csp"})
           /\ s.tx # "QUEUED" => Same(r, s, {"ok"})
           /\ s.tx = "QUEUED" => r.tx = "GO" /\ ~r.outgoingAck /\ r.on /\ r.stopIE /\ r.csp = "csma"
<1>1. PICK a : a = AssertThat(s, s.rx = "NO_ACTIVITY" /\ ~s.outgoingAck)
  OBVIOUS
<1>2. Shaped(a) /\ Same(a, s, {"ok"}) /\ a.ok
  BY <1>1 DEF AssertThat, Same, Fields, MacStart, Shaped
<1>3. r = IF a.tx = "QUEUED" THEN TxGo([a EXCEPT !.tx = "GO"]) ELSE a
  BY <1>1 DEF TxStartQueuedFrame
<1>4. a.tx = s.tx
  BY <1>2 DEF Same, Fields, MacStart
<1>5. CASE s.tx # "QUEUED"
  BY <1>2, <1>3, <1>4, <1>5 DEF Same
<1>6. CASE s.tx = "QUEUED"
  <2>1. PICK b : b = [a EXCEPT !.tx = "GO"]
    OBVIOUS
  <2>2. Shaped(b) /\ Same(b, a, {"tx"}) /\ b.tx = "GO"
    BY <1>2, <2>1 DEF Same, Fields, MacStart, Shaped
  <2>3. r = TxGo(b)
    BY <1>3, <1>4, <1>6, <2>1
  <2>4. /\ Shaped(r) /\ Same(r, b, {"ackIE", "outgoingAck", "on", "stopIE", "intIE", "csp"})
        /\ ~r.outgoingAck /\ r.on /\ r.stopIE /\ r.csp = "csma"
    BY <2>2, <2>3, Go
  <2>5. Same(r, s, {"ok", "tx", "ackIE", "outgoingAck", "on", "stopIE", "intIE", "csp"})
    BY <1>2, <2>2, <2>4 DEF Same
  <2>6. r.ok /\ r.tx = "GO"
    BY <1>2, <2>2, <2>4 DEF Same, Fields, MacStart
  <2>7. QED
    BY <1>6, <2>4, <2>5, <2>6
<1>7. QED
  BY <1>5, <1>6

\* What the end of a receive may change.
Touched == {"on", "fifo", "ready", "over", "hwAck", "newPower", "ok", "tx", "ackIE", "outgoingAck",
            "stopIE", "intIE", "csp"}

\* rxPostRxUpdates, at the end of a receive: nothing stays on without need, and a
\* frame that has waited is sent.
LEMMA PostRx ==
    ASSUME NEW s, NEW pc, Shaped(s), s.rx = "NO_ACTIVITY", ~s.outgoingAck, s.ok,
           Channel(s, pc), Fifo(s), Resting(s), NEW r, r = RxPostRxUpdates(s)
    PROVE  /\ Shaped(r) /\ Same(r, s, Touched) /\ r.ok /\ ~r.outgoingAck
           /\ r.tx = IF s.tx = "QUEUED" THEN "GO" ELSE s.tx
           /\ Channel(r, pc) /\ Fifo(r) /\ Resting(r) /\ Wanted(r, pc)
           /\ r.fifo \in {s.fifo, NoFrame} /\ (r.ready => s.ready)
           /\ TxPhysical(s) => r.fifo = s.fifo /\ r.ready = s.ready
           /\ s.tx # "QUEUED" => r.csp = s.csp
<1>1. PICK a : a = RxOffRequest(s)
  OBVIOUS
<1>2. PICK b : b = RadioUpdateTxPower(a)
  OBVIOUS
<1>3. r = TxStartQueuedFrame(b)
  BY <1>1, <1>2 DEF RxPostRxUpdates
<1>4. /\ Shaped(a) /\ Same(a, s, {"on", "fifo", "ready", "over", "hwAck"})
      /\ s.enabled \/ RxPhysical(s) \/ TxPhysical(s) => a = s
      /\ ~ (s.enabled \/ RxPhysical(s) \/ TxPhysical(s)) => ~a.on
      /\ a = s \/ (~a.on /\ a.fifo = NoFrame /\ ~a.ready)
  BY <1>1, OffRequest
<1>5. Shaped(b) /\ Same(b, a, {"newPower"})
  BY <1>2, <1>4, TxPower
<1>6. b.rx = "NO_ACTIVITY" /\ ~b.outgoingAck /\ b.ok /\ b.tx = s.tx
  BY <1>4, <1>5 DEF Same, Fields, MacStart
<1>7. /\ Shaped(r) /\ r.ok
      /\ Same(r, b, {"ok", "tx", "ackIE", "outgoingAck", "on", "stopIE", "intIE", "csp"})
      /\ s.tx # "QUEUED" => Same(r, b, {"ok"})
      /\ s.tx = "QUEUED" => r.tx = "GO" /\ ~r.outgoingAck /\ r.on /\ r.stopIE /\ r.csp = "csma"
  BY <1>3, <1>5, <1>6, StartQueued
<1>8. Same(r, s, Touched)
  BY <1>4, <1>5, <1>7 DEF Same, Touched
<1>9. /\ r.fifo = a.fifo /\ r.ready = a.ready /\ r.rx = s.rx /\ r.enabled = s.enabled
      /\ r.awake = s.awake /\ r.stopIF = s.stopIF /\ r.cspz = s.cspz /\ r.ackReq = s.ackReq
  BY <1>4, <1>5, <1>7 DEF Same, Fields, MacStart
<1>10. CASE s.tx = "QUEUED"
  <2>1. Channel(r, pc)
    BY <1>7, <1>9, <1>10 DEF Channel
  <2>2. Fifo(r)
    BY <1>4, <1>7, <1>9, <1>10 DEF Fifo
  <2>3. Resting(r)
    BY <1>9, <1>10 DEF Resting
  <2>4. Wanted(r, pc)
    BY <1>7, <1>10 DEF Wanted, TxPhysical
  <2>5. QED
    BY <1>4, <1>7, <1>8, <1>9, <1>10, <2>1, <2>2, <2>3, <2>4 DEF TxPhysical
<1>11. CASE s.tx # "QUEUED"
  <2>1. /\ r.on = a.on /\ r.tx = s.tx /\ r.outgoingAck = s.outgoingAck /\ r.csp = s.csp
        /\ r.stopIE = s.stopIE
    BY <1>4, <1>5, <1>7, <1>11 DEF Same, Fields, MacStart
  <2>2. Channel(r, pc)
    BY <1>4, <1>9, <1>11, <2>1 DEF Channel, TxPhysical
  <2>3. Fifo(r)
    BY <1>4, <1>9, <2>1 DEF Fifo
  <2>4. Resting(r)
    BY <1>4, <1>9, <2>1 DEF Resting
  <2>5. Wanted(r, pc)
    BY <1>4, <1>9, <1>11, <2>1 DEF Wanted, TxPhysical, RxPhysical
  <2>6. QED
    BY <1>4, <1>7, <1>8, <1>9, <1>11, <2>1, <2>2, <2>3, <2>4, <2>5
<1>12. QED
  BY <1>10, <1>11

\* rxHaltCleanupFinalStep: the receiver is back at its start.
LEMMA FinalStep ==
    ASSUME NEW s, NEW pc, Shaped(s), s.ok, Channel(s, pc), Resting(s),
           s.rx = "NO_ACTIVITY" /\ ~s.outgoingAck => Wanted(s, pc),
           s.rx \in {"NO_ACTIVITY", "STARTED"}, NEW r, r = RxHaltCleanupFinalStep(s)
    PROVE  /\ Shaped(r) /\ Same(r, s, Touched \cup {"buf", "state", "rx"}) /\ r.ok
           /\ r.rx = "NO_ACTIVITY" /\ ~r.outgoingAck /\ r.fifo = NoFrame /\ ~r.ready
           /\ (r.tx = "NO_ACTIVITY" <=> s.tx = "NO_ACTIVITY") /\ (r.tx = "INITIALIZE" <=> s.tx = "INITIALIZE")
           /\ Channel(r, pc) /\ Fifo(r) /\ Machine(r) /\ Resting(r) /\ Wanted(r, pc)
<1>1. PICK a : a = [Flush(s) EXCEPT !.ackIE = FALSE, !.buf = FALSE, !.state = "start"]
  OBVIOUS
<1>2. PICK b : b = [a EXCEPT !.rx = "NO_ACTIVITY", !.outgoingAck = FALSE]
  OBVIOUS
<1>3. r = IF s.rx # "NO_ACTIVITY" \/ s.outgoingAck THEN RxPostRxUpdates(b) ELSE a
  BY <1>1, <1>2 DEF RxHaltCleanupFinalStep
<1>4. /\ Shaped(a) /\ Same(a, s, {"fifo", "ready", "over", "ackIE", "buf", "state"})
      /\ a.fifo = NoFrame /\ ~a.ready /\ ~a.buf /\ a.state = "start"
  BY ZenonT(60), <1>1 DEF Flush, Same, Fields, MacStart, Shaped
<1>5. CASE s.rx # "NO_ACTIVITY" \/ s.outgoingAck
  <2>1. /\ Shaped(b) /\ Same(b, a, {"rx", "outgoingAck"}) /\ b.rx = "NO_ACTIVITY" /\ ~b.outgoingAck
    BY <1>2, <1>4 DEF Same, Fields, MacStart, Shaped
  <2>2. /\ b.ok /\ b.tx = s.tx /\ b.stopIF = s.stopIF /\ b.cspz = s.cspz /\ b.csp = s.csp
        /\ b.stopIE = s.stopIE /\ b.on = s.on /\ b.ackReq = s.ackReq /\ b.fifo = NoFrame /\ ~b.ready
        /\ b.awake = s.awake /\ ~b.buf /\ b.state = "start"
    BY <1>4, <2>1 DEF Same, Fields, MacStart
  <2>3. Channel(b, pc) /\ Fifo(b) /\ Resting(b)
    BY <2>1, <2>2 DEF Channel, Fifo, Resting
  <2>4. /\ Shaped(r) /\ Same(r, b, Touched) /\ r.ok /\ ~r.outgoingAck
        /\ r.tx = IF b.tx = "QUEUED" THEN "GO" ELSE b.tx
        /\ Channel(r, pc) /\ Fifo(r) /\ Resting(r) /\ Wanted(r, pc)
        /\ r.fifo \in {b.fifo, NoFrame} /\ (r.ready => b.ready)
    BY <1>3, <1>5, <2>1, <2>2, <2>3, PostRx
  <2>5. Same(r, s, Touched \cup {"buf", "state", "rx"})
    <3>1. "outgoingAck" \in Touched /\ {"fifo", "ready", "over", "ackIE"} \subseteq Touched
      BY DEF Touched
    <3>2. QED
      BY <1>4, <2>1, <2>4, <3>1 DEF Same
  <2>6. r.rx = "NO_ACTIVITY" /\ ~r.buf /\ r.state = "start"
    BY <2>1, <2>2, <2>4 DEF Same, Touched, Fields, MacStart
  <2>7. Machine(r)
    BY <2>6 DEF Machine
  <2>8. QED
    BY <2>2, <2>4, <2>5, <2>6, <2>7
<1>6. CASE s.rx = "NO_ACTIVITY" /\ ~s.outgoingAck
  <2>1. r = a
    BY <1>3, <1>6
  <2>2. Same(r, s, Touched \cup {"buf", "state", "rx"})
    BY <1>4, <2>1 DEF Same, Touched
  <2>3. /\ r.ok /\ r.tx = s.tx /\ r.stopIF = s.stopIF /\ r.cspz = s.cspz /\ r.csp = s.csp
        /\ r.stopIE = s.stopIE /\ r.on = s.on /\ r.ackReq = s.ackReq /\ r.fifo = NoFrame /\ ~r.ready
        /\ r.awake = s.awake /\ ~r.buf /\ r.state = "start" /\ r.rx = s.rx /\ ~r.outgoingAck
        /\ r.enabled = s.enabled
    BY <1>4, <1>6, <2>1 DEF Same, Fields, MacStart
  <2>4. Channel(r, pc) /\ Fifo(r) /\ Resting(r) /\ Machine(r)
    BY <1>6, <2>3 DEF Channel, Fifo, Resting, Machine
  <2>5. Wanted(r, pc)
    BY <1>6, <2>3 DEF Wanted, RxPhysical, TxPhysical
  <2>6. QED
    BY <1>4, <1>6, <2>1, <2>2, <2>3, <2>4, <2>5
<1>7. QED
  BY <1>5, <1>6

\* macRadioUpdateChannel, away from the receive interrupt.
LEMMA ChannelOut ==
    ASSUME NEW s, NEW pc, Shaped(s), s.ok, s.tx = "NO_ACTIVITY", ~s.isr, ~s.awake => ~s.newChannel,
           Channel(s, pc), Fifo(s), Machine(s), Resting(s), Wanted(s, pc), NEW r, r = RadioUpdateChannel(s)
    PROVE  /\ Shaped(r) /\ Same(r, s, Touched \cup {"buf", "state", "rx", "newChannel"}) /\ r.ok
           /\ r.tx = "NO_ACTIVITY" /\ ~r.newChannel
           /\ r.fifo \in {s.fifo, NoFrame} /\ (r.ready => s.ready)
           /\ Channel(r, pc) /\ Fifo(r) /\ Machine(r) /\ Resting(r) /\ Wanted(r, pc)
<1>1. PICK a : a = AssertThat(s, s.tx = "NO_ACTIVITY")
  OBVIOUS
<1>2. PICK b : b = RxOff([a EXCEPT !.newChannel = FALSE])
  OBVIOUS
<1>3. PICK c : c = RxHaltCleanupFinalStep(b)
  OBVIOUS
<1>4. Shaped(a) /\ Same(a, s, {"ok"}) /\ a.ok
  BY <1>1 DEF AssertThat, Same, Fields, MacStart, Shaped
<1>5. /\ a.newChannel = s.newChannel /\ a.rx = s.rx /\ a.awake = s.awake /\ a.isr = s.isr /\ a.tx = s.tx
      /\ a.stopIF = s.stopIF /\ a.cspz = s.cspz /\ a.csp = s.csp
      /\ a.stopIE = s.stopIE /\ a.on = s.on /\ a.ackReq = s.ackReq /\ a.fifo = s.fifo /\ a.ready = s.ready
      /\ a.buf = s.buf /\ a.state = s.state /\ a.outgoingAck = s.outgoingAck /\ a.enabled = s.enabled
  BY <1>4 DEF Same, Fields, MacStart
<1>6. CASE ~s.newChannel
  <2>1. r = a
    BY <1>1, <1>5, <1>6 DEF RadioUpdateChannel
  <2>2. Same(r, s, Touched \cup {"buf", "state", "rx", "newChannel"})
    BY <1>4, <2>1 DEF Same, Touched
  <2>3. Channel(r, pc) /\ Fifo(r) /\ Machine(r) /\ Resting(r)
    BY <1>5, <2>1 DEF Channel, Fifo, Machine, Resting
  <2>4. Wanted(r, pc)
    BY <1>5, <2>1 DEF Wanted, RxPhysical, TxPhysical
  <2>5. QED
    BY <1>4, <1>5, <1>6, <2>1, <2>2, <2>3, <2>4
<1>7. CASE s.newChannel
  <2>1. /\ Shaped(b) /\ Same(b, a, {"newChannel", "on", "fifo", "ready", "over", "hwAck"})
        /\ ~b.newChannel /\ ~b.on
        /\ b.fifo \in {a.fifo, NoFrame} /\ (b.ready => a.ready)
    <3>1. PICK e : e = [a EXCEPT !.newChannel = FALSE]
      OBVIOUS
    <3>2. Shaped(e) /\ Same(e, a, {"newChannel"}) /\ ~e.newChannel
      BY <1>4, <3>1 DEF Same, Fields, MacStart, Shaped
    <3>3. /\ Shaped(b) /\ Same(b, e, {"on", "fifo", "ready", "over", "hwAck"}) /\ ~b.on
          /\ b.fifo \in {e.fifo, NoFrame} /\ (b.ready => e.ready)
      BY <1>2, <3>1, <3>2, TurnOff
    <3>4. QED
      BY <3>2, <3>3 DEF Same, Fields, MacStart
  <2>2. /\ b.rx = s.rx /\ b.awake = s.awake /\ b.isr = s.isr /\ b.tx = s.tx
        /\ b.stopIF = s.stopIF /\ b.cspz = s.cspz /\ b.csp = s.csp /\ b.ok
        /\ b.stopIE = s.stopIE /\ b.ackReq = s.ackReq
        /\ b.outgoingAck = s.outgoingAck /\ b.enabled = s.enabled
    BY <1>4, <1>5, <2>1 DEF Same, Fields, MacStart
  <2>3. Channel(b, pc) /\ Resting(b)
    BY <2>1, <2>2 DEF Channel, Resting
  <2>4. Wanted(b, pc) /\ b.rx \in {"NO_ACTIVITY", "STARTED"}
    BY <2>1, <2>2 DEF Wanted, Machine
  <2>5. /\ Shaped(c) /\ Same(c, b, Touched \cup {"buf", "state", "rx"}) /\ c.ok
        /\ c.rx = "NO_ACTIVITY" /\ ~c.outgoingAck /\ c.fifo = NoFrame /\ ~c.ready
        /\ (c.tx = "NO_ACTIVITY" <=> b.tx = "NO_ACTIVITY")
        /\ Channel(c, pc) /\ Fifo(c) /\ Machine(c) /\ Resting(c) /\ Wanted(c, pc)
    BY <1>3, <2>1, <2>2, <2>3, <2>4, FinalStep
  <2>6. r = RxOnRequest(c)
    BY <1>1, <1>2, <1>3, <1>5, <1>7, <2>2 DEF RadioUpdateChannel, RxHaltCleanup
  <2>7. Shaped(r) /\ Same(r, c, {"on"}) /\ (r.on => c.on \/ c.enabled) /\ (c.on => r.on)
    BY <2>5, <2>6 DEF RxOnRequest, RxOn, Same, Fields, MacStart, Shaped
  <2>8. /\ r.tx = c.tx /\ r.rx = c.rx /\ r.awake = s.awake /\ r.stopIF = c.stopIF /\ r.cspz = c.cspz
        /\ r.csp = c.csp /\ r.ok = c.ok /\ r.stopIE = c.stopIE /\ r.ackReq = c.ackReq
        /\ r.outgoingAck = c.outgoingAck /\ r.enabled = c.enabled /\ r.fifo = c.fifo /\ r.ready = c.ready
        /\ r.buf = c.buf /\ r.state = c.state /\ r.newChannel = b.newChannel
    <3>1. c.newChannel = b.newChannel /\ c.awake = b.awake
      BY <2>5 DEF Same, Touched, Fields, MacStart
    <3>2. QED
      BY <2>2, <2>7, <3>1 DEF Same, Fields, MacStart
  <2>9. Same(r, s, Touched \cup {"buf", "state", "rx", "newChannel"})
    <3>1. {"ok", "on", "fifo", "ready", "over", "hwAck"} \subseteq Touched
      BY DEF Touched
    <3>2. QED
      BY <1>4, <2>1, <2>5, <2>7, <3>1 DEF Same
  <2>10. Channel(r, pc) /\ Fifo(r) /\ Machine(r) /\ Resting(r)
    BY <1>7, <2>2, <2>5, <2>7, <2>8 DEF Channel, Fifo, Machine, Resting
  <2>11. Wanted(r, pc)
    BY <2>2, <2>5, <2>7, <2>8 DEF Wanted, RxPhysical, TxPhysical
  <2>12. QED
    BY <1>5, <2>1, <2>2, <2>5, <2>7, <2>8, <2>9, <2>10, <2>11
<1>8. QED
  BY <1>6, <1>7

\* macRadioUpdateChannel within it: what is to be cleaned up is left to its end.
LEMMA ChannelIsr ==
    ASSUME NEW s, Shaped(s), s.ok, s.tx = "NO_ACTIVITY", s.isr, Fifo(s), NEW r, r = RadioUpdateChannel(s)
    PROVE  /\ Shaped(r) /\ Same(r, s, {"on", "fifo", "ready", "over", "hwAck", "newChannel", "reset", "ok"})
           /\ r.ok /\ ~r.newChannel /\ Fifo(r) /\ (s.reset => r.reset)
           /\ (r.fifo = s.fifo /\ (s.reset \/ ~r.reset)) \/ (r.reset /\ r.fifo = NoFrame)
           /\ r.ready => s.ready
<1>1. PICK a : a = AssertThat(s, s.tx = "NO_ACTIVITY")
  OBVIOUS
<1>2. PICK b : b = RxOff([a EXCEPT !.newChannel = FALSE])
  OBVIOUS
<1>3. Shaped(a) /\ Same(a, s, {"ok"}) /\ a.ok
  BY <1>1 DEF AssertThat, Same, Fields, MacStart, Shaped
<1>4. /\ a.newChannel = s.newChannel /\ a.fifo = s.fifo /\ a.ready = s.ready /\ a.on = s.on
      /\ a.isr = s.isr /\ a.reset = s.reset
  BY <1>3 DEF Same, Fields, MacStart
<1>5. CASE ~s.newChannel
  <2>1. r = a
    BY <1>1, <1>4, <1>5 DEF RadioUpdateChannel
  <2>2. QED
    BY <1>3, <1>4, <1>5, <2>1 DEF Same, Fifo
<1>6. CASE s.newChannel
  <2>1. /\ Shaped(b) /\ Same(b, a, {"newChannel", "on", "fifo", "ready", "over", "hwAck"})
        /\ ~b.newChannel /\ ~b.on
        /\ (a.on => b.fifo = NoFrame /\ ~b.ready) /\ (~a.on => b.fifo = a.fifo /\ b.ready = a.ready)
    <3>1. PICK e : e = [a EXCEPT !.newChannel = FALSE]
      OBVIOUS
    <3>2. Shaped(e) /\ Same(e, a, {"newChannel"}) /\ ~e.newChannel
      BY <1>3, <3>1 DEF Same, Fields, MacStart, Shaped
    <3>3. /\ Shaped(b) /\ Same(b, e, {"on", "fifo", "ready", "over", "hwAck"}) /\ ~b.on
          /\ (e.on => b.fifo = NoFrame /\ ~b.ready) /\ (~e.on => b = e)
      BY <1>2, <3>1, <3>2, TurnOff
    <3>4. QED
      BY <3>2, <3>3 DEF Same, Fields, MacStart
  <2>2. b.isr = s.isr
    BY <1>4, <2>1 DEF Same, Fields, MacStart
  <2>3. r = RxOnRequest([b EXCEPT !.reset = TRUE])
    BY <1>1, <1>2, <1>4, <1>6, <2>2 DEF RadioUpdateChannel, RxHaltCleanup
  <2>4. Shaped(r) /\ Same(r, b, {"on", "reset"}) /\ r.reset
    BY ZenonT(60), <2>1, <2>3 DEF RxOnRequest, RxOn, Same, Fields, MacStart, Shaped
  <2>5. r.fifo = b.fifo /\ r.ready = b.ready /\ r.newChannel = b.newChannel /\ r.ok = a.ok
    BY <2>1, <2>4 DEF Same, Fields, MacStart
  <2>6. r.fifo = NoFrame /\ ~r.ready
    BY <1>4, <2>1, <2>5 DEF Fifo
  <2>7. Same(r, s, {"on", "fifo", "ready", "over", "hwAck", "newChannel", "reset", "ok"})
    BY <1>3, <2>1, <2>4 DEF Same
  <2>8. QED
    BY <1>3, <2>1, <2>4, <2>5, <2>6, <2>7 DEF Fifo
<1>7. QED
  BY <1>5, <1>6

\* The frame is in the radio, and the CSP has its program.
LEMMA Prepare ==
    ASSUME NEW s, Shaped(s), s.ok, ~s.stopIE, NEW r, r = TxPrepare(s)
    PROVE  /\ Shaped(r) /\ Same(r, s, {"tx", "nb", "ok", "cspz", "csp", "stopIF", "intIF"}) /\ r.ok
           /\ r.tx = "INITIALIZE" /\ r.nb = 0 /\ r.cspz = "busy" /\ r.csp = "idle" /\ ~r.stopIF
BY ZenonT(60) DEF TxPrepare, CspPrep, AssertThat, Same, Fields, MacStart, Shaped

\* The frame goes out at once, or waits for what is being received.
LEMMA Decide ==
    ASSUME NEW s, Shaped(s), NEW r, r = TxDecide(s)
    PROVE  /\ Shaped(r) /\ Same(r, s, {"tx"})
           /\ r.tx = IF s.rx = "NO_ACTIVITY" /\ ~s.outgoingAck THEN "GO" ELSE "QUEUED"
BY DEF TxDecide, Same, Fields, MacStart, Shaped

\* What sending a frame again may change.
Resent == {"retries", "status", "tx", "nb", "cspz", "csp", "stopIF", "intIF", "ackIE",
           "outgoingAck", "on", "stopIE", "intIE", "ok"}

\* macTxCompleteCallback: the upper MAC may send the frame again at once.
LEMMA Callback ==
    ASSUME NEW s, NEW pc, NEW st \in Statuses, Shaped(s), s.ok, s.tx = "NO_ACTIVITY", s.csp = "idle", ~s.stopIE,
           s.rx \in {"NO_ACTIVITY", "STARTED"}, pc \notin {"decide", "go"}, Counted(s),
           NEW r, r = TxCompleteCallback(s, st)
    PROVE  /\ Shaped(r) /\ r.ok /\ Same(r, s, Resent)
           /\ r.tx \in {"NO_ACTIVITY", "QUEUED", "GO"} /\ Channel(r, pc) /\ Counted(r) /\ Tries(r)
           /\ (r.outgoingAck <=> s.outgoingAck) /\ (s.on => r.on)
           /\ r.tx # "GO" => r.on = s.on
           /\ r.tx = "QUEUED" => RxPhysical(s)
           /\ r.tx = "GO" => ~RxPhysical(s)
           /\ r.tx # "NO_ACTIVITY" => st = "NO_ACK"
           /\ r.tx = "NO_ACTIVITY" => r.status = st
<1>1. CASE ~ (st = "NO_ACK" /\ s.retries > 0)
  <2>1. r = [s EXCEPT !.status = st]
    BY <1>1 DEF TxCompleteCallback
  <2>2. Shaped(r) /\ Same(r, s, {"status"}) /\ r.status = st
    BY <2>1 DEF Same, Fields, MacStart, Shaped
  <2>3. /\ r.ok = s.ok /\ r.tx = s.tx /\ r.csp = s.csp /\ r.stopIE = s.stopIE /\ r.nb = s.nb /\ r.on = s.on
        /\ r.retries = s.retries /\ r.cspz = s.cspz /\ r.acked = s.acked /\ r.missed = s.missed
        /\ r.outgoingAck = s.outgoingAck
    BY <2>2 DEF Same, Fields, MacStart
  <2>4. Same(r, s, Resent)
    BY <2>2 DEF Same, Resent
  <2>5. Channel(r, pc) /\ Counted(r) /\ Tries(r)
    BY <2>2, <2>3 DEF Channel, Counted, Tries
  <2>6. QED
    BY <2>2, <2>3, <2>4, <2>5
<1>2. CASE st = "NO_ACK" /\ s.retries > 0
  <2>1. PICK a : a = [s EXCEPT !.retries = s.retries - 1, !.status = st]
    OBVIOUS
  <2>2. PICK b : b = AssertThat(a, a.tx = "NO_ACTIVITY")
    OBVIOUS
  <2>3. PICK c : c = TxPrepare(b)
    OBVIOUS
  <2>4. PICK d : d = TxDecide(c)
    OBVIOUS
  <2>5. r = IF d.tx = "GO" THEN TxGo(d) ELSE d
    BY <1>2, <2>1, <2>2, <2>3, <2>4 DEF TxCompleteCallback, TxFrameRetransmit
  <2>6. /\ Shaped(a) /\ Same(a, s, {"retries", "status"}) /\ a.retries = s.retries - 1 /\ a.status = st
    BY <2>1 DEF Same, Fields, MacStart, Shaped
  <2>7. a.tx = s.tx /\ a.ok = s.ok /\ a.stopIE = s.stopIE
    BY <2>6 DEF Same, Fields, MacStart
  <2>8. Shaped(b) /\ Same(b, a, {"ok"}) /\ b.ok
    BY <2>2, <2>6, <2>7 DEF AssertThat, Same, Fields, MacStart, Shaped
  <2>9. b.stopIE = s.stopIE
    BY <2>7, <2>8 DEF Same, Fields, MacStart
  <2>10. /\ Shaped(c) /\ Same(c, b, {"tx", "nb", "ok", "cspz", "csp", "stopIF", "intIF"}) /\ c.ok
         /\ c.nb = 0 /\ c.cspz = "busy" /\ c.csp = "idle" /\ ~c.stopIF
    BY <2>3, <2>8, <2>9, Prepare
  <2>11. /\ Shaped(d) /\ Same(d, c, {"tx"})
         /\ d.tx = IF c.rx = "NO_ACTIVITY" /\ ~c.outgoingAck THEN "GO" ELSE "QUEUED"
    BY <2>4, <2>10, Decide
  <2>12. /\ d.retries = s.retries - 1 /\ d.status = st /\ d.nb = 0 /\ d.cspz = "busy"
         /\ d.csp = "idle" /\ ~d.stopIF /\ ~d.stopIE /\ d.ok /\ d.on = s.on
         /\ d.outgoingAck = s.outgoingAck /\ d.rx = s.rx /\ c.outgoingAck = s.outgoingAck /\ c.rx = s.rx
    <3>1. /\ b.retries = a.retries /\ b.status = a.status /\ b.on = s.on /\ b.outgoingAck = s.outgoingAck
          /\ b.rx = s.rx
      BY <2>6, <2>8 DEF Same, Fields, MacStart
    <3>2. /\ c.retries = b.retries /\ c.status = b.status /\ c.on = b.on /\ c.outgoingAck = b.outgoingAck
          /\ c.rx = b.rx /\ c.stopIE = b.stopIE
      BY <2>10 DEF Same, Fields, MacStart
    <3>3. /\ d.retries = c.retries /\ d.status = c.status /\ d.on = c.on /\ d.outgoingAck = c.outgoingAck
          /\ d.rx = c.rx /\ d.stopIE = c.stopIE /\ d.nb = c.nb /\ d.acked = c.acked
          /\ d.missed = c.missed /\ d.cspz = c.cspz
          /\ d.csp = c.csp /\ d.stopIF = c.stopIF /\ d.ok = c.ok
      BY <2>11 DEF Same, Fields, MacStart
    <3>4. QED
      BY <2>6, <2>9, <2>10, <3>1, <3>2, <3>3
  <2>13. Same(d, s, Resent)
    BY <2>6, <2>8, <2>10, <2>11 DEF Same, Resent
  <2>14. CASE d.tx # "GO"
    <3>1. r = d /\ d.tx = "QUEUED" /\ RxPhysical(s)
      BY <2>5, <2>11, <2>12, <2>14 DEF RxPhysical
    <3>2. Channel(r, pc) /\ Counted(r) /\ Tries(r)
      BY <1>2, <2>12, <3>1, MacAssumption DEF Channel, Counted, Tries
    <3>3. QED
      BY <1>2, <2>11, <2>12, <2>13, <3>1, <3>2
  <2>15. CASE d.tx = "GO"
    <3>1. /\ Shaped(r) /\ Same(r, d, {"ackIE", "outgoingAck", "on", "stopIE", "intIE", "csp"})
          /\ ~r.outgoingAck /\ r.on /\ r.stopIE /\ r.csp = "csma"
      BY <2>5, <2>11, <2>15, Go
    <3>2. /\ r.tx = "GO" /\ r.retries = d.retries /\ r.status = d.status /\ r.nb = d.nb
          /\ r.acked = d.acked /\ r.missed = d.missed /\ r.cspz = d.cspz /\ r.stopIF = d.stopIF
          /\ r.ok = d.ok
      BY <2>15, <3>1 DEF Same, Fields, MacStart
    <3>3. ~s.outgoingAck /\ ~RxPhysical(s)
      BY <2>11, <2>12, <2>15 DEF RxPhysical
    <3>4. Same(r, s, Resent)
      BY <2>13, <3>1 DEF Same, Resent
    <3>5. Channel(r, pc) /\ Counted(r) /\ Tries(r)
      BY <1>2, <2>12, <3>1, <3>2, MacAssumption DEF Channel, Counted, Tries
    <3>6. QED
      BY <1>2, <2>12, <3>1, <3>2, <3>3, <3>4, <3>5
  <2>16. QED
    BY <2>14, <2>15
<1>3. QED
  BY <1>1, <1>2

\* txComplete, away from the receive interrupt: everything is in order again.
LEMMA CompleteOut ==
    ASSUME NEW s, NEW pc, NEW st \in Statuses, Shaped(s), s.ok, ~s.isr, ~s.reset, s.csp = "idle", ~s.stopIE,
           pc \in {"idle", "off"}, Counted(s), Fifo(s), Machine(s), TheAck(s) => s.missed,
           s.ready /\ TheAck(s) => s.acked,
           ~s.awake => ~s.on /\ s.rx = "NO_ACTIVITY" /\ ~s.outgoingAck /\ ~s.newChannel /\ st # "NO_ACK",
           st = "SUCCESS" /\ s.ackReq => s.acked, st = "NO_ACK" => ~s.acked \/ s.missed
    PROVE  Kept(TxComplete(s, st), pc)
<1>1. PICK a : a = [s EXCEPT !.tx = "NO_ACTIVITY"]
  OBVIOUS
<1>2. PICK b : b = RxOffRequest(a)
  OBVIOUS
<1>3. PICK c : c = RadioUpdateTxPower(b)
  OBVIOUS
<1>4. PICK d : d = RadioUpdateChannel(c)
  OBVIOUS
<1>5. PICK r : r = TxCompleteCallback(d, st)
  OBVIOUS
<1>6. TxComplete(s, st) = r
  BY <1>1, <1>2, <1>3, <1>4, <1>5 DEF TxComplete
<1>7. Shaped(a) /\ Same(a, s, {"tx"}) /\ a.tx = "NO_ACTIVITY"
  BY <1>1 DEF Same, Fields, MacStart, Shaped
<1>8. /\ Shaped(b) /\ Same(b, a, {"on", "fifo", "ready", "over", "hwAck"})
      /\ a.enabled \/ RxPhysical(a) \/ TxPhysical(a) => b = a
      /\ ~ (a.enabled \/ RxPhysical(a) \/ TxPhysical(a)) => ~b.on
      /\ b = a \/ (~b.on /\ b.fifo = NoFrame /\ ~b.ready)
  BY <1>2, <1>7, OffRequest
<1>9. Shaped(c) /\ Same(c, b, {"newPower"})
  BY <1>3, <1>8, TxPower
<1>10. /\ c.rx = s.rx /\ c.outgoingAck = s.outgoingAck /\ c.enabled = s.enabled /\ c.tx = "NO_ACTIVITY"
       /\ c.csp = s.csp /\ c.stopIE = s.stopIE /\ c.ok = s.ok /\ c.isr = s.isr /\ c.awake = s.awake
       /\ c.newChannel = s.newChannel /\ c.state = s.state /\ c.buf = s.buf /\ c.reset = s.reset
       /\ c.nb = s.nb /\ c.retries = s.retries /\ c.status = s.status /\ c.cspz = s.cspz
       /\ c.ackReq = s.ackReq /\ c.acked = s.acked /\ c.missed = s.missed
       /\ c.on = b.on /\ c.fifo = b.fifo /\ c.ready = b.ready
  BY ZenonT(60), <1>7, <1>8, <1>9 DEF Same, Fields, MacStart
<1>11. /\ a.enabled = s.enabled /\ a.rx = s.rx /\ a.outgoingAck = s.outgoingAck /\ a.on = s.on
       /\ a.fifo = s.fifo /\ a.ready = s.ready
  BY <1>7 DEF Same, Fields, MacStart
<1>12. Channel(c, pc) /\ Fifo(c) /\ Resting(c)
  BY <1>8, <1>10, <1>11 DEF Channel, Fifo, Resting
<1>13. Wanted(c, pc)
  BY <1>7, <1>8, <1>10, <1>11 DEF Wanted, RxPhysical, TxPhysical
<1>14. Machine(c)
  BY <1>8, <1>10, <1>11 DEF Machine, RxPhysical
<1>15. /\ Shaped(d) /\ Same(d, c, Touched \cup {"buf", "state", "rx", "newChannel"}) /\ d.ok
       /\ d.tx = "NO_ACTIVITY" /\ ~d.newChannel
       /\ d.fifo \in {c.fifo, NoFrame} /\ (d.ready => c.ready)
       /\ Channel(d, pc) /\ Fifo(d) /\ Machine(d) /\ Resting(d) /\ Wanted(d, pc)
  <2>1. c.ok /\ ~c.isr /\ c.tx = "NO_ACTIVITY" /\ (~c.awake => ~c.newChannel)
    BY <1>10
  <2>2. QED
    BY <1>4, <1>9, <1>12, <1>13, <1>14, <2>1, ChannelOut
<1>16. /\ d.nb = c.nb /\ d.retries = c.retries /\ d.status = c.status /\ d.cspz = c.cspz
       /\ d.ackReq = c.ackReq /\ d.acked = c.acked /\ d.missed = c.missed /\ d.isr = c.isr
       /\ d.reset = c.reset /\ d.awake = c.awake
  BY <1>15 DEF Same, Touched, Fields, MacStart
<1>17. d.csp = "idle" /\ ~d.stopIE /\ d.rx \in {"NO_ACTIVITY", "STARTED"} /\ Counted(d)
  BY <1>10, <1>15, <1>16 DEF Channel, Machine, Counted
<1>18. /\ Shaped(r) /\ r.ok /\ Same(r, d, Resent)
       /\ r.tx \in {"NO_ACTIVITY", "QUEUED", "GO"} /\ Channel(r, pc) /\ Counted(r) /\ Tries(r)
       /\ (r.outgoingAck <=> d.outgoingAck) /\ (d.on => r.on)
       /\ r.tx # "GO" => r.on = d.on
       /\ r.tx = "QUEUED" => RxPhysical(d)
       /\ r.tx # "NO_ACTIVITY" => st = "NO_ACK"
       /\ r.tx = "NO_ACTIVITY" => r.status = st
  BY <1>5, <1>15, <1>17, Callback
<1>19. /\ r.rx = d.rx /\ r.state = d.state /\ r.buf = d.buf /\ r.fifo = d.fifo /\ r.ready = d.ready
       /\ r.awake = d.awake /\ r.enabled = d.enabled /\ r.newChannel = d.newChannel /\ r.ackReq = d.ackReq
       /\ r.isr = d.isr /\ r.reset = d.reset /\ r.acked = d.acked /\ r.missed = d.missed
  BY <1>18 DEF Same, Resent, Fields, MacStart
<1>20. Tuned(r) /\ Fifo(r) /\ Machine(r)
  BY <1>15, <1>18, <1>19 DEF Tuned, Fifo, Machine
<1>21. Wanted(r, pc)
  BY <1>15, <1>18, <1>19 DEF Wanted, RxPhysical, TxPhysical
<1>22. Resting(r)
  BY <1>10, <1>15, <1>16, <1>18, <1>19 DEF Resting
<1>23. (TheAck(r) => r.missed) /\ (r.ready /\ TheAck(r) => r.acked)
  BY <1>8, <1>10, <1>11, <1>15, <1>16, <1>19 DEF TheAck
<1>24. Due(r, pc) /\ Told(r) /\ Acked(r)
  BY <1>10, <1>16, <1>18, <1>19, <1>23 DEF Due, Told, Acked
<1>25. QED
  BY <1>6, <1>10, <1>16, <1>18, <1>19, <1>20, <1>21, <1>22, <1>24 DEF Kept, Core

\* What the end of a transmission may change.
Finished == Resent \cup {"fifo", "ready", "over", "hwAck", "newPower", "newChannel", "reset"}

\* txComplete within it.
LEMMA CompleteIsr ==
    ASSUME NEW s, NEW pc, NEW st \in Statuses, Shaped(s), s.ok, s.isr, s.rx = "STARTED", s.csp = "idle", ~s.stopIE,
           pc \in {"idle", "off"}, Counted(s), Fifo(s), NEW r, r = TxComplete(s, st)
    PROVE  /\ Shaped(r) /\ r.ok /\ Same(r, s, Finished) /\ ~r.newChannel
           /\ r.tx \in {"NO_ACTIVITY", "QUEUED"} /\ Channel(r, pc) /\ Counted(r) /\ Tries(r) /\ Fifo(r)
           /\ (r.outgoingAck <=> s.outgoingAck) /\ (s.reset => r.reset)
           /\ (r.fifo = s.fifo /\ (s.reset \/ ~r.reset)) \/ (r.reset /\ r.fifo = NoFrame)
           /\ r.ready => s.ready
           /\ r.tx = "NO_ACTIVITY" => r.status = st
           /\ r.tx # "NO_ACTIVITY" => st = "NO_ACK"
<1>1. PICK a : a = [s EXCEPT !.tx = "NO_ACTIVITY"]
  OBVIOUS
<1>2. PICK c : c = RadioUpdateTxPower(a)
  OBVIOUS
<1>3. PICK d : d = RadioUpdateChannel(c)
  OBVIOUS
<1>4. Shaped(a) /\ Same(a, s, {"tx"}) /\ a.tx = "NO_ACTIVITY"
  BY <1>1 DEF Same, Fields, MacStart, Shaped
<1>5. RxPhysical(a)
  BY <1>4 DEF RxPhysical, Same, Fields, MacStart
<1>6. RxOffRequest(a) = a
  BY <1>4, <1>5, OffRequest
<1>7. r = TxCompleteCallback(d, st)
  BY <1>1, <1>2, <1>3, <1>6 DEF TxComplete
<1>8. Shaped(c) /\ Same(c, a, {"newPower"})
  BY <1>2, <1>4, TxPower
<1>9. /\ c.rx = s.rx /\ c.outgoingAck = s.outgoingAck /\ c.tx = "NO_ACTIVITY" /\ c.on = s.on
      /\ c.csp = s.csp /\ c.stopIE = s.stopIE /\ c.ok = s.ok /\ c.isr = s.isr /\ c.reset = s.reset
      /\ c.nb = s.nb /\ c.retries = s.retries /\ c.status = s.status /\ c.cspz = s.cspz
      /\ c.acked = s.acked /\ c.missed = s.missed /\ c.fifo = s.fifo /\ c.ready = s.ready
  BY <1>4, <1>8 DEF Same, Fields, MacStart
<1>10. Fifo(c)
  BY <1>9 DEF Fifo
<1>11. /\ Shaped(d) /\ Same(d, c, {"on", "fifo", "ready", "over", "hwAck", "newChannel", "reset", "ok"})
       /\ d.ok /\ ~d.newChannel /\ Fifo(d) /\ (c.reset => d.reset)
       /\ (d.fifo = c.fifo /\ (c.reset \/ ~d.reset)) \/ (d.reset /\ d.fifo = NoFrame)
       /\ d.ready => c.ready
  BY <1>3, <1>8, <1>9, <1>10, ChannelIsr
<1>12. /\ d.rx = c.rx /\ d.outgoingAck = c.outgoingAck /\ d.tx = c.tx /\ d.csp = c.csp
       /\ d.stopIE = c.stopIE /\ d.nb = c.nb /\ d.retries = c.retries /\ d.status = c.status
       /\ d.cspz = c.cspz /\ d.acked = c.acked /\ d.missed = c.missed
  BY <1>11 DEF Same, Fields, MacStart
<1>13. Counted(d) /\ RxPhysical(d)
  BY <1>9, <1>12 DEF Counted, RxPhysical
<1>14. /\ Shaped(r) /\ r.ok /\ Same(r, d, Resent)
       /\ r.tx \in {"NO_ACTIVITY", "QUEUED", "GO"} /\ Channel(r, pc) /\ Counted(r) /\ Tries(r)
       /\ (r.outgoingAck <=> d.outgoingAck) /\ (d.on => r.on)
       /\ r.tx = "GO" => ~RxPhysical(d)
       /\ r.tx = "NO_ACTIVITY" => r.status = st
       /\ r.tx # "NO_ACTIVITY" => st = "NO_ACK"
  <2>1. /\ d.tx = "NO_ACTIVITY" /\ d.csp = "idle" /\ ~d.stopIE /\ d.rx \in {"NO_ACTIVITY", "STARTED"}
        /\ pc \notin {"decide", "go"}
    BY <1>9, <1>12
  <2>2. QED
    BY <1>7, <1>11, <1>13, <2>1, Callback
<1>15. r.fifo = d.fifo /\ r.ready = d.ready /\ r.reset = d.reset /\ r.newChannel = d.newChannel
  BY <1>14 DEF Same, Resent, Fields, MacStart
<1>16. Fifo(r)
  BY <1>11, <1>14, <1>15 DEF Fifo
<1>17. Same(r, s, Finished)
  <2>1. {"tx", "on", "ok"} \subseteq Resent
    BY DEF Resent
  <2>2. QED
    BY <1>4, <1>8, <1>11, <1>14, <2>1 DEF Same, Finished
<1>18. QED
  BY <1>9, <1>11, <1>12, <1>13, <1>14, <1>15, <1>16, <1>17

-----------------------------------------------------------------------------
(* The CSP has stopped.                                                    *)

\* The CSP rests; the radio is awake.
Stopped(s, pc) ==
    /\ Shaped(s) /\ s.ok /\ ~s.isr /\ ~s.reset /\ s.csp = "idle" /\ ~s.stopIE /\ s.awake
    /\ pc \in {"idle", "off"} /\ Counted(s) /\ Fifo(s) /\ Machine(s)

\* The channel was busy: another backoff, or the end of the transmission.
LEMMA ChannelBusyKeeps ==
    ASSUME NEW s, NEW pc, Stopped(s, pc), s.tx = "GO", s.nb <= MaxCsmaBackoffs, TheAck(s) => s.missed,
           s.ready /\ TheAck(s) => s.acked, ~s.acked \/ s.missed
    PROVE  Kept(TxChannelBusyCallback(s), pc)
<1>1. PICK a : a = [s EXCEPT !.tx = "CHANNEL_BUSY"]
  OBVIOUS
<1>2. PICK b : b = RxOffRequest(a)
  OBVIOUS
<1>3. PICK c : c = [b EXCEPT !.nb = b.nb + 1]
  OBVIOUS
<1>4. PICK d : d = CspPrep(c)
  OBVIOUS
<1>5. PICK e : e = [d EXCEPT !.tx = "GO"]
  OBVIOUS
<1>6. PICK r : r = CspTxGoCsma(e)
  OBVIOUS
<1>7. TxChannelBusyCallback(s) = IF c.nb > MaxCsmaBackoffs THEN TxComplete(c, "CHANNEL_ACCESS_FAILURE") ELSE r
  BY <1>1, <1>2, <1>3, <1>4, <1>5, <1>6 DEF TxChannelBusyCallback
<1>8. Shaped(a) /\ Same(a, s, {"tx"})
  BY <1>1 DEF Same, Fields, MacStart, Shaped, Stopped
<1>9. /\ Shaped(b) /\ Same(b, a, {"on", "fifo", "ready", "over", "hwAck"})
      /\ RxPhysical(a) => b = a
      /\ b = a \/ (~b.on /\ b.fifo = NoFrame /\ ~b.ready)
  BY <1>2, <1>8, OffRequest
<1>10. b.nb = s.nb
  BY <1>8, <1>9 DEF Same, Fields, MacStart
<1>11. Shaped(c) /\ Same(c, b, {"nb"}) /\ c.nb = s.nb + 1
  BY <1>3, <1>9, <1>10 DEF Same, Fields, MacStart, Shaped
<1>12. /\ c.ok = s.ok /\ c.isr = s.isr /\ c.reset = s.reset /\ c.csp = s.csp /\ c.stopIE = s.stopIE
       /\ c.awake = s.awake /\ c.retries = s.retries /\ c.status = s.status /\ c.cspz = s.cspz
       /\ c.rx = s.rx /\ c.state = s.state /\ c.buf = s.buf /\ c.acked = s.acked /\ c.missed = s.missed
       /\ c.outgoingAck = s.outgoingAck /\ c.fifo = b.fifo /\ c.on = b.on /\ c.ready = b.ready
       /\ a.fifo = s.fifo /\ a.on = s.on /\ a.ready = s.ready /\ a.rx = s.rx
  BY <1>8, <1>9, <1>11 DEF Same, Fields, MacStart
<1>13. Counted(c)
  BY <1>11, <1>12, MacAssumption DEF Counted, Stopped
<1>14. Fifo(c) /\ Machine(c) /\ (TheAck(c) => c.missed) /\ (c.ready /\ TheAck(c) => c.acked)
  BY <1>9, <1>12 DEF Fifo, Machine, TheAck, RxPhysical, Stopped
<1>15. CASE c.nb > MaxCsmaBackoffs
  <2>1. "CHANNEL_ACCESS_FAILURE" \in Statuses
    BY DEF Statuses
  <2>2. c.ok /\ ~c.isr /\ ~c.reset /\ c.csp = "idle" /\ ~c.stopIE /\ c.awake /\ pc \in {"idle", "off"}
    BY <1>12 DEF Stopped
  <2>3. Kept(TxComplete(c, "CHANNEL_ACCESS_FAILURE"), pc)
    BY <1>11, <1>13, <1>14, <2>1, <2>2, CompleteOut
  <2>4. QED
    BY <1>7, <1>15, <2>3
<1>16. CASE ~ (c.nb > MaxCsmaBackoffs)
  <2>1. Shaped(d) /\ Same(d, c, {"ok", "cspz", "csp", "stopIF", "intIF"}) /\ d.ok /\ d.cspz = "busy" /\ ~d.stopIF
    BY ZenonT(60), <1>4, <1>11, <1>12 DEF CspPrep, AssertThat, Same, Fields, MacStart, Shaped, Stopped
  <2>2. Shaped(e) /\ Same(e, d, {"tx"}) /\ e.tx = "GO"
    BY <1>5, <2>1 DEF Same, Fields, MacStart, Shaped
  <2>3. /\ Shaped(r) /\ Same(r, e, {"on", "stopIE", "intIE", "csp"})
        /\ r.on /\ r.stopIE /\ r.csp = "csma"
    BY ZenonT(60), <1>6, <2>2 DEF CspTxGoCsma, RxOn, Same, Fields, MacStart, Shaped
  <2>4. /\ r.tx = "GO" /\ r.ok /\ r.cspz = "busy" /\ ~r.stopIF /\ r.isr = c.isr /\ r.reset = c.reset
        /\ r.awake = c.awake /\ r.retries = c.retries /\ r.status = c.status /\ r.nb = c.nb
        /\ r.rx = c.rx /\ r.state = c.state /\ r.buf = c.buf /\ r.acked = c.acked /\ r.missed = c.missed
        /\ r.fifo = c.fifo /\ r.ready = c.ready
    BY <2>1, <2>2, <2>3 DEF Same, Fields, MacStart
  <2>5. Channel(r, pc)
    BY <2>3, <2>4 DEF Channel, Stopped
  <2>6. Counted(r) /\ Tries(r) /\ Tuned(r)
    BY <1>11, <1>13, <1>16, <2>4, MacAssumption DEF Counted, Tries, Tuned, Stopped
  <2>7. Fifo(r) /\ Machine(r) /\ (TheAck(r) => r.missed) /\ (r.ready /\ TheAck(r) => r.acked)
    BY <1>14, <2>3, <2>4 DEF Fifo, Machine, TheAck
  <2>8. Wanted(r, pc) /\ Resting(r)
    BY <1>12, <2>4 DEF Wanted, TxPhysical, Resting, Stopped
  <2>9. Due(r, pc) /\ Told(r) /\ Acked(r)
    BY <1>12, <2>4, <2>7 DEF Due, Told, Acked
  <2>10. QED
    BY <1>7, <1>12, <1>16, <2>3, <2>4, <2>5, <2>6, <2>7, <2>8, <2>9 DEF Kept, Core, Stopped
<1>17. QED
  BY <1>15, <1>16

\* The ACK is awaited.
LEMMA RequestAck ==
    ASSUME NEW s, Shaped(s), s.ok, ~s.stopIE, NEW r,
           r = CspRequestAckTimeout([s EXCEPT !.tx = "LISTEN_FOR_ACK"])
    PROVE  /\ Shaped(r) /\ Same(r, s, {"tx", "ok", "cspz", "stopIF", "stopIE", "csp"}) /\ r.ok
           /\ r.tx = "LISTEN_FOR_ACK" /\ r.cspz = "timeout" /\ ~r.stopIF /\ r.stopIE /\ r.csp = "waiting"
BY ZenonT(60) DEF CspRequestAckTimeout, AssertThat, Same, Fields, MacStart, Shaped

\* It is no more.
LEMMA CancelAck ==
    ASSUME NEW s, Shaped(s), NEW r, r = CspCancelAckTimeout([s EXCEPT !.tx = "POST_ACK"])
    PROVE  /\ Shaped(r) /\ Same(r, s, {"tx", "stopIE", "csp"})
           /\ r.tx = "POST_ACK" /\ ~r.stopIE /\ r.csp = "idle"
BY ZenonT(60) DEF CspCancelAckTimeout, Same, Fields, MacStart, Shaped

\* The frame is out: the ACK is awaited, or the transmission is over.
LEMMA TxDoneKeeps ==
    ASSUME NEW s, NEW pc, Stopped(s, pc), s.tx = "GO", s.cspz = "done", s.on, Tries(s), Due(s, pc), Acked(s)
    PROVE  Kept(TxDoneCallback(s), pc)
<1>1. CASE ~s.ackReq
  <2>1. PICK a : a = [s EXCEPT !.tx = "DONE"]
    OBVIOUS
  <2>2. TxDoneCallback(s) = TxComplete(a, "SUCCESS")
    BY <1>1, <2>1 DEF TxDoneCallback
  <2>3. Shaped(a) /\ Same(a, s, {"tx"})
    BY <2>1 DEF Same, Fields, MacStart, Shaped, Stopped
  <2>4. /\ a.ok = s.ok /\ a.isr = s.isr /\ a.reset = s.reset /\ a.csp = s.csp /\ a.stopIE = s.stopIE
        /\ a.awake = s.awake /\ a.retries = s.retries /\ a.status = s.status /\ a.cspz = s.cspz
        /\ a.rx = s.rx /\ a.state = s.state /\ a.buf = s.buf /\ a.nb = s.nb /\ a.ackReq = s.ackReq
        /\ a.fifo = s.fifo /\ a.on = s.on /\ a.ready = s.ready /\ a.acked = s.acked /\ a.missed = s.missed
    BY <2>3 DEF Same, Fields, MacStart
  <2>5. Counted(a) /\ Fifo(a) /\ Machine(a)
    BY <2>4 DEF Counted, Fifo, Machine, Stopped
  <2>6. (TheAck(a) => a.missed) /\ (a.ready /\ TheAck(a) => a.acked)
    BY <1>1, <2>4 DEF TheAck, Due, Acked
  <2>7. a.ok /\ ~a.isr /\ ~a.reset /\ a.csp = "idle" /\ ~a.stopIE /\ a.awake /\ pc \in {"idle", "off"}
    BY <2>4 DEF Stopped
  <2>8. "SUCCESS" \in Statuses /\ ~a.ackReq
    BY <1>1, <2>4 DEF Statuses
  <2>9. QED
    BY <2>2, <2>3, <2>5, <2>6, <2>7, <2>8, CompleteOut
<1>2. CASE s.ackReq
  <2>1. PICK r : r = CspRequestAckTimeout([s EXCEPT !.tx = "LISTEN_FOR_ACK"])
    OBVIOUS
  <2>2. TxDoneCallback(s) = r
    BY <1>2, <2>1 DEF TxDoneCallback
  <2>3. /\ Shaped(r) /\ Same(r, s, {"tx", "ok", "cspz", "stopIF", "stopIE", "csp"}) /\ r.ok
        /\ r.tx = "LISTEN_FOR_ACK" /\ r.cspz = "timeout" /\ ~r.stopIF /\ r.stopIE /\ r.csp = "waiting"
    BY <2>1, RequestAck DEF Stopped
  <2>4. /\ r.isr = s.isr /\ r.reset = s.reset /\ r.awake = s.awake /\ r.retries = s.retries
        /\ r.status = s.status /\ r.rx = s.rx /\ r.state = s.state /\ r.buf = s.buf /\ r.nb = s.nb
        /\ r.ackReq = s.ackReq /\ r.fifo = s.fifo /\ r.on = s.on /\ r.ready = s.ready
        /\ r.acked = s.acked /\ r.missed = s.missed
    BY <2>3 DEF Same, Fields, MacStart
  <2>5. Channel(r, pc)
    BY <1>2, <2>3, <2>4 DEF Channel, Stopped
  <2>6. Counted(r) /\ Tries(r) /\ Tuned(r) /\ Fifo(r) /\ Machine(r)
    BY <2>3, <2>4 DEF Counted, Tries, Tuned, Fifo, Machine, Stopped
  <2>7. Wanted(r, pc) /\ Resting(r)
    BY <2>3, <2>4 DEF Wanted, TxPhysical, Resting, Stopped
  <2>8. Due(r, pc) /\ Told(r) /\ Acked(r)
    BY <1>2, <2>3, <2>4 DEF Due, Told, Acked, TheAck, Stopped
  <2>9. QED
    BY <2>2, <2>3, <2>4, <2>5, <2>6, <2>7, <2>8 DEF Kept, Core, Stopped
<1>3. QED
  BY <1>1, <1>2

\* The time for the ACK is over: it has not come, or it is missed.
LEMMA NoAckKeeps ==
    ASSUME NEW s, NEW pc, Stopped(s, pc), s.tx = "LISTEN_FOR_ACK", TheAck(s) => s.missed,
           s.ready /\ TheAck(s) => s.acked, ~s.acked \/ s.missed
    PROVE  Kept(TxAckNotReceivedCallback(s), pc)
<1>1. PICK a : a = CspCancelAckTimeout([s EXCEPT !.tx = "POST_ACK"])
  OBVIOUS
<1>2. TxAckNotReceivedCallback(s) = TxComplete(a, "NO_ACK")
  BY <1>1 DEF TxAckNotReceivedCallback
<1>3. Shaped(a) /\ Same(a, s, {"tx", "stopIE", "csp"}) /\ ~a.stopIE /\ a.csp = "idle"
  BY <1>1, CancelAck DEF Stopped
<1>4. /\ a.ok = s.ok /\ a.isr = s.isr /\ a.reset = s.reset /\ a.nb = s.nb
      /\ a.awake = s.awake /\ a.retries = s.retries /\ a.status = s.status /\ a.cspz = s.cspz
      /\ a.rx = s.rx /\ a.state = s.state /\ a.buf = s.buf /\ a.acked = s.acked /\ a.missed = s.missed
      /\ a.fifo = s.fifo /\ a.on = s.on /\ a.ready = s.ready
  BY <1>3 DEF Same, Fields, MacStart
<1>5. /\ Counted(a) /\ Fifo(a) /\ Machine(a)
      /\ (TheAck(a) => a.missed) /\ (a.ready /\ TheAck(a) => a.acked)
  BY <1>4 DEF Counted, Fifo, Machine, TheAck, Stopped
<1>6. a.ok /\ ~a.isr /\ ~a.reset /\ a.awake /\ (~a.acked \/ a.missed) /\ pc \in {"idle", "off"} /\ "NO_ACK" \in Statuses
  BY <1>4 DEF Stopped, Statuses
<1>7. QED
  BY <1>2, <1>3, <1>5, <1>6, CompleteOut

LEMMA StopIsrKeeps == ASSUME IInv, CspTxStopIsr PROVE IInv'
<1>1. PICK s : s = [m EXCEPT !.stopIF = FALSE, !.stopIE = FALSE]
  OBVIOUS
<1>2. /\ macPc' = macPc
      /\ m' = CASE s.cspz = "done" -> TxDoneCallback(s)
                [] s.cspz = "busy" -> TxChannelBusyCallback(s)
                [] s.cspz = "timeout" -> TxAckNotReceivedCallback(s)
  BY <1>1 DEF CspTxStopIsr
<1>3. Shaped(s) /\ Same(s, m, {"stopIF", "stopIE"}) /\ ~s.stopIF /\ ~s.stopIE
  BY <1>1 DEF Same, Fields, MacStart, Shaped, IInv, Kept, Core
<1>4. /\ s.ok = m.ok /\ s.isr = m.isr /\ s.reset = m.reset /\ s.nb = m.nb /\ s.tx = m.tx /\ s.csp = m.csp
      /\ s.awake = m.awake /\ s.retries = m.retries /\ s.status = m.status /\ s.cspz = m.cspz
      /\ s.rx = m.rx /\ s.state = m.state /\ s.buf = m.buf /\ s.acked = m.acked
      /\ s.missed = m.missed /\ s.ackReq = m.ackReq
      /\ s.fifo = m.fifo /\ s.on = m.on /\ s.ready = m.ready
  BY <1>3 DEF Same, Fields, MacStart
<1>5. /\ m.tx \in {"GO", "LISTEN_FOR_ACK"} /\ m.csp = "idle" /\ macPc \in {"idle", "off"} /\ m.on
      /\ m.tx = "GO" => m.cspz \in {"done", "busy"}
      /\ m.tx = "LISTEN_FOR_ACK" => m.cspz = "timeout"
  BY DEF IInv, Kept, Core, Channel, CspTxStopIsr
<1>6. Counted(s) /\ Tries(s) /\ Fifo(s) /\ Machine(s) /\ Due(s, macPc) /\ Acked(s) /\ s.awake
  BY <1>4, <1>5 DEF Counted, Tries, Fifo, Machine, Due, Acked, TheAck, Resting, IInv, Kept, Core
<1>7. Stopped(s, macPc)
  BY <1>3, <1>4, <1>5, <1>6 DEF Stopped, IInv, Kept, Core
<1>8. /\ s.tx # "NO_ACTIVITY" /\ (s.ready /\ TheAck(s) => s.acked)
      /\ s.cspz # "done" => (TheAck(s) => s.missed) /\ (~s.acked \/ s.missed)
  BY <1>4, <1>5, <1>6 DEF Due, Acked
<1>9. Kept(m', macPc)
  <2>1. CASE s.cspz = "done"
    BY <1>2, <1>4, <1>5, <1>6, <1>7, <2>1, TxDoneKeeps
  <2>2. CASE s.cspz = "busy"
    BY <1>2, <1>4, <1>5, <1>6, <1>7, <1>8, <2>2, ChannelBusyKeeps DEF Tries
  <2>3. CASE s.cspz = "timeout"
    BY <1>2, <1>4, <1>5, <1>6, <1>7, <1>8, <2>3, NoAckKeeps
  <2>4. QED
    BY <1>4, <1>5, <2>1, <2>2, <2>3
<1>10. QED
  BY <1>2, <1>9 DEF IInv

-----------------------------------------------------------------------------
(* The end of a receive.                                                   *)

\* The end of a receive restores the invariant.
LEMMA PostRxKeeps ==
    ASSUME NEW s, NEW pc, Core(s, pc), s.rx = "NO_ACTIVITY", ~s.outgoingAck, s.state = "start", ~s.buf,
           NEW r, r = RxPostRxUpdates(s)
    PROVE  /\ Core(r, pc) /\ Machine(r) /\ Wanted(r, pc) /\ r.isr = s.isr /\ r.reset = s.reset
           /\ r.fifo \in {s.fifo, NoFrame}
<1>1. /\ Shaped(r) /\ Same(r, s, Touched) /\ r.ok /\ ~r.outgoingAck
      /\ r.tx = IF s.tx = "QUEUED" THEN "GO" ELSE s.tx
      /\ Channel(r, pc) /\ Fifo(r) /\ Resting(r) /\ Wanted(r, pc)
      /\ r.fifo \in {s.fifo, NoFrame} /\ (r.ready => s.ready)
      /\ TxPhysical(s) => r.fifo = s.fifo /\ r.ready = s.ready
      /\ s.tx # "QUEUED" => r.csp = s.csp
  BY PostRx DEF Core
<1>2. /\ r.isr = s.isr /\ r.reset = s.reset /\ r.nb = s.nb /\ r.retries = s.retries /\ r.status = s.status
      /\ r.cspz = s.cspz /\ r.rx = s.rx /\ r.state = s.state /\ r.buf = s.buf /\ r.acked = s.acked
      /\ r.missed = s.missed
      /\ r.ackReq = s.ackReq /\ r.newChannel = s.newChannel
  BY <1>1 DEF Same, Touched, Fields, MacStart
<1>3. Counted(r) /\ Tries(r) /\ Tuned(r) /\ Told(r)
  BY <1>1, <1>2 DEF Counted, Tries, Tuned, Told, Core
<1>4. Machine(r)
  BY <1>2 DEF Machine
<1>5. s.tx = "QUEUED" => (TheAck(s) => s.missed) /\ (~s.acked \/ s.missed)
  BY DEF Core, Due, Acked
<1>6. Due(r, pc)
  BY <1>1, <1>2, <1>5 DEF Due, TheAck, Core
<1>7. Acked(r)
  <2>1. ASSUME r.acked, ~r.missed, r.tx # "NO_ACTIVITY" PROVE TheAck(r) /\ r.ready
    <3>1. TheAck(s) /\ s.ready
      BY <1>1, <1>2, <2>1 DEF Acked, Core
    <3>2. TxPhysical(s)
      BY <1>2, <2>1, <3>1 DEF Due, TxPhysical, Core
    <3>3. QED
      BY <1>1, <3>1, <3>2 DEF TheAck
  <2>2. ASSUME r.ready, TheAck(r) PROVE r.acked
    BY <1>1, <1>2, <2>2 DEF Acked, TheAck, Core
  <2>3. QED
    BY <2>1, <2>2 DEF Acked
<1>8. QED
  BY <1>1, <1>2, <1>3, <1>4, <1>6, <1>7 DEF Core

\* So does a receive that is thrown away.
LEMMA FinalStepKeeps ==
    ASSUME NEW s, NEW pc, Shaped(s), s.ok, Channel(s, pc), Counted(s), Tries(s), Tuned(s), Resting(s), Told(s),
           Settled(s), s.rx \in {"NO_ACTIVITY", "STARTED"},
           s.rx = "NO_ACTIVITY" /\ ~s.outgoingAck => Wanted(s, pc), NEW r, r = RxHaltCleanupFinalStep(s)
    PROVE  Core(r, pc) /\ Machine(r) /\ Wanted(r, pc) /\ r.isr = s.isr /\ r.reset = s.reset
<1>1. /\ Shaped(r) /\ Same(r, s, Touched \cup {"buf", "state", "rx"}) /\ r.ok
      /\ r.fifo = NoFrame /\ ~r.ready
      /\ (r.tx = "NO_ACTIVITY" <=> s.tx = "NO_ACTIVITY")
      /\ Channel(r, pc) /\ Fifo(r) /\ Machine(r) /\ Resting(r) /\ Wanted(r, pc)
  BY FinalStep
<1>2. /\ r.isr = s.isr /\ r.reset = s.reset /\ r.nb = s.nb /\ r.retries = s.retries /\ r.status = s.status
      /\ r.cspz = s.cspz /\ r.acked = s.acked /\ r.missed = s.missed /\ r.ackReq = s.ackReq
      /\ r.newChannel = s.newChannel
  BY <1>1 DEF Same, Touched, Fields, MacStart
<1>3. Counted(r) /\ Tries(r) /\ Tuned(r) /\ Told(r)
  BY <1>1, <1>2 DEF Counted, Tries, Tuned, Told
<1>4. Due(r, pc) /\ Acked(r)
  BY <1>1, <1>2 DEF Due, Acked, TheAck, Settled
<1>5. QED
  BY <1>1, <1>2, <1>3, <1>4 DEF Core

\* A frame is passed up, acknowledged or not.
LEMMA DoneKeeps ==
    ASSUME NEW s, NEW pc, Core(s, pc), s.awake, s.state = "start", ~s.buf, s.fifo = NoFrame, NEW r, r = RxDone(s)
    PROVE  /\ Core(r, pc) /\ Machine(r) /\ Wanted(r, pc) /\ r.isr = s.isr /\ r.reset = s.reset
           /\ r.fifo = NoFrame
<1>1. PICK a : a = [(IF s.over THEN Flush(s) ELSE s) EXCEPT !.rx = "NO_ACTIVITY"]
  OBVIOUS
<1>2. r = IF a.outgoingAck THEN a ELSE RxPostRxUpdates(a)
  BY <1>1 DEF RxDone
<1>3. /\ Shaped(a) /\ Same(a, s, {"rx", "fifo", "ready", "over"}) /\ a.rx = "NO_ACTIVITY"
      /\ a.fifo = NoFrame /\ ~a.ready
  BY ZenonT(60), <1>1 DEF Flush, Same, Fields, MacStart, Shaped, Core, Fifo
<1>4. /\ a.tx = s.tx /\ a.ackReq = s.ackReq /\ a.nb = s.nb /\ a.on = s.on /\ a.awake = s.awake
      /\ a.isr = s.isr /\ a.reset = s.reset /\ a.buf = s.buf /\ a.state = s.state
      /\ a.newChannel = s.newChannel /\ a.csp = s.csp /\ a.cspz = s.cspz /\ a.stopIE = s.stopIE
      /\ a.stopIF = s.stopIF /\ a.retries = s.retries
      /\ a.status = s.status /\ a.acked = s.acked /\ a.missed = s.missed /\ a.ok = s.ok
  BY <1>3 DEF Same, Fields, MacStart
<1>5. Channel(a, pc) /\ Counted(a) /\ Tries(a) /\ Tuned(a) /\ Fifo(a)
  BY <1>3, <1>4 DEF Channel, Counted, Tries, Tuned, Fifo, Core
<1>6. Resting(a) /\ Due(a, pc) /\ Told(a) /\ Acked(a)
  BY <1>3, <1>4 DEF Resting, Due, Told, Acked, TheAck, Core
<1>7. Core(a, pc)
  BY <1>3, <1>4, <1>5, <1>6 DEF Core
<1>8. CASE a.outgoingAck
  <2>1. Machine(a) /\ Wanted(a, pc)
    BY <1>3, <1>4, <1>8 DEF Machine, Wanted, RxPhysical
  <2>2. QED
    BY <1>2, <1>3, <1>4, <1>7, <1>8, <2>1
<1>9. CASE ~a.outgoingAck
  BY <1>2, <1>3, <1>4, <1>7, <1>9, PostRxKeeps
<1>10. QED
  BY <1>8, <1>9

LEMMA AckTxDoneKeeps == ASSUME IInv, RxAckTxDoneCallback PROVE IInv'
<1>1. PICK s : s = [m EXCEPT !.ackIE = FALSE, !.outgoingAck = FALSE]
  OBVIOUS
<1>2. m' = (IF s.rx = "NO_ACTIVITY" THEN RxPostRxUpdates(s) ELSE s) /\ macPc' = macPc
  BY <1>1 DEF RxAckTxDoneCallback
<1>3. Shaped(s) /\ Same(s, m, {"ackIE", "outgoingAck"}) /\ ~s.outgoingAck
  BY <1>1 DEF Same, Fields, MacStart, Shaped, IInv, Kept, Core
<1>4. /\ s.tx = m.tx /\ s.ackReq = m.ackReq /\ s.nb = m.nb /\ s.on = m.on /\ s.awake = m.awake
      /\ s.isr = m.isr /\ s.reset = m.reset /\ s.buf = m.buf /\ s.state = m.state /\ s.rx = m.rx
      /\ s.newChannel = m.newChannel /\ s.csp = m.csp /\ s.cspz = m.cspz /\ s.stopIE = m.stopIE
      /\ s.stopIF = m.stopIF /\ s.fifo = m.fifo /\ s.ready = m.ready /\ s.retries = m.retries
      /\ s.status = m.status /\ s.acked = m.acked /\ s.missed = m.missed /\ s.ok = m.ok
      /\ s.enabled = m.enabled
  BY <1>3 DEF Same, Fields, MacStart
<1>5. Channel(s, macPc) /\ Counted(s) /\ Tries(s) /\ Tuned(s) /\ Fifo(s)
  BY <1>4 DEF Channel, Counted, Tries, Tuned, Fifo, IInv, Kept, Core
<1>6. Resting(s) /\ Due(s, macPc) /\ Told(s) /\ Acked(s)
  BY <1>3, <1>4 DEF Resting, Due, Told, Acked, TheAck, IInv, Kept, Core
<1>7. Core(s, macPc) /\ Machine(s)
  BY <1>3, <1>4, <1>5, <1>6 DEF Core, Machine, IInv, Kept
<1>8. CASE s.rx = "NO_ACTIVITY"
  <2>1. s.state = "start" /\ ~s.buf
    BY <1>7, <1>8 DEF Machine
  <2>2. QED
    BY <1>2, <1>3, <1>4, <1>7, <1>8, <2>1, PostRxKeeps DEF IInv, Kept
<1>9. CASE s.rx # "NO_ACTIVITY"
  <2>1. Wanted(s, macPc)
    BY <1>7, <1>9 DEF Wanted, RxPhysical, Machine
  <2>2. QED
    BY <1>2, <1>4, <1>7, <1>9, <2>1 DEF IInv, Kept
<1>10. QED
  BY <1>8, <1>9

-----------------------------------------------------------------------------
(* The receive interrupt.                                                  *)

\* What a state of the receiver's machine leaves; if it has found that the
\* channel is to change, the rest is up to the end of the interrupt.
Served(s, pc) ==
    /\ Core(s, pc) /\ Wanted(s, pc) /\ s.rx \in {"NO_ACTIVITY", "STARTED"}
    /\ IF s.reset THEN s.fifo = NoFrame ELSE Machine(s)

\* What is served leaves the invariant whole at the end of the interrupt.
LEMMA EndKeeps ==
    ASSUME NEW s, NEW pc, Served(s, pc), NEW t, t = [s EXCEPT !.isr = FALSE]
    PROVE  Kept(IF t.reset THEN [RxHaltCleanupFinalStep(t) EXCEPT !.reset = FALSE] ELSE t, pc)
<1>1. Shaped(t) /\ Same(t, s, {"isr"}) /\ ~t.isr
  BY DEF Same, Fields, MacStart, Shaped, Served, Core
<1>2. /\ t.tx = s.tx /\ t.ackReq = s.ackReq /\ t.nb = s.nb /\ t.on = s.on /\ t.awake = s.awake
      /\ t.reset = s.reset /\ t.buf = s.buf /\ t.state = s.state /\ t.rx = s.rx
      /\ t.newChannel = s.newChannel /\ t.csp = s.csp /\ t.cspz = s.cspz /\ t.stopIE = s.stopIE
      /\ t.stopIF = s.stopIF /\ t.fifo = s.fifo /\ t.ready = s.ready /\ t.retries = s.retries
      /\ t.status = s.status /\ t.acked = s.acked /\ t.missed = s.missed /\ t.ok = s.ok
      /\ t.enabled = s.enabled
      /\ t.outgoingAck = s.outgoingAck
  BY <1>1 DEF Same, Fields, MacStart
<1>3. Channel(t, pc) /\ Counted(t) /\ Tries(t) /\ Tuned(t) /\ Fifo(t)
  BY <1>2 DEF Channel, Counted, Tries, Tuned, Fifo, Served, Core
<1>4. Resting(t) /\ Due(t, pc) /\ Told(t) /\ Acked(t)
  BY <1>2 DEF Resting, Due, Told, Acked, TheAck, Served, Core
<1>5. Wanted(t, pc)
  BY <1>2 DEF Wanted, RxPhysical, TxPhysical, Served
<1>6. CASE ~t.reset
  <2>1. Machine(t)
    BY <1>2, <1>6 DEF Machine, Served
  <2>2. QED
    BY <1>1, <1>2, <1>3, <1>4, <1>5, <1>6, <2>1 DEF Kept, Core, Served
<1>7. CASE t.reset
  <2>1. Settled(t)
    BY <1>2, <1>4, <1>7 DEF Settled, Acked, TheAck, Served
  <2>2. PICK u : u = RxHaltCleanupFinalStep(t)
    OBVIOUS
  <2>3. t.ok /\ t.rx \in {"NO_ACTIVITY", "STARTED"}
    BY <1>2 DEF Served, Core
  <2>4. Core(u, pc) /\ Machine(u) /\ Wanted(u, pc) /\ u.isr = t.isr /\ u.reset = t.reset
    BY <1>1, <1>3, <1>4, <1>5, <2>1, <2>2, <2>3, FinalStepKeeps
  <2>5. PICK v : v = [u EXCEPT !.reset = FALSE]
    OBVIOUS
  <2>6. Shaped(v) /\ Same(v, u, {"reset"}) /\ ~v.reset
    BY <2>4, <2>5 DEF Same, Fields, MacStart, Shaped, Core
  <2>7. /\ v.tx = u.tx /\ v.ackReq = u.ackReq /\ v.nb = u.nb /\ v.on = u.on /\ v.awake = u.awake
        /\ v.isr = u.isr /\ v.buf = u.buf /\ v.state = u.state /\ v.rx = u.rx
        /\ v.newChannel = u.newChannel /\ v.csp = u.csp /\ v.cspz = u.cspz /\ v.stopIE = u.stopIE
        /\ v.stopIF = u.stopIF /\ v.fifo = u.fifo /\ v.ready = u.ready /\ v.retries = u.retries
        /\ v.status = u.status /\ v.acked = u.acked /\ v.missed = u.missed /\ v.ok = u.ok
        /\ v.enabled = u.enabled
        /\ v.outgoingAck = u.outgoingAck
    BY <2>6 DEF Same, Fields, MacStart
  <2>8. Channel(v, pc) /\ Counted(v) /\ Tries(v) /\ Tuned(v) /\ Fifo(v) /\ Machine(v)
    BY <2>4, <2>7 DEF Channel, Counted, Tries, Tuned, Fifo, Machine, Core
  <2>9. Resting(v) /\ Due(v, pc) /\ Told(v) /\ Acked(v) /\ Wanted(v, pc)
    BY <2>4, <2>7 DEF Resting, Due, Told, Acked, TheAck, Wanted, RxPhysical, TxPhysical, Core
  <2>10. QED
    BY <1>1, <1>7, <2>2, <2>4, <2>5, <2>6, <2>7, <2>8, <2>9 DEF Kept, Core
<1>8. QED
  BY <1>6, <1>7

\* A frame is being read.
Reading(s, pc) ==
    /\ Core(s, pc) /\ Machine(s) /\ Wanted(s, pc) /\ ~s.reset /\ s.awake /\ s.state # "start"
    /\ ~s.ready

\* Octets are read or skipped: only the receiver's state moves.
LEMMA PayloadServed ==
    ASSUME NEW s, NEW pc, Reading(s, pc), NEW l, NEW st \in {"fcs", "payload", "discard"},
           st = "discard" <=> s.state = "discard", NEW r, r = [s EXCEPT !.left = l, !.state = st]
    PROVE  Served(r, pc)
<1>1. Shaped(r) /\ Same(r, s, {"left", "state"}) /\ r.state = st
  BY DEF Same, Fields, MacStart, Shaped, Reading, Core
<1>2. /\ r.tx = s.tx /\ r.ackReq = s.ackReq /\ r.nb = s.nb /\ r.on = s.on /\ r.awake = s.awake
      /\ r.reset = s.reset /\ r.buf = s.buf /\ r.rx = s.rx
      /\ r.newChannel = s.newChannel /\ r.csp = s.csp /\ r.cspz = s.cspz /\ r.stopIE = s.stopIE
      /\ r.stopIF = s.stopIF /\ r.fifo = s.fifo /\ r.ready = s.ready /\ r.retries = s.retries
      /\ r.status = s.status /\ r.acked = s.acked /\ r.missed = s.missed /\ r.ok = s.ok
      /\ r.enabled = s.enabled
      /\ r.outgoingAck = s.outgoingAck
  BY <1>1 DEF Same, Fields, MacStart
<1>3. Channel(r, pc) /\ Counted(r) /\ Tries(r) /\ Tuned(r) /\ Fifo(r)
  BY <1>2 DEF Channel, Counted, Tries, Tuned, Fifo, Reading, Core
<1>4. Resting(r) /\ Due(r, pc) /\ Told(r) /\ Acked(r)
  BY <1>2 DEF Resting, Due, Told, Acked, TheAck, Reading, Core
<1>5. Wanted(r, pc) /\ Machine(r)
  BY <1>1, <1>2 DEF Wanted, RxPhysical, TxPhysical, Machine, Reading
<1>6. QED
  BY <1>1, <1>2, <1>3, <1>4, <1>5 DEF Served, Core, Machine, Reading

\* What is done is in order, once the receiver's machine is at its start.
LEMMA ReadServed ==
    ASSUME NEW s, NEW pc, Core(s, pc), s.awake, ~s.reset, s.state = "start", ~s.buf, s.fifo = NoFrame
    PROVE  Served(RxDone(s), pc)
<1>1. PICK r : r = RxDone(s)
  OBVIOUS
<1>2. Core(r, pc) /\ Machine(r) /\ Wanted(r, pc) /\ r.isr = s.isr /\ r.reset = s.reset
  BY <1>1, DoneKeeps
<1>3. QED
  BY <1>1, <1>2 DEF Served, Machine

\* What the receive states may change.
Receiver == {"state", "left", "buf", "rx", "outgoingAck", "ackIE", "ackIF", "hwAck", "isr", "fifo",
              "ok"}

\* A move of the receiver leaves the transmission alone.
LEMMA ReceiverMoves ==
    ASSUME NEW s, NEW pc, Core(s, pc), s.awake, NEW a, Shaped(a), Same(a, s, Receiver), a.ok,
           a.fifo = s.fifo \/ (a.fifo = NoFrame /\ ~s.ready /\ Settled(s))
    PROVE  /\ Core(a, pc) /\ a.awake /\ a.reset = s.reset /\ a.enabled = s.enabled /\ a.on = s.on
           /\ a.tx = s.tx /\ a.ready = s.ready /\ a.acked = s.acked /\ a.missed = s.missed
<1>1. /\ a.tx = s.tx /\ a.ackReq = s.ackReq /\ a.nb = s.nb /\ a.on = s.on /\ a.awake = s.awake
      /\ a.reset = s.reset /\ a.enabled = s.enabled
      /\ a.newChannel = s.newChannel /\ a.csp = s.csp /\ a.cspz = s.cspz /\ a.stopIE = s.stopIE
      /\ a.stopIF = s.stopIF /\ a.retries = s.retries /\ a.ready = s.ready
      /\ a.status = s.status /\ a.acked = s.acked /\ a.missed = s.missed
  BY DEF Same, Receiver, Fields, MacStart
<1>2. Channel(a, pc) /\ Counted(a) /\ Tries(a) /\ Tuned(a) /\ Fifo(a)
  BY <1>1 DEF Channel, Counted, Tries, Tuned, Fifo, Core
<1>3. Resting(a) /\ Due(a, pc) /\ Told(a) /\ Acked(a)
  BY <1>1 DEF Resting, Due, Told, Acked, TheAck, Settled, Core
<1>4. QED
  BY <1>1, <1>2, <1>3 DEF Core

\* A frame being received is not the ACK that is awaited.
LEMMA NotTheAck ==
    ASSUME NEW s, NEW pc, Reading(s, pc)
    PROVE  s.fifo # NoFrame /\ ~TheAck(s) /\ Settled(s) /\ s.rx = "STARTED"
BY DEF Reading, Machine, Core, Acked, TheAck, Settled

\* A frame is thrown away.
LEMMA DiscardServed ==
    ASSUME NEW s, NEW pc, Reading(s, pc), s.state = "discard"
    PROVE  Served(RxDiscardIsr(s), pc)
<1>1. CASE s.left > 1
  <2>1. RxDiscardIsr(s) = [s EXCEPT !.left = s.left - 1]
    BY <1>1 DEF RxDiscardIsr
  <2>2. [s EXCEPT !.left = s.left - 1] = [s EXCEPT !.left = s.left - 1, !.state = "discard"]
    BY DEF Reading, Core, Shaped, Fields, MacStart
  <2>3. QED
    BY <2>1, <2>2, PayloadServed
<1>2. CASE ~ (s.left > 1)
  <2>1. PICK a : a = [s EXCEPT !.state = "start", !.fifo = NoFrame]
    OBVIOUS
  <2>2. RxDiscardIsr(s) = RxDone(a)
    BY <1>2, <2>1 DEF RxDiscardIsr
  <2>3. /\ Shaped(a) /\ Same(a, s, {"state", "fifo"}) /\ a.state = "start" /\ a.fifo = NoFrame
        /\ a.buf = s.buf
        /\ a.ok
    BY <2>1 DEF Same, Fields, MacStart, Shaped, Reading, Core
  <2>4. Same(a, s, Receiver) /\ ~a.buf
    BY <2>3 DEF Same, Receiver, Reading, Machine
  <2>5. Core(a, pc) /\ a.awake /\ a.reset = s.reset
    BY <2>3, <2>4, NotTheAck, ReceiverMoves DEF Reading
  <2>6. QED
    BY <2>2, <2>3, <2>4, <2>5, ReadServed DEF Reading
<1>3. QED
  BY <1>1, <1>2

\* The address, or some of the payload, is read.
LEMMA AddrServed ==
    ASSUME NEW s, NEW pc, Reading(s, pc), s.state \in {"addr", "payload"}, NEW l
    PROVE  Served(RxPrepPayload([s EXCEPT !.left = l]), pc) /\ Served(RxPrepPayload(s), pc)
<1>1. ASSUME NEW k PROVE Served(RxPrepPayload([s EXCEPT !.left = k]), pc)
  <2>1. RxPrepPayload([s EXCEPT !.left = k]) = [s EXCEPT !.left = k, !.state = IF k = 0 THEN "fcs" ELSE "payload"]
    BY DEF RxPrepPayload, Reading, Core, Shaped, Fields, MacStart
  <2>2. QED
    BY <2>1, PayloadServed
<1>2. [s EXCEPT !.left = s.left] = s
  BY DEF Reading, Core, Shaped, Fields, MacStart
<1>3. QED
  BY <1>1, <1>2

\* The end of a frame: its checksum decides.
LEMMA FcsServed ==
    ASSUME NEW s, NEW pc, Reading(s, pc), s.state = "fcs"
    PROVE  Served(RxFcsIsr(s), pc)
<1>1. PICK a : a = IF s.fifo.crc THEN [s EXCEPT !.rx = "DONE"] ELSE [s EXCEPT !.ackIE = FALSE, !.outgoingAck = FALSE]
  OBVIOUS
<1>2. PICK b : b = IF s.fifo.crc THEN RxOffRequest(a) ELSE a
  OBVIOUS
<1>3. PICK c : c = [b EXCEPT !.buf = FALSE, !.state = "start", !.fifo = NoFrame]
  OBVIOUS
<1>4. RxFcsIsr(s) = RxDone(c)
  BY <1>1, <1>2, <1>3 DEF RxFcsIsr
<1>5. Shaped(a) /\ Same(a, s, {"rx", "ackIE", "outgoingAck"})
  BY ZenonT(60), <1>1 DEF Same, Fields, MacStart, Shaped, Reading, Core
<1>6. /\ Shaped(b) /\ Same(b, a, {"on", "fifo", "ready", "over", "hwAck"})
      /\ b = a \/ (~TxPhysical(a) /\ ~b.on /\ b.fifo = NoFrame /\ ~b.ready)
  BY <1>2, <1>5, OffRequest DEF Same
<1>7. Shaped(c) /\ Same(c, b, {"buf", "state", "fifo"}) /\ ~c.buf /\ c.state = "start" /\ c.fifo = NoFrame
  BY ZenonT(60), <1>3, <1>6 DEF Same, Fields, MacStart, Shaped
<1>8. /\ c.tx = s.tx /\ c.ackReq = s.ackReq /\ c.nb = s.nb /\ c.awake = s.awake
      /\ c.reset = s.reset /\ c.on = b.on /\ c.ready = b.ready /\ a.on = s.on /\ a.ready = s.ready
      /\ a.tx = s.tx
      /\ c.newChannel = s.newChannel /\ c.csp = s.csp /\ c.cspz = s.cspz /\ c.stopIE = s.stopIE
      /\ c.stopIF = s.stopIF /\ c.retries = s.retries
      /\ c.status = s.status /\ c.acked = s.acked /\ c.missed = s.missed /\ c.ok = s.ok
  BY <1>5, <1>6, <1>7 DEF Same, Fields, MacStart
<1>9. Settled(c)
  BY <1>8, NotTheAck DEF Settled
<1>10. ~c.ready
  BY <1>6, <1>8 DEF Reading
<1>11. Channel(c, pc) /\ Counted(c) /\ Tries(c) /\ Tuned(c) /\ Fifo(c)
  BY <1>6, <1>7, <1>8, <1>10 DEF Channel, Counted, Tries, Tuned, Fifo, TxPhysical, Reading, Core
<1>12. Resting(c) /\ Due(c, pc) /\ Told(c) /\ Acked(c)
  BY <1>7, <1>8, <1>9, <1>10 DEF Resting, Due, Told, Acked, TheAck, Settled, Reading, Core
<1>13. Core(c, pc) /\ c.awake /\ ~c.reset
  BY <1>7, <1>8, <1>11, <1>12 DEF Core, Reading
<1>14. QED
  BY <1>4, <1>7, <1>13, ReadServed

\* A frame has begun to be received; what follows is within the interrupt.
Begun(s, pc) ==
    /\ Shaped(s) /\ s.ok /\ s.isr /\ s.rx = "STARTED" /\ s.state = "start" /\ ~s.buf /\ s.awake
    /\ Channel(s, pc) /\ Counted(s) /\ Tries(s) /\ Tuned(s) /\ Fifo(s) /\ Told(s) /\ ~s.ready
    /\ pc \in {"idle", "decide", "go", "off"}

\* TxComplete within the interrupt, of what is no longer on the air.
LEMMA CompleteBegun ==
    ASSUME NEW s, NEW pc, NEW st \in Statuses, Begun(s, pc), s.tx \in {"GO", "LISTEN_FOR_ACK"}, pc # "go",
           NEW a, Shaped(a), Same(a, s, {"tx", "stopIE", "intIE", "csp"}), ~a.stopIE, a.csp = "idle",
           st = "SUCCESS" /\ s.ackReq => s.acked, st = "NO_ACK" => ~s.acked \/ s.missed,
           NEW r, r = TxComplete(a, st)
    PROVE  /\ Begun(r, pc) /\ Settled(r) /\ (st # "NO_ACK" => r.tx = "NO_ACTIVITY")
           /\ r.acked = s.acked /\ r.missed = s.missed
           /\ (r.fifo = s.fifo /\ (s.reset \/ ~r.reset)) \/ (r.reset /\ r.fifo = NoFrame)
           /\ s.reset => r.reset
<1>1. /\ a.ok = s.ok /\ a.isr = s.isr /\ a.rx = s.rx /\ a.nb = s.nb /\ a.retries = s.retries
      /\ a.status = s.status /\ a.cspz = s.cspz /\ a.fifo = s.fifo /\ a.on = s.on /\ a.ready = s.ready
      /\ a.reset = s.reset /\ a.acked = s.acked /\ a.missed = s.missed /\ a.state = s.state /\ a.buf = s.buf
      /\ a.awake = s.awake /\ a.ackReq = s.ackReq
  BY DEF Same, Fields, MacStart
<1>2. Counted(a) /\ Fifo(a)
  BY <1>1 DEF Counted, Fifo, Begun
<1>3. a.ok /\ a.isr /\ a.rx = "STARTED" /\ pc \in {"idle", "off"}
  BY <1>1 DEF Begun, Channel
<1>4. /\ Shaped(r) /\ r.ok /\ Same(r, a, Finished) /\ ~r.newChannel
      /\ Channel(r, pc) /\ Counted(r) /\ Tries(r) /\ Fifo(r) /\ (a.reset => r.reset)
      /\ (r.fifo = a.fifo /\ (a.reset \/ ~r.reset)) \/ (r.reset /\ r.fifo = NoFrame)
      /\ r.ready => a.ready
      /\ r.tx = "NO_ACTIVITY" => r.status = st
      /\ r.tx # "NO_ACTIVITY" => st = "NO_ACK"
  BY <1>2, <1>3, CompleteIsr
<1>5. /\ r.isr = a.isr /\ r.rx = a.rx /\ r.state = a.state /\ r.buf = a.buf /\ r.awake = a.awake
      /\ r.ackReq = a.ackReq /\ r.acked = a.acked /\ r.missed = a.missed
  BY <1>4 DEF Same, Finished, Resent, Fields, MacStart
<1>6. Told(r) /\ Tuned(r) /\ Settled(r)
  BY <1>1, <1>4, <1>5 DEF Told, Tuned, Settled
<1>7. QED
  BY <1>1, <1>4, <1>5, <1>6 DEF Begun

\* macCspForceTxDoneIfPending.
LEMMA ForceTxDone ==
    ASSUME NEW s, NEW pc, Begun(s, pc), Due(s, pc), ~s.reset, NEW r, r = CspForceTxDoneIfPending(s)
    PROVE  /\ Begun(r, pc) /\ r.acked = s.acked /\ r.missed = s.missed /\ (r.tx # "NO_ACTIVITY" => s.tx # "NO_ACTIVITY")
           /\ (r.reset => r.fifo = NoFrame) /\ (~r.reset => r.fifo = s.fifo)
           /\ TheAck(s) /\ ~s.missed => r.tx = "LISTEN_FOR_ACK"
<1>1. CASE ~ (s.cspz = "done" /\ s.stopIE)
  <2>1. r = s
    BY <1>1 DEF CspForceTxDoneIfPending
  <2>2. TheAck(s) /\ ~s.missed => s.tx = "LISTEN_FOR_ACK"
    BY <1>1 DEF Due, Begun, Channel
  <2>3. QED
    BY <2>1, <2>2
<1>2. CASE s.cspz = "done" /\ s.stopIE
  <2>1. s.tx = "GO" /\ pc # "go" /\ s.csp = "idle"
    BY <1>2 DEF Begun, Channel
  <2>2. PICK a : a = [s EXCEPT !.stopIE = FALSE, !.intIE = FALSE]
    OBVIOUS
  <2>3. r = TxDoneCallback(a)
    BY <1>2, <2>2 DEF CspForceTxDoneIfPending
  <2>4. Shaped(a) /\ Same(a, s, {"stopIE", "intIE"}) /\ ~a.stopIE
    BY <2>2 DEF Same, Fields, MacStart, Shaped, Begun
  <2>5. a.tx = s.tx /\ a.ackReq = s.ackReq /\ a.ok = s.ok /\ a.csp = s.csp
    BY <2>4 DEF Same, Fields, MacStart
  <2>6. CASE s.ackReq
    <3>1. r = CspRequestAckTimeout([a EXCEPT !.tx = "LISTEN_FOR_ACK"])
      BY <2>1, <2>3, <2>5, <2>6 DEF TxDoneCallback
    <3>2. /\ Shaped(r) /\ Same(r, a, {"tx", "ok", "cspz", "stopIF", "stopIE", "csp"}) /\ r.ok
          /\ r.tx = "LISTEN_FOR_ACK" /\ r.cspz = "timeout" /\ ~r.stopIF /\ r.stopIE /\ r.csp = "waiting"
      BY <2>4, <2>5, <3>1, RequestAck DEF Begun
    <3>3. /\ r.isr = s.isr /\ r.rx = s.rx /\ r.nb = s.nb /\ r.retries = s.retries
          /\ r.status = s.status /\ r.fifo = s.fifo /\ r.on = s.on /\ r.ready = s.ready
          /\ r.reset = s.reset /\ r.acked = s.acked /\ r.missed = s.missed /\ r.state = s.state
          /\ r.buf = s.buf
          /\ r.awake = s.awake /\ r.ackReq = s.ackReq
      BY <2>4, <3>2 DEF Same, Fields, MacStart
    <3>4. Channel(r, pc) /\ Counted(r) /\ Tries(r) /\ Tuned(r) /\ Fifo(r) /\ Told(r)
      BY <2>1, <2>6, <3>2, <3>3 DEF Channel, Counted, Tries, Tuned, Fifo, Told, Begun
    <3>5. QED
      BY <2>1, <3>2, <3>3, <3>4 DEF Begun
  <2>7. CASE ~s.ackReq
    <3>1. PICK b : b = [a EXCEPT !.tx = "DONE"]
      OBVIOUS
    <3>2. r = TxComplete(b, "SUCCESS")
      BY <2>1, <2>3, <2>5, <2>7, <3>1 DEF TxDoneCallback
    <3>3. Shaped(b) /\ Same(b, a, {"tx"})
      BY <2>4, <3>1 DEF Same, Fields, MacStart, Shaped
    <3>4. Same(b, s, {"tx", "stopIE", "intIE", "csp"}) /\ ~b.stopIE /\ b.csp = "idle"
      BY <2>1, <2>4, <2>5, <3>3 DEF Same, Fields, MacStart
    <3>5. "SUCCESS" \in Statuses
      BY DEF Statuses
    <3>6. /\ Begun(r, pc) /\ r.tx = "NO_ACTIVITY" /\ r.acked = s.acked /\ r.missed = s.missed
          /\ (r.fifo = s.fifo /\ ~r.reset) \/ (r.reset /\ r.fifo = NoFrame)
      BY <2>1, <2>7, <3>2, <3>3, <3>4, <3>5, CompleteBegun
    <3>7. TheAck(s) => s.missed
      BY <2>7 DEF Due
    <3>8. QED
      BY <3>6, <3>7
  <2>8. QED
    BY <2>6, <2>7
<1>3. QED
  BY <1>1, <1>2

\* With the frame taken out, or none of ours, all is in order but the receiver's
\* machine.
LEMMA BegunIsCore ==
    ASSUME NEW s, NEW pc, Begun(s, pc), ~TheAck(s), Settled(s)
    PROVE  Core(s, pc)
BY DEF Begun, Core, Resting, Due, Acked, Settled

\* The receive of a frame that was taken out, or flushed, is over.
LEMMA DoneServed ==
    ASSUME NEW s, NEW pc, Begun(s, pc), s.fifo = NoFrame, Settled(s)
    PROVE  Served(RxDone(s), pc)
<1>1. Core(s, pc) /\ s.awake /\ s.state = "start" /\ ~s.buf
  BY BegunIsCore DEF TheAck, Begun
<1>2. PICK r : r = RxDone(s)
  OBVIOUS
<1>3. Core(r, pc) /\ Machine(r) /\ Wanted(r, pc) /\ r.reset = s.reset /\ r.fifo = NoFrame
  BY <1>1, <1>2, DoneKeeps
<1>4. QED
  BY <1>2, <1>3 DEF Served, Machine

\* What is flushed within the interrupt.
LEMMA FlushBegun ==
    ASSUME NEW s, NEW pc, Begun(s, pc), NEW r, r = Flush(s)
    PROVE  Begun(r, pc) /\ r.fifo = NoFrame /\ (Settled(s) => Settled(r))
<1>1. Shaped(r) /\ Same(r, s, {"fifo", "ready", "over"}) /\ r.fifo = NoFrame /\ ~r.ready
  BY ZenonT(60) DEF Flush, Same, Fields, MacStart, Shaped, Begun
<1>2. /\ r.tx = s.tx /\ r.ackReq = s.ackReq /\ r.nb = s.nb /\ r.on = s.on /\ r.awake = s.awake
      /\ r.buf = s.buf /\ r.rx = s.rx /\ r.isr = s.isr /\ r.state = s.state
      /\ r.newChannel = s.newChannel /\ r.csp = s.csp /\ r.cspz = s.cspz /\ r.stopIE = s.stopIE
      /\ r.stopIF = s.stopIF /\ r.retries = s.retries /\ r.status = s.status /\ r.ok = s.ok
      /\ r.acked = s.acked /\ r.missed = s.missed
  BY <1>1 DEF Same, Fields, MacStart
<1>3. Channel(r, pc) /\ Counted(r) /\ Tries(r) /\ Tuned(r) /\ Fifo(r) /\ Told(r)
  BY <1>1, <1>2 DEF Channel, Counted, Tries, Tuned, Fifo, Told, Begun
<1>4. QED
  BY <1>1, <1>2, <1>3 DEF Begun, Settled

\* An ACK is read, the one that is awaited or another.
LEMMA AckServed ==
    ASSUME NEW s, NEW pc, Begun(s, pc), s.fifo = NoFrame, NEW f,
           s.acked /\ ~s.missed /\ s.tx # "NO_ACTIVITY" => s.tx = "LISTEN_FOR_ACK" /\ f.right /\ f.crc,
           s.tx = "LISTEN_FOR_ACK" /\ f.right /\ f.crc => s.acked
    PROVE  Served(RxAck(s, f), pc)
<1>1. CASE s.tx # "LISTEN_FOR_ACK"
  BY <1>1, DoneServed DEF RxAck, Settled
<1>2. CASE s.tx = "LISTEN_FOR_ACK"
  <2>1. PICK a : a = CspCancelAckTimeout([s EXCEPT !.tx = "POST_ACK"])
    OBVIOUS
  <2>2. PICK st : st = IF f.crc /\ f.right THEN "SUCCESS" ELSE "NO_ACK"
    OBVIOUS
  <2>3. PICK g : g = TxComplete(a, st)
    OBVIOUS
  <2>4. RxAck(s, f) = RxDone(g)
    BY <1>2, <2>1, <2>2, <2>3 DEF RxAck, TxAckReceivedCallback, TxAckNotReceivedCallback
  <2>5. Shaped(a) /\ Same(a, s, {"tx", "stopIE", "csp"}) /\ ~a.stopIE /\ a.csp = "idle"
    BY <2>1, CancelAck DEF Begun
  <2>6. Same(a, s, {"tx", "stopIE", "intIE", "csp"})
    BY <2>5 DEF Same
  <2>7. st \in Statuses /\ (st = "SUCCESS" => s.acked) /\ (st = "NO_ACK" => ~s.acked \/ s.missed)
    BY <1>2, <2>2 DEF Statuses
  <2>8. pc # "go"
    BY <1>2 DEF Begun, Channel
  <2>9. /\ Begun(g, pc) /\ Settled(g)
        /\ (g.fifo = s.fifo /\ (s.reset \/ ~g.reset)) \/ (g.reset /\ g.fifo = NoFrame)
    BY <1>2, <2>3, <2>5, <2>6, <2>7, <2>8, CompleteBegun
  <2>10. QED
    BY <2>4, <2>9, DoneServed
<1>3. QED
  BY <1>1, <1>2

\* The rest of rxStartIsr: the frame is discarded, or read into a buffer.
LEMMA FrameServed ==
    ASSUME NEW s, NEW pc, Begun(s, pc), NEW f \in Frames, f.kind # "ack", ~TheAck(s), Settled(s),
           IF s.reset THEN s.fifo = NoFrame ELSE s.fifo = f
    PROVE  /\ Served(RxDiscardFrame([s EXCEPT !.hwAck = FALSE], f.payload + 1), pc)
           /\ Served(RxAllocated(s, f), pc)
<1>1. Core(s, pc)
  BY BegunIsCore
<1>2. ASSUME NEW r, Shaped(r), Same(r, s, Receiver), r.ok, r.fifo = s.fifo, r.rx = "STARTED", r.state # "start",
             r.state \in {"addr", "payload", "fcs", "discard"}, r.buf <=> r.state # "discard"
      PROVE  Served(r, pc)
  <2>1. /\ Core(r, pc) /\ r.reset = s.reset /\ r.tx = s.tx
    BY <1>1, <1>2, ReceiverMoves DEF Begun
  <2>2. Wanted(r, pc)
    BY <1>2 DEF Wanted, RxPhysical
  <2>3. f # NoFrame
    BY MacAssumption
  <2>4. ~r.reset => Machine(r)
    BY <1>2, <2>1, <2>3 DEF Machine
  <2>5. QED
    BY <1>2, <2>1, <2>2, <2>4 DEF Served
<1>3. Served(RxDiscardFrame([s EXCEPT !.hwAck = FALSE], f.payload + 1), pc)
  <2>1. f.payload \in Nat
    BY MacAssumption
  <2>2. PICK r : r = [s EXCEPT !.hwAck = FALSE, !.left = f.payload + 1, !.state = "discard"]
    OBVIOUS
  <2>3. RxDiscardFrame([s EXCEPT !.hwAck = FALSE], f.payload + 1) = r
    BY <2>1, <2>2 DEF RxDiscardFrame
  <2>4. Shaped(r) /\ Same(r, s, {"hwAck", "left", "state"}) /\ r.state = "discard"
    BY ZenonT(60), <2>2 DEF Same, Fields, MacStart, Shaped, Begun
  <2>5. Same(r, s, Receiver) /\ r.ok = s.ok /\ r.fifo = s.fifo /\ r.rx = s.rx /\ r.buf = s.buf
    BY <2>4 DEF Same, Receiver, Fields, MacStart
  <2>6. r.ok /\ r.rx = "STARTED" /\ ~r.buf
    BY <2>5 DEF Begun
  <2>7. QED
    BY <1>2, <2>3, <2>4, <2>5, <2>6
<1>4. Served(RxAllocated(s, f), pc)
  <2>1. PICK a : a = [AssertThat(s, ~s.buf) EXCEPT !.buf = TRUE, !.outgoingAck = f.ackReq, !.left = f.payload]
    OBVIOUS
  <2>2. PICK b : b = IF f.ackReq THEN [a EXCEPT !.ackIF = FALSE, !.ackIE = TRUE] ELSE a
    OBVIOUS
  <2>3. PICK r : r = IF f.addr THEN [b EXCEPT !.state = "addr"] ELSE RxPrepPayload(b)
    OBVIOUS
  <2>4. RxAllocated(s, f) = r
    BY <2>1, <2>2, <2>3 DEF RxAllocated
  <2>5. Shaped(a) /\ Same(a, s, {"ok", "buf", "outgoingAck", "left"}) /\ a.ok /\ a.buf
    BY ZenonT(60), <2>1 DEF AssertThat, Same, Fields, MacStart, Shaped, Begun
  <2>6. Shaped(b) /\ Same(b, a, {"ackIF", "ackIE"})
    BY <2>2, <2>5 DEF Same, Fields, MacStart, Shaped
  <2>7. Shaped(r) /\ Same(r, b, {"state"}) /\ r.state \in {"addr", "payload", "fcs"}
    BY ZenonT(60), <2>3, <2>6 DEF RxPrepPayload, Same, Fields, MacStart, Shaped
  <2>8. Same(r, s, Receiver)
    BY <2>5, <2>6, <2>7 DEF Same, Receiver
  <2>9. r.ok = a.ok /\ r.fifo = s.fifo /\ r.rx = s.rx /\ r.buf = a.buf
    BY <2>5, <2>6, <2>7 DEF Same, Fields, MacStart
  <2>10. r.ok /\ r.rx = "STARTED" /\ r.buf
    BY <2>5, <2>9 DEF Begun
  <2>11. QED
    BY <1>2, <2>4, <2>7, <2>8, <2>9, <2>10
<1>5. QED
  BY <1>3, <1>4

\* A frame begins.
LEMMA StartedServed ==
    ASSUME NEW s, NEW pc, NEW heap, Begun(s, pc), ~s.reset, s.fifo # NoFrame, Due(s, pc),
           s.acked /\ ~s.missed /\ s.tx # "NO_ACTIVITY" => TheAck(s), TheAck(s) => s.acked
    PROVE  Served(RxStarted(s, s.fifo, heap), pc)
<1>1. PICK c : c = CspForceTxDoneIfPending(s)
  OBVIOUS
<1>2. PICK d : d = [c EXCEPT !.ackIE = FALSE, !.outgoingAck = FALSE]
  OBVIOUS
<1>3. PICK f : f = s.fifo
  OBVIOUS
<1>4. /\ Begun(c, pc) /\ c.acked = s.acked /\ c.missed = s.missed /\ (c.tx # "NO_ACTIVITY" => s.tx # "NO_ACTIVITY")
      /\ (c.reset => c.fifo = NoFrame) /\ (~c.reset => c.fifo = s.fifo)
      /\ TheAck(s) /\ ~s.missed => c.tx = "LISTEN_FOR_ACK"
  BY <1>1, ForceTxDone
<1>5. Shaped(d) /\ Same(d, c, {"ackIE", "outgoingAck"})
  BY <1>2, <1>4 DEF Same, Fields, MacStart, Shaped, Begun
<1>6. /\ d.tx = c.tx /\ d.ackReq = c.ackReq /\ d.nb = c.nb /\ d.on = c.on /\ d.awake = c.awake
      /\ d.reset = c.reset /\ d.buf = c.buf /\ d.rx = c.rx /\ d.isr = c.isr /\ d.state = c.state
      /\ d.newChannel = c.newChannel /\ d.csp = c.csp /\ d.cspz = c.cspz /\ d.stopIE = c.stopIE
      /\ d.stopIF = c.stopIF /\ d.fifo = c.fifo /\ d.ready = c.ready /\ d.retries = c.retries
      /\ d.status = c.status /\ d.acked = c.acked /\ d.missed = c.missed /\ d.ok = c.ok
  BY <1>5 DEF Same, Fields, MacStart
<1>7. Begun(d, pc)
  <2>1. Channel(d, pc) /\ Counted(d) /\ Tries(d) /\ Tuned(d) /\ Fifo(d) /\ Told(d)
    BY <1>4, <1>6 DEF Channel, Counted, Tries, Tuned, Fifo, Told, Begun
  <2>2. QED
    BY <1>4, <1>5, <1>6, <2>1 DEF Begun
<1>8. f \in Frames /\ f # NoFrame
  BY <1>3 DEF Begun, Fifo
<1>9. CASE f.form = "garbled"
  <2>1. PICK e : e = Flush(d)
    OBVIOUS
  <2>2. RxStarted(s, s.fifo, heap) = RxDone(e)
    BY <1>1, <1>2, <1>3, <1>9, <2>1 DEF RxStarted
  <2>3. e.acked = s.acked /\ e.missed = s.missed /\ e.tx = c.tx
    BY <1>4, <1>5, <1>6, <2>1 DEF Flush, Shaped, Fields, MacStart
  <2>4. ~TheAck(s)
    BY <1>3, <1>9 DEF TheAck
  <2>5. Settled(e)
    BY <1>4, <2>3, <2>4 DEF Settled
  <2>6. QED
    BY <1>7, <2>1, <2>2, <2>5, FlushBegun, DoneServed
<1>10. CASE f.form # "garbled" /\ f.kind = "ack"
  <2>1. PICK e : e = [d EXCEPT !.fifo = NoFrame]
    OBVIOUS
  <2>2. RxStarted(s, s.fifo, heap) = RxAck(e, f)
    BY <1>1, <1>2, <1>3, <1>10, <2>1 DEF RxStarted
  <2>3. Shaped(e) /\ Same(e, d, {"fifo"}) /\ e.fifo = NoFrame
    BY <1>5, <2>1 DEF Same, Fields, MacStart, Shaped
  <2>4. /\ e.tx = d.tx /\ e.ackReq = d.ackReq /\ e.nb = d.nb /\ e.on = d.on /\ e.awake = d.awake
        /\ e.reset = d.reset /\ e.buf = d.buf /\ e.rx = d.rx /\ e.isr = d.isr /\ e.state = d.state
        /\ e.newChannel = d.newChannel /\ e.csp = d.csp /\ e.cspz = d.cspz /\ e.stopIE = d.stopIE
        /\ e.stopIF = d.stopIF /\ e.ready = d.ready /\ e.retries = d.retries
        /\ e.status = d.status /\ e.acked = d.acked /\ e.missed = d.missed /\ e.ok = d.ok
    BY <2>3 DEF Same, Fields, MacStart
  <2>5. Begun(e, pc)
    <3>1. Channel(e, pc) /\ Counted(e) /\ Tries(e) /\ Tuned(e) /\ Fifo(e) /\ Told(e)
      BY <1>7, <2>3, <2>4 DEF Channel, Counted, Tries, Tuned, Fifo, Told, Begun
    <3>2. QED
      BY <1>7, <2>3, <2>4, <3>1 DEF Begun
  <2>6. e.tx = c.tx /\ e.acked = s.acked /\ e.missed = s.missed
    BY <1>4, <1>6, <2>4
  <2>7. e.acked /\ ~e.missed /\ e.tx # "NO_ACTIVITY" => e.tx = "LISTEN_FOR_ACK" /\ f.right /\ f.crc
    BY <1>3, <1>4, <2>6 DEF TheAck
  <2>8. e.tx = "LISTEN_FOR_ACK" /\ f.right /\ f.crc => e.acked
    BY <1>3, <1>8, <1>10, <2>6 DEF TheAck
  <2>9. QED
    BY <2>2, <2>3, <2>5, <2>7, <2>8, AckServed
<1>11. CASE f.form # "garbled" /\ f.kind # "ack"
  <2>1. PICK g : g = TxAckNotReceivedCallback(d)
    OBVIOUS
  <2>2. RxStarted(s, s.fifo, heap) = RxFrame(g, f, heap)
    BY <1>1, <1>2, <1>3, <1>11, <2>1 DEF RxStarted
  <2>3. ~TheAck(s) /\ Settled(d)
    BY <1>3, <1>4, <1>6, <1>11 DEF TheAck, Settled
  <2>4. IF d.reset THEN d.fifo = NoFrame ELSE d.fifo = f
    BY <1>3, <1>4, <1>6
  <2>5. /\ Begun(g, pc) /\ Settled(g)
        /\ IF g.reset THEN g.fifo = NoFrame ELSE g.fifo = f
    <3>1. CASE d.tx # "LISTEN_FOR_ACK"
      BY <1>7, <2>1, <2>3, <2>4, <3>1 DEF TxAckNotReceivedCallback
    <3>2. CASE d.tx = "LISTEN_FOR_ACK"
      <4>1. PICK a : a = CspCancelAckTimeout([d EXCEPT !.tx = "POST_ACK"])
        OBVIOUS
      <4>2. g = TxComplete(a, "NO_ACK")
        BY <2>1, <3>2, <4>1 DEF TxAckNotReceivedCallback
      <4>3. Shaped(a) /\ Same(a, d, {"tx", "stopIE", "csp"}) /\ ~a.stopIE /\ a.csp = "idle"
        BY <1>5, <4>1, CancelAck
      <4>4. Same(a, d, {"tx", "stopIE", "intIE", "csp"})
        BY <4>3 DEF Same
      <4>5. "NO_ACK" \in Statuses /\ (~d.acked \/ d.missed) /\ pc # "go"
        BY <1>7, <2>3, <3>2 DEF Statuses, Begun, Channel, Settled
      <4>6. /\ Begun(g, pc) /\ Settled(g)
            /\ (g.fifo = d.fifo /\ (d.reset \/ ~g.reset)) \/ (g.reset /\ g.fifo = NoFrame)
            /\ d.reset => g.reset
        BY <1>7, <3>2, <4>2, <4>3, <4>4, <4>5, CompleteBegun
      <4>7. QED
        BY <2>4, <4>6
    <3>3. QED
      BY <3>1, <3>2
  <2>6. ~TheAck(g)
    BY <1>11, <2>5 DEF TheAck
  <2>7. /\ Served(RxDiscardFrame([g EXCEPT !.hwAck = FALSE], f.payload + 1), pc)
        /\ Served(RxAllocated(g, f), pc)
    BY <1>8, <1>11, <2>5, <2>6, FrameServed
  <2>8. Served(RxDone(Flush(g)), pc)
    <3>1. PICK e : e = Flush(g)
      OBVIOUS
    <3>2. Begun(e, pc) /\ e.fifo = NoFrame /\ Settled(e)
      BY <2>5, <3>1, FlushBegun
    <3>3. QED
      BY <3>1, <3>2, DoneServed
  <2>9. QED
    BY <2>2, <2>7, <2>8 DEF RxFrame
<1>12. QED
  BY <1>9, <1>10, <1>11

LEMMA RxIsrKeeps == ASSUME IInv, RxIsr PROVE IInv'
<1>1. PICK heap \in BOOLEAN : m' = RxThresholdIsr([m EXCEPT !.ready = FALSE], heap)
  BY DEF RxIsr
<1>2. PICK s : s = [m EXCEPT !.ready = FALSE, !.isr = TRUE]
  OBVIOUS
<1>3. PICK r : r = RxState(s, heap)
  OBVIOUS
<1>4. PICK t : t = [r EXCEPT !.isr = FALSE]
  OBVIOUS
<1>5. m' = IF t.reset THEN [RxHaltCleanupFinalStep(t) EXCEPT !.reset = FALSE] ELSE t
  <2>1. [m EXCEPT !.ready = FALSE].reset = m.reset /\ ~m.reset
    BY DEF IInv, Kept, Core, Shaped, Fields, MacStart
  <2>2. [[m EXCEPT !.ready = FALSE] EXCEPT !.isr = TRUE] = s
    BY <1>2
  <2>3. QED
    BY <1>1, <1>3, <1>4, <2>1, <2>2 DEF RxThresholdIsr
<1>6. /\ Shaped(s) /\ Same(s, m, {"ready", "isr"}) /\ ~s.ready /\ s.isr
  BY <1>2 DEF Same, Fields, MacStart, Shaped, IInv, Kept, Core
<1>7. /\ s.tx = m.tx /\ s.ackReq = m.ackReq /\ s.nb = m.nb /\ s.on = m.on /\ s.awake = m.awake
      /\ s.reset = m.reset /\ s.buf = m.buf /\ s.rx = m.rx /\ s.state = m.state
      /\ s.newChannel = m.newChannel /\ s.csp = m.csp /\ s.cspz = m.cspz /\ s.stopIE = m.stopIE
      /\ s.stopIF = m.stopIF /\ s.fifo = m.fifo /\ s.retries = m.retries
      /\ s.status = m.status /\ s.acked = m.acked /\ s.missed = m.missed /\ s.ok = m.ok
      /\ s.enabled = m.enabled
      /\ s.outgoingAck = m.outgoingAck
  BY <1>6 DEF Same, Fields, MacStart
<1>8. /\ m.ready /\ m.fifo # NoFrame /\ m.on /\ m.awake /\ m.ok /\ ~m.reset
  BY DEF RxIsr, IInv, Kept, Core, Fifo, Resting
<1>9. /\ Channel(s, macPc) /\ Counted(s) /\ Tries(s) /\ Tuned(s) /\ Fifo(s) /\ Told(s) /\ Due(s, macPc)
      /\ Machine(s) /\ Wanted(s, macPc) /\ Resting(s)
  <2>1. Channel(s, macPc) /\ Counted(s) /\ Tries(s) /\ Tuned(s) /\ Fifo(s)
    BY <1>6, <1>7 DEF Channel, Counted, Tries, Tuned, Fifo, IInv, Kept, Core
  <2>2. Told(s) /\ Due(s, macPc) /\ Machine(s) /\ Wanted(s, macPc) /\ Resting(s)
    BY <1>7 DEF Told, Due, TheAck, Machine, Wanted, RxPhysical, TxPhysical, Resting, IInv, Kept, Core
  <2>3. QED
    BY <2>1, <2>2
<1>10. /\ s.acked /\ ~s.missed /\ s.tx # "NO_ACTIVITY" => TheAck(s)
       /\ TheAck(s) => s.acked
  BY <1>7, <1>8 DEF Acked, TheAck, IInv, Kept, Core
<1>11. Served(r, macPc)
  <2>1. CASE s.state = "start"
    <3>1. PICK q : q = [AssertThat(s, s.rx = "NO_ACTIVITY") EXCEPT !.rx = "STARTED"]
      OBVIOUS
    <3>2. r = IF ~q.on \/ q.fifo = NoFrame THEN RxPostRxUpdates([q EXCEPT !.rx = "NO_ACTIVITY"])
              ELSE RxStarted(q, q.fifo, heap)
      BY <1>3, <2>1, <3>1 DEF RxState, RxStartIsr
    <3>3. s.rx = "NO_ACTIVITY" /\ ~s.buf /\ s.ok
      BY <1>7, <1>8, <1>9, <2>1 DEF Machine
    <3>4. Shaped(q) /\ Same(q, s, {"ok", "rx"}) /\ q.ok /\ q.rx = "STARTED"
      BY <1>6, <3>1, <3>3 DEF AssertThat, Same, Fields, MacStart, Shaped
    <3>5. /\ q.tx = s.tx /\ q.ackReq = s.ackReq /\ q.nb = s.nb /\ q.on = s.on /\ q.awake = s.awake
          /\ q.reset = s.reset /\ q.buf = s.buf /\ q.isr = s.isr /\ q.state = s.state
          /\ q.newChannel = s.newChannel /\ q.csp = s.csp /\ q.cspz = s.cspz /\ q.stopIE = s.stopIE
          /\ q.stopIF = s.stopIF /\ q.fifo = s.fifo /\ q.ready = s.ready /\ q.retries = s.retries
          /\ q.status = s.status /\ q.acked = s.acked /\ q.missed = s.missed
      BY <3>4 DEF Same, Fields, MacStart
    <3>6. Channel(q, macPc) /\ Counted(q) /\ Tries(q) /\ Tuned(q) /\ Fifo(q) /\ Told(q) /\ Due(q, macPc)
      BY <1>9, <3>4, <3>5 DEF Channel, Counted, Tries, Tuned, Fifo, Told, Due, TheAck
    <3>7. Begun(q, macPc)
      BY <1>6, <1>7, <1>8, <2>1, <3>3, <3>4, <3>5, <3>6 DEF Begun, IInv
    <3>8. /\ q.on /\ q.fifo # NoFrame /\ ~q.reset
          /\ q.acked /\ ~q.missed /\ q.tx # "NO_ACTIVITY" => TheAck(q)
          /\ TheAck(q) => q.acked
      BY <1>7, <1>8, <1>10, <3>5 DEF TheAck
    <3>9. QED
      BY <3>2, <3>6, <3>7, <3>8, StartedServed
  <2>2. CASE s.state # "start"
    <3>1. ~TheAck(s)
      BY <1>9, <2>2 DEF Machine, TheAck
    <3>2. Reading(s, macPc)
      BY <1>6, <1>7, <1>8, <1>9, <1>10, <2>2, <3>1 DEF Reading, Core, Acked
    <3>3. s.state \in {"addr", "payload", "fcs", "discard"}
      BY <1>9, <2>2 DEF Machine
    <3>4. CASE s.state = "addr"
      BY <1>3, <3>2, <3>4, AddrServed DEF RxState, RxAddrIsr
    <3>5. CASE s.state = "payload"
      BY <1>3, <3>2, <3>5, AddrServed DEF RxState, RxPayloadIsr
    <3>6. CASE s.state = "fcs"
      BY <1>3, <3>2, <3>6, FcsServed DEF RxState
    <3>7. CASE s.state = "discard"
      BY <1>3, <3>2, <3>7, DiscardServed DEF RxState
    <3>8. QED
      BY <3>3, <3>4, <3>5, <3>6, <3>7
  <2>3. QED
    BY <2>1, <2>2
<1>12. Kept(m', macPc)
  BY <1>4, <1>5, <1>11, EndKeeps
<1>13. QED
  BY <1>12 DEF IInv, RxIsr

-----------------------------------------------------------------------------
(* The radio, and the calls.                                               *)

\* What no part of the invariant speaks of.
Unseen == {"intIE", "intIF", "newPower", "filter", "hwAck", "ackIE", "ackIF", "left", "over", "overIF"}

\* What the invariant does not speak of may change.
LEMMA UnseenKeeps ==
    ASSUME NEW s, NEW pc, Kept(s, pc), NEW r, Shaped(r), Same(r, s, Unseen)
    PROVE  Kept(r, pc)
<1>1. /\ r.tx = s.tx /\ r.ackReq = s.ackReq /\ r.nb = s.nb /\ r.on = s.on /\ r.awake = s.awake
      /\ r.reset = s.reset /\ r.buf = s.buf /\ r.isr = s.isr /\ r.state = s.state /\ r.rx = s.rx
      /\ r.newChannel = s.newChannel /\ r.csp = s.csp /\ r.cspz = s.cspz /\ r.stopIE = s.stopIE
      /\ r.stopIF = s.stopIF /\ r.fifo = s.fifo /\ r.ready = s.ready /\ r.retries = s.retries
      /\ r.status = s.status /\ r.acked = s.acked /\ r.missed = s.missed /\ r.ok = s.ok
      /\ r.enabled = s.enabled
      /\ r.outgoingAck = s.outgoingAck
  BY DEF Same, Unseen, Fields, MacStart
<1>2. Channel(r, pc) /\ Counted(r) /\ Tries(r) /\ Tuned(r) /\ Fifo(r)
  BY <1>1 DEF Channel, Counted, Tries, Tuned, Fifo, Kept, Core
<1>3. Resting(r) /\ Due(r, pc) /\ Told(r) /\ Acked(r)
  BY <1>1 DEF Resting, Due, Told, Acked, TheAck, Kept, Core
<1>4. Machine(r) /\ Wanted(r, pc)
  BY <1>1 DEF Machine, Wanted, RxPhysical, TxPhysical, Kept
<1>5. QED
  BY <1>1, <1>2, <1>3, <1>4 DEF Kept, Core

\* The steps that change no more than that.
LEMMA UnseenSteps ==
    ASSUME IInv, CspTxIntIsr \/ AckSent \/ Overflow \/ RadioSetTxPower \/ RadioStartScan \/ RadioStopScan
    PROVE  IInv'
<1>1. PICK s : s = RadioUpdateTxPower([m EXCEPT !.newPower = TRUE])
  OBVIOUS
<1>2. Shaped(s) /\ Same(s, m, {"newPower"})
  BY <1>1 DEF RadioUpdateTxPower, Same, Fields, MacStart, Shaped, IInv, Kept, Core
<1>3. Shaped(m) /\ Kept(m, macPc)
  BY DEF IInv, Kept, Core
<1>4. Shaped(m') /\ Same(m', m, Unseen) /\ macPc' = macPc
  <2>1. CASE CspTxIntIsr
    BY <1>3, <2>1 DEF CspTxIntIsr, Shaped, Same, Unseen, Fields, MacStart
  <2>2. CASE AckSent
    BY <1>3, <2>2 DEF AckSent, Radio, Shaped, Same, Unseen, Fields, MacStart
  <2>3. CASE RadioSetTxPower
    BY <1>1, <1>2, <2>3 DEF RadioSetTxPower, MacCall, Same, Unseen
  <2>4. CASE RadioStartScan \/ RadioStopScan
    BY <1>3, <2>4 DEF RadioStartScan, RadioStopScan, MacCall, Shaped, Same, Unseen, Fields, MacStart
  <2>5. CASE Overflow
    BY <1>3, <2>5 DEF Overflow, Shaped, Same, Unseen, Fields, MacStart
  <2>6. QED
    BY <2>1, <2>2, <2>3, <2>4, <2>5
<1>5. Kept(m', macPc)
  <2>1. PICK r : r = m'
    OBVIOUS
  <2>2. QED
    BY <1>3, <1>4, <2>1, UnseenKeeps
<1>6. QED
  BY <1>4, <1>5 DEF IInv

LEMMA CspSteps == ASSUME IInv, ChannelBusy \/ Strobe \/ Sent \/ AckTimeout PROVE IInv'
<1>1. PICK r : r = m'
  OBVIOUS
<1>2. Shaped(m) /\ Kept(m, macPc)
  BY DEF IInv, Kept, Core
<1>3. Shaped(r) /\ Same(r, m, {"csp", "stopIF", "intIF", "cspz", "missed"}) /\ macPc' = macPc
  BY <1>1, <1>2 DEF ChannelBusy, Strobe, Sent, AckTimeout, Radio, Shaped, Same, Fields, MacStart
<1>4. /\ r.tx = m.tx /\ r.ackReq = m.ackReq /\ r.nb = m.nb /\ r.on = m.on /\ r.awake = m.awake
      /\ r.reset = m.reset /\ r.buf = m.buf /\ r.isr = m.isr /\ r.state = m.state /\ r.rx = m.rx
      /\ r.newChannel = m.newChannel /\ r.stopIE = m.stopIE
      /\ r.fifo = m.fifo /\ r.ready = m.ready /\ r.retries = m.retries
      /\ r.status = m.status /\ r.acked = m.acked /\ r.ok = m.ok /\ r.enabled = m.enabled
      /\ r.outgoingAck = m.outgoingAck
  BY <1>3 DEF Same, Fields, MacStart
<1>5. r.missed <=> m.missed \/ (AckTimeout /\ TheAck(m))
  <2>1. CASE AckTimeout
    BY <1>1, <1>2, <2>1 DEF AckTimeout, Radio, Shaped, Fields, MacStart
  <2>2. CASE ~AckTimeout
    BY <1>1, <1>2, <2>2 DEF ChannelBusy, Strobe, Sent, Radio, Shaped, Fields, MacStart
  <2>3. QED
    BY <2>1, <2>2
<1>6. Tries(r) /\ Tuned(r) /\ Fifo(r) /\ Resting(r) /\ Told(r) /\ Acked(r)
  BY <1>2, <1>4, <1>5 DEF Tries, Tuned, Fifo, Resting, Told, Acked, TheAck, Kept, Core
<1>7. Machine(r) /\ Wanted(r, macPc)
  BY <1>2, <1>4 DEF Machine, Wanted, RxPhysical, TxPhysical, Kept
<1>8. Channel(r, macPc) /\ Counted(r) /\ Due(r, macPc)
  <2>1. CASE ChannelBusy
    <3>1. r.csp = "idle" /\ r.stopIF /\ r.cspz = m.cspz /\ m.csp = "csma"
      BY <1>1, <1>2, <2>1 DEF ChannelBusy, Radio, Shaped, Fields, MacStart
    <3>2. QED
      BY <1>2, <1>4, <1>5, <3>1 DEF Channel, Counted, Due, TheAck, Kept, Core
  <2>2. CASE Strobe
    <3>1. r.csp = "sending" /\ r.stopIF = m.stopIF /\ r.cspz = m.cspz /\ m.csp = "csma"
      BY <1>1, <1>2, <2>2 DEF Strobe, Radio, Shaped, Fields, MacStart
    <3>2. QED
      BY <1>2, <1>4, <1>5, <3>1 DEF Channel, Counted, Due, TheAck, Kept, Core
  <2>3. CASE Sent
    <3>1. r.csp = "idle" /\ r.stopIF /\ r.cspz = "done" /\ m.csp = "sending"
      BY <1>1, <1>2, <2>3 DEF Sent, Radio, Shaped, Fields, MacStart
    <3>2. QED
      BY <1>2, <1>4, <1>5, <3>1 DEF Channel, Counted, Due, TheAck, Kept, Core
  <2>4. CASE AckTimeout
    <3>1. /\ r.csp = "idle" /\ r.stopIF /\ r.cspz = m.cspz /\ m.csp = "waiting"
      BY <1>1, <1>2, <2>4 DEF AckTimeout, Radio, Shaped, Fields, MacStart
    <3>2. QED
      BY <1>2, <1>4, <1>5, <2>4, <3>1 DEF Channel, Counted, Due, TheAck, Kept, Core
  <2>5. QED
    BY <2>1, <2>2, <2>3, <2>4
<1>9. QED
  BY <1>1, <1>2, <1>3, <1>4, <1>6, <1>7, <1>8 DEF IInv, Kept, Core

LEMMA ThresholdKeeps == ASSUME IInv, Threshold PROVE IInv'
<1>1. PICK r : r = m'
  OBVIOUS
<1>2. Shaped(m) /\ Kept(m, macPc)
  BY DEF IInv, Kept, Core
<1>3. /\ Shaped(r) /\ Same(r, m, {"ready", "acked", "hwAck"}) /\ macPc' = macPc
      /\ m.fifo # NoFrame /\ ~m.ready /\ r.ready /\ (r.acked <=> m.acked \/ TheAck(m))
      /\ r.missed = m.missed
  BY ZenonT(60), <1>1, <1>2 DEF Threshold, Radio, Shaped, Same, Fields, MacStart, TheAck
<1>4. /\ r.tx = m.tx /\ r.ackReq = m.ackReq /\ r.nb = m.nb /\ r.on = m.on /\ r.awake = m.awake
      /\ r.reset = m.reset /\ r.buf = m.buf /\ r.isr = m.isr /\ r.state = m.state /\ r.rx = m.rx
      /\ r.newChannel = m.newChannel /\ r.stopIE = m.stopIE /\ r.stopIF = m.stopIF /\ r.csp = m.csp
      /\ r.cspz = m.cspz /\ r.fifo = m.fifo /\ r.retries = m.retries
      /\ r.status = m.status /\ r.ok = m.ok /\ r.enabled = m.enabled
      /\ r.outgoingAck = m.outgoingAck
  BY <1>3 DEF Same, Fields, MacStart
<1>5. Channel(r, macPc) /\ Counted(r) /\ Tries(r) /\ Tuned(r) /\ Fifo(r) /\ Resting(r) /\ Due(r, macPc)
  BY <1>2, <1>3, <1>4 DEF Channel, Counted, Tries, Tuned, Fifo, Resting, Due, TheAck, Kept, Core
<1>6. Machine(r) /\ Wanted(r, macPc)
  BY <1>2, <1>4 DEF Machine, Wanted, RxPhysical, TxPhysical, Kept
<1>7. Told(r)
  BY <1>2, <1>3, <1>4 DEF Told, Due, Kept, Core
<1>8. Acked(r)
  BY <1>2, <1>3, <1>4 DEF Acked, TheAck, Kept, Core
<1>9. QED
  BY <1>1, <1>2, <1>3, <1>4, <1>5, <1>6, <1>7, <1>8 DEF IInv, Kept, Core

LEMMA ArriveKeeps == ASSUME IInv, NEW f \in Frames, Arrive(f) PROVE IInv'
<1>1. PICK r : r = m'
  OBVIOUS
<1>2. Shaped(m) /\ Kept(m, macPc)
  BY DEF IInv, Kept, Core
<1>3. Shaped(r) /\ Same(r, m, {"fifo"}) /\ r.fifo = f /\ macPc' = macPc
  BY <1>1, <1>2 DEF Arrive, Shaped, Same, Fields, MacStart
<1>4. /\ m.on /\ m.fifo = NoFrame
      /\ f.kind = "ack" /\ f.right => /\ m.ackReq /\ m.tx \in {"GO", "LISTEN_FOR_ACK"}
                                      /\ m.cspz = "done" \/ m.csp = "waiting"
  BY DEF Arrive, AwaitsAck
<1>5. /\ r.tx = m.tx /\ r.ackReq = m.ackReq /\ r.nb = m.nb /\ r.on = m.on /\ r.awake = m.awake
      /\ r.reset = m.reset /\ r.buf = m.buf /\ r.isr = m.isr /\ r.state = m.state /\ r.rx = m.rx
      /\ r.newChannel = m.newChannel /\ r.stopIE = m.stopIE /\ r.stopIF = m.stopIF /\ r.csp = m.csp
      /\ r.cspz = m.cspz /\ r.ready = m.ready /\ r.acked = m.acked /\ r.missed = m.missed
      /\ r.retries = m.retries
      /\ r.status = m.status /\ r.ok = m.ok /\ r.enabled = m.enabled
      /\ r.outgoingAck = m.outgoingAck
  BY <1>3 DEF Same, Fields, MacStart
<1>6. Channel(r, macPc) /\ Counted(r) /\ Tries(r) /\ Tuned(r) /\ Resting(r) /\ Told(r)
  BY <1>2, <1>5 DEF Channel, Counted, Tries, Tuned, Resting, Told, Kept, Core
<1>7. Fifo(r) /\ Acked(r)
  BY <1>2, <1>3, <1>4, <1>5 DEF Fifo, Acked, TheAck, Kept, Core
<1>8. Due(r, macPc)
  BY <1>2, <1>3, <1>4, <1>5 DEF Due, TheAck, Channel, Kept, Core
<1>9. Machine(r) /\ Wanted(r, macPc)
  BY <1>2, <1>4, <1>5 DEF Machine, Wanted, RxPhysical, TxPhysical, Kept
<1>10. QED
  BY <1>1, <1>2, <1>3, <1>5, <1>6, <1>7, <1>8, <1>9 DEF IInv, Kept, Core

LEMMA OverflowKeeps == ASSUME IInv, RxFifoOverflowIsr PROVE IInv'
<1>1. PICK a : a = [m EXCEPT !.overIF = FALSE, !.missed = m.missed \/ TheAck(m)]
  OBVIOUS
<1>2. Shaped(m) /\ Kept(m, macPc)
  BY DEF IInv, Kept, Core
<1>3. /\ Shaped(a) /\ Same(a, m, {"overIF", "missed"}) /\ (a.missed <=> m.missed \/ TheAck(m))
  BY <1>1, <1>2 DEF Shaped, Same, Fields, MacStart
<1>4. /\ a.tx = m.tx /\ a.ackReq = m.ackReq /\ a.nb = m.nb /\ a.on = m.on /\ a.awake = m.awake
      /\ a.reset = m.reset /\ a.isr = m.isr /\ a.rx = m.rx
      /\ a.newChannel = m.newChannel /\ a.stopIE = m.stopIE /\ a.stopIF = m.stopIF /\ a.csp = m.csp
      /\ a.cspz = m.cspz /\ a.retries = m.retries
      /\ a.status = m.status /\ a.ok = m.ok /\ a.enabled = m.enabled /\ a.outgoingAck = m.outgoingAck
      /\ a.acked = m.acked
  BY <1>3 DEF Same, Fields, MacStart
<1>5. m' = RxHaltCleanupFinalStep(a) /\ macPc' = macPc
  BY <1>1, <1>2, <1>4 DEF RxFifoOverflowIsr, RxHaltCleanup, Kept
<1>6. Channel(a, macPc) /\ Counted(a) /\ Tries(a) /\ Tuned(a) /\ Resting(a) /\ Told(a)
  BY <1>2, <1>3, <1>4 DEF Channel, Counted, Tries, Tuned, Resting, Told, Kept, Core
<1>7. Settled(a)
  BY <1>2, <1>3, <1>4 DEF Acked, Settled, Kept, Core
<1>8. Wanted(a, macPc) /\ a.rx \in {"NO_ACTIVITY", "STARTED"} /\ a.ok /\ ~a.isr /\ ~a.reset
  BY <1>2, <1>4 DEF Wanted, RxPhysical, TxPhysical, Machine, Kept, Core
<1>9. PICK r : r = RxHaltCleanupFinalStep(a)
  OBVIOUS
<1>10. Core(r, macPc) /\ Machine(r) /\ Wanted(r, macPc) /\ r.isr = a.isr /\ r.reset = a.reset
  BY <1>3, <1>6, <1>7, <1>8, <1>9, FinalStepKeeps
<1>11. QED
  BY <1>5, <1>8, <1>9, <1>10 DEF IInv, Kept

LEMMA TxFrameKeeps == ASSUME IInv, TxFrame PROVE IInv'
<1>1. Shaped(m) /\ Kept(m, macPc) /\ m.tx = "NO_ACTIVITY" /\ macPc = "idle"
  BY DEF TxFrame, IInv, Kept, Core
<1>2. PICK ackReq \in BOOLEAN, retries \in 0 .. MaxRetries :
          LET s == NewFrame(m, ackReq, retries) IN
          IF m.awake THEN m' = TxPrepare(s) /\ macPc' = "decide"
                     ELSE m' = TxComplete(s, "TX_ABORTED") /\ UNCHANGED macPc
  BY DEF TxFrame
<1>3. PICK s : s = NewFrame(m, ackReq, retries)
  OBVIOUS
<1>4. /\ Shaped(s) /\ Same(s, m, {"ackReq", "retries", "fifo", "acked", "missed"})
      /\ s.retries \in 0 .. MaxRetries /\ ~s.acked
      /\ s.fifo = IF m.fifo = NoFrame THEN NoFrame ELSE [m.fifo EXCEPT !.right = FALSE]
  <2>1. PICK k : k = IF ackReq THEN retries ELSE 0
    OBVIOUS
  <2>2. k \in 0 .. MaxRetries
    BY <2>1, MacAssumption
  <2>3. PICK f : f = IF m.fifo = NoFrame THEN NoFrame ELSE [m.fifo EXCEPT !.right = FALSE]
    OBVIOUS
  <2>4. s = [m EXCEPT !.ackReq = ackReq, !.retries = k, !.fifo = f, !.acked = FALSE, !.missed = FALSE]
    BY <1>3, <2>1, <2>3 DEF NewFrame
  <2>5. Shaped(s) /\ Same(s, m, {"ackReq", "retries", "fifo", "acked", "missed"})
    BY ZenonT(60), <1>1, <2>4 DEF Shaped, Same, Fields, MacStart
  <2>6. s.retries = k /\ s.fifo = f /\ ~s.acked
    BY <1>1, <2>4 DEF Shaped, Fields, MacStart
  <2>7. QED
    BY <2>2, <2>3, <2>5, <2>6
<1>5. /\ s.tx = m.tx /\ s.nb = m.nb /\ s.on = m.on /\ s.awake = m.awake
      /\ s.reset = m.reset /\ s.buf = m.buf /\ s.isr = m.isr /\ s.state = m.state /\ s.rx = m.rx
      /\ s.newChannel = m.newChannel /\ s.stopIE = m.stopIE /\ s.stopIF = m.stopIF /\ s.csp = m.csp
      /\ s.cspz = m.cspz /\ s.ready = m.ready
      /\ s.status = m.status /\ s.ok = m.ok /\ s.enabled = m.enabled
      /\ s.outgoingAck = m.outgoingAck
  BY <1>4 DEF Same, Fields, MacStart
<1>6. /\ s.fifo \in Frames \cup {NoFrame} /\ ~TheAck(s)
      /\ s.fifo = NoFrame <=> m.fifo = NoFrame
      /\ s.fifo # NoFrame => s.fifo.kind = m.fifo.kind
  <2>1. CASE m.fifo = NoFrame
    BY <1>4, <2>1 DEF TheAck
  <2>2. CASE m.fifo # NoFrame
    <3>1. m.fifo \in Frames
      BY <1>1, <2>2 DEF Kept, Core, Fifo
    <3>2. s.fifo = [m.fifo EXCEPT !.right = FALSE] /\ s.fifo \in Frames
      BY <1>4, <2>2, <3>1, MacAssumption
    <3>3. ~s.fifo.right /\ s.fifo.kind = m.fifo.kind
      BY <3>1, <3>2, MacAssumption
    <3>4. QED
      BY <2>2, <3>2, <3>3, MacAssumption DEF TheAck
  <2>3. QED
    BY <2>1, <2>2
<1>7. /\ s.ok /\ ~s.isr /\ ~s.reset /\ s.csp = "idle" /\ ~s.stopIE /\ ~s.newChannel
      /\ Counted(s) /\ Fifo(s) /\ Machine(s)
  <2>1. s.ok /\ ~s.isr /\ ~s.reset /\ s.csp = "idle" /\ ~s.stopIE /\ ~s.newChannel
    BY <1>1, <1>5 DEF Channel, Tuned, Kept, Core
  <2>2. Counted(s) /\ Fifo(s) /\ Machine(s)
    BY <1>1, <1>4, <1>5, <1>6 DEF Counted, Fifo, Machine, Kept, Core
  <2>3. QED
    BY <2>1, <2>2
<1>8. CASE m.awake
  <2>1. PICK r : r = TxPrepare(s)
    OBVIOUS
  <2>2. m' = r /\ macPc' = "decide"
    BY <1>2, <1>3, <1>8, <2>1
  <2>3. /\ Shaped(r) /\ Same(r, s, {"tx", "nb", "ok", "cspz", "csp", "stopIF", "intIF"}) /\ r.ok
        /\ r.tx = "INITIALIZE" /\ r.nb = 0 /\ r.cspz = "busy" /\ r.csp = "idle" /\ ~r.stopIF
    BY <1>4, <1>7, <2>1, Prepare
  <2>4. /\ r.ackReq = s.ackReq /\ r.on = s.on /\ r.awake = s.awake /\ r.retries = s.retries
        /\ r.reset = s.reset /\ r.buf = s.buf /\ r.isr = s.isr /\ r.state = s.state /\ r.rx = s.rx
        /\ r.newChannel = s.newChannel /\ r.stopIE = s.stopIE /\ r.fifo = s.fifo /\ r.ready = s.ready
        /\ r.status = s.status /\ r.enabled = s.enabled /\ r.outgoingAck = s.outgoingAck
        /\ r.acked = s.acked /\ r.missed = s.missed
    BY <2>3 DEF Same, Fields, MacStart
  <2>5. Channel(r, "decide") /\ Counted(r) /\ Tries(r) /\ Tuned(r) /\ Fifo(r)
    BY <1>5, <1>6, <1>7, <2>3, <2>4, MacAssumption DEF Channel, Counted, Tries, Tuned, Fifo
  <2>6. Resting(r) /\ Due(r, "decide") /\ Told(r) /\ Acked(r)
    BY <1>4, <1>5, <1>6, <1>7, <1>8, <2>3, <2>4 DEF Resting, Due, Told, Acked, TheAck
  <2>7. Machine(r)
    BY <1>6, <1>7, <2>3, <2>4 DEF Machine
  <2>8. Wanted(r, "decide")
    BY <1>1, <1>5, <2>3, <2>4 DEF Wanted, RxPhysical, TxPhysical, Kept
  <2>9. QED
    BY <1>6, <1>7, <2>2, <2>3, <2>4, <2>5, <2>6, <2>7, <2>8 DEF IInv, Kept, Core
<1>9. CASE ~m.awake
  <2>1. m' = TxComplete(s, "TX_ABORTED") /\ macPc' = macPc
    BY <1>2, <1>3, <1>9
  <2>2. "TX_ABORTED" \in Statuses
    BY DEF Statuses
  <2>3. ~s.on /\ s.rx = "NO_ACTIVITY" /\ ~s.outgoingAck
    BY <1>1, <1>5, <1>9 DEF Resting, Kept, Core
  <2>4. Kept(TxComplete(s, "TX_ABORTED"), macPc)
    BY <1>1, <1>4, <1>6, <1>7, <2>2, <2>3, CompleteOut
  <2>5. QED
    BY <1>1, <2>1, <2>4 DEF IInv
<1>10. QED
  BY <1>8, <1>9

LEMMA DecideKeeps == ASSUME IInv, TxFrameDecide PROVE IInv'
<1>1. PICK r : r = TxDecide(m)
  OBVIOUS
<1>2. Shaped(m) /\ Kept(m, macPc) /\ m.tx = "INITIALIZE"
  BY DEF TxFrameDecide, IInv, Kept, Core, Channel
<1>3. m' = r /\ macPc' = IF r.tx = "GO" THEN "go" ELSE "idle"
  BY <1>1 DEF TxFrameDecide
<1>4. PICK pc : pc = IF r.tx = "GO" THEN "go" ELSE "idle"
  OBVIOUS
<1>5. /\ Shaped(r) /\ Same(r, m, {"tx"})
      /\ r.tx = IF m.rx = "NO_ACTIVITY" /\ ~m.outgoingAck THEN "GO" ELSE "QUEUED"
  BY <1>1, <1>2, Decide
<1>6. /\ r.ackReq = m.ackReq /\ r.nb = m.nb /\ r.on = m.on /\ r.awake = m.awake
      /\ r.reset = m.reset /\ r.buf = m.buf /\ r.isr = m.isr /\ r.state = m.state /\ r.rx = m.rx
      /\ r.newChannel = m.newChannel /\ r.stopIE = m.stopIE /\ r.stopIF = m.stopIF /\ r.csp = m.csp
      /\ r.cspz = m.cspz /\ r.fifo = m.fifo /\ r.ready = m.ready /\ r.acked = m.acked /\ r.missed = m.missed
      /\ r.retries = m.retries /\ r.status = m.status /\ r.ok = m.ok /\ r.enabled = m.enabled
      /\ r.outgoingAck = m.outgoingAck
  BY <1>5 DEF Same, Fields, MacStart
<1>7. Channel(r, pc) /\ Counted(r) /\ Tries(r) /\ Tuned(r) /\ Fifo(r)
  BY <1>2, <1>4, <1>5, <1>6 DEF Channel, Counted, Tries, Tuned, Fifo, Kept, Core
<1>8. Resting(r) /\ Due(r, pc) /\ Told(r) /\ Acked(r)
  BY <1>2, <1>4, <1>5, <1>6 DEF Resting, Due, Told, Acked, TheAck, Kept, Core
<1>9. Machine(r)
  BY <1>2, <1>6 DEF Machine, Kept
<1>10. Wanted(r, pc)
  <2>1. macPc = "decide"
    BY DEF TxFrameDecide
  <2>2. r.tx = "GO" \/ (r.tx = "QUEUED" /\ RxPhysical(r))
    BY <1>5, <1>6, <1>9 DEF RxPhysical, Machine
  <2>3. QED
    BY <1>2, <1>6, <2>1, <2>2 DEF Wanted, RxPhysical, TxPhysical, Kept
<1>11. QED
  BY <1>2, <1>3, <1>4, <1>5, <1>6, <1>7, <1>8, <1>9, <1>10 DEF IInv, Kept, Core

LEMMA GoKeeps == ASSUME IInv, TxFrameGo PROVE IInv'
<1>1. PICK r : r = TxGo(m)
  OBVIOUS
<1>2. Shaped(m) /\ Kept(m, macPc) /\ m.tx = "GO" /\ macPc = "go"
  BY DEF TxFrameGo, IInv, Kept, Core, Channel
<1>3. m' = r /\ macPc' = "idle"
  BY <1>1 DEF TxFrameGo
<1>4. /\ Shaped(r) /\ Same(r, m, {"ackIE", "outgoingAck", "on", "stopIE", "intIE", "csp"})
      /\ ~r.outgoingAck /\ r.on /\ r.stopIE /\ r.csp = "csma"
  BY <1>1, <1>2, Go
<1>5. /\ r.tx = m.tx /\ r.ackReq = m.ackReq /\ r.nb = m.nb /\ r.awake = m.awake
      /\ r.reset = m.reset /\ r.buf = m.buf /\ r.isr = m.isr /\ r.state = m.state /\ r.rx = m.rx
      /\ r.newChannel = m.newChannel /\ r.stopIF = m.stopIF
      /\ r.cspz = m.cspz /\ r.fifo = m.fifo /\ r.ready = m.ready /\ r.acked = m.acked /\ r.missed = m.missed
      /\ r.retries = m.retries /\ r.status = m.status /\ r.ok = m.ok /\ r.enabled = m.enabled
  BY <1>4 DEF Same, Fields, MacStart
<1>6. Channel(r, "idle") /\ Counted(r) /\ Tries(r) /\ Tuned(r) /\ Fifo(r)
  BY <1>2, <1>4, <1>5 DEF Channel, Counted, Tries, Tuned, Fifo, Kept, Core
<1>7. Resting(r) /\ Due(r, "idle") /\ Told(r) /\ Acked(r)
  BY <1>2, <1>4, <1>5 DEF Resting, Due, Told, Acked, TheAck, Kept, Core
<1>8. Machine(r) /\ Wanted(r, "idle")
  BY <1>2, <1>5 DEF Machine, Wanted, TxPhysical, Kept
<1>9. QED
  BY <1>2, <1>3, <1>4, <1>5, <1>6, <1>7, <1>8 DEF IInv, Kept, Core

LEMMA OffKeeps == ASSUME IInv, RxDisableOff PROVE IInv'
<1>1. PICK r : r = RxOffRequest(m)
  OBVIOUS
<1>2. Shaped(m) /\ Kept(m, macPc) /\ macPc = "off"
  BY DEF RxDisableOff, IInv, Kept, Core
<1>3. m' = r /\ macPc' = "idle"
  BY <1>1 DEF RxDisableOff
<1>4. /\ Shaped(r) /\ Same(r, m, {"on", "fifo", "ready", "over", "hwAck"})
      /\ m.enabled \/ RxPhysical(m) \/ TxPhysical(m) => r = m
      /\ ~ (m.enabled \/ RxPhysical(m) \/ TxPhysical(m)) => ~r.on
      /\ r = m \/ (~r.on /\ r.fifo = NoFrame /\ ~r.ready)
  BY <1>1, <1>2, OffRequest
<1>5. /\ r.tx = m.tx /\ r.ackReq = m.ackReq /\ r.nb = m.nb /\ r.awake = m.awake
      /\ r.reset = m.reset /\ r.buf = m.buf /\ r.isr = m.isr /\ r.state = m.state /\ r.rx = m.rx
      /\ r.newChannel = m.newChannel /\ r.stopIE = m.stopIE /\ r.stopIF = m.stopIF /\ r.csp = m.csp
      /\ r.cspz = m.cspz /\ r.acked = m.acked /\ r.missed = m.missed /\ r.outgoingAck = m.outgoingAck
      /\ r.retries = m.retries /\ r.status = m.status /\ r.ok = m.ok /\ r.enabled = m.enabled
  BY <1>4 DEF Same, Fields, MacStart
<1>6. Channel(r, "idle") /\ Counted(r) /\ Tries(r) /\ Tuned(r) /\ Fifo(r)
  BY <1>2, <1>4, <1>5 DEF Channel, Counted, Tries, Tuned, Fifo, TxPhysical, Kept, Core
<1>7. Resting(r) /\ Due(r, "idle") /\ Told(r) /\ Acked(r)
  BY <1>2, <1>4, <1>5 DEF Resting, Due, Told, Acked, TheAck, TxPhysical, Kept, Core
<1>8. Machine(r) /\ Wanted(r, "idle")
  BY <1>2, <1>4, <1>5 DEF Machine, Wanted, RxPhysical, TxPhysical, Kept
<1>9. QED
  BY <1>2, <1>3, <1>4, <1>5, <1>6, <1>7, <1>8 DEF IInv, Kept, Core

\* The calls that set what is wanted of the receiver.
LEMMA EnableSteps ==
    ASSUME IInv, RxEnable \/ RxSoftEnable \/ RxDisable \/ Sleep \/ (SleepWakeUp /\ ~m.awake) PROVE IInv'
<1>1. PICK r : r = m'
  OBVIOUS
<1>2. Shaped(m) /\ Kept(m, macPc) /\ macPc = "idle"
  BY DEF RxEnable, RxSoftEnable, RxDisable, Sleep, SleepWakeUp, MacCall, IInv, Kept, Core
<1>3. CASE RxEnable \/ RxSoftEnable \/ RxDisable \/ SleepWakeUp
  <2>1. Shaped(r) /\ Same(r, m, {"on", "enabled", "awake"})
    BY <1>1, <1>2, <1>3 DEF RxEnable, RxSoftEnable, RxDisable, SleepWakeUp, MacCall, RxOn, RxOnRequest,
       Shaped, Same, Fields, MacStart
  <2>2. /\ r.tx = m.tx /\ r.ackReq = m.ackReq /\ r.nb = m.nb
        /\ r.reset = m.reset /\ r.buf = m.buf /\ r.isr = m.isr /\ r.state = m.state /\ r.rx = m.rx
        /\ r.newChannel = m.newChannel /\ r.stopIE = m.stopIE /\ r.stopIF = m.stopIF /\ r.csp = m.csp
        /\ r.cspz = m.cspz /\ r.acked = m.acked /\ r.missed = m.missed /\ r.outgoingAck = m.outgoingAck
        /\ r.retries = m.retries /\ r.status = m.status /\ r.ok = m.ok
        /\ r.fifo = m.fifo /\ r.ready = m.ready
    BY <2>1 DEF Same, Fields, MacStart
  <2>3. /\ m.on => r.on
        /\ r.on => m.on \/ (r.enabled /\ r.awake)
        /\ macPc' = "off" \/ (macPc' = "idle" /\ (m.enabled => r.enabled))
        /\ m.awake => r.awake
    BY ZenonT(60), <1>1, <1>2, <1>3 DEF RxEnable, RxSoftEnable, RxDisable, SleepWakeUp, MacCall, RxOn, RxOnRequest,
       Shaped, Fields, MacStart
  <2>4. PICK pc : pc = macPc'
    OBVIOUS
  <2>5. Channel(r, pc) /\ Counted(r) /\ Tries(r) /\ Tuned(r) /\ Fifo(r) /\ Machine(r)
    BY <1>2, <2>2, <2>3, <2>4 DEF Channel, Counted, Tries, Tuned, Fifo, Machine, Kept, Core
  <2>6. Resting(r) /\ Due(r, pc) /\ Told(r) /\ Acked(r)
    BY <1>2, <2>2, <2>3, <2>4 DEF Resting, Due, Told, Acked, TheAck, Kept, Core
  <2>7. Wanted(r, pc)
    BY <1>2, <2>2, <2>3, <2>4 DEF Wanted, RxPhysical, TxPhysical, Kept
  <2>8. QED
    BY <1>1, <1>2, <2>1, <2>2, <2>3, <2>4, <2>5, <2>6, <2>7 DEF IInv, Kept, Core
<1>4. CASE Sleep
  <2>1. /\ Shaped(r) /\ Same(r, m, {"on", "fifo", "ready", "over", "hwAck", "awake"}) /\ ~r.on
        /\ r.fifo \in {m.fifo, NoFrame} /\ (r.ready => m.ready) /\ macPc' = macPc
        /\ m.on => r.fifo = NoFrame /\ ~r.ready
        /\ m.rx = "NO_ACTIVITY" /\ ~m.outgoingAck /\ m.tx = "NO_ACTIVITY"
    <3>1. PICK e : e = RxOff(m)
      OBVIOUS
    <3>2. /\ Shaped(e) /\ Same(e, m, {"on", "fifo", "ready", "over", "hwAck"}) /\ ~e.on
          /\ (m.on => e.fifo = NoFrame /\ ~e.ready) /\ (~m.on => e = m)
      BY <1>2, <3>1, TurnOff
    <3>3. /\ r = [e EXCEPT !.awake = FALSE] /\ macPc' = macPc
          /\ m.rx = "NO_ACTIVITY" /\ ~m.outgoingAck /\ m.tx = "NO_ACTIVITY"
      BY <1>1, <1>4, <3>1 DEF Sleep, MacCall
    <3>4. Shaped(r) /\ Same(r, e, {"awake"})
      BY <3>2, <3>3 DEF Shaped, Same, Fields, MacStart
    <3>5. QED
      BY <3>2, <3>3, <3>4 DEF Same, Fields, MacStart
  <2>2. /\ r.tx = m.tx /\ r.ackReq = m.ackReq /\ r.nb = m.nb
        /\ r.reset = m.reset /\ r.buf = m.buf /\ r.isr = m.isr /\ r.state = m.state /\ r.rx = m.rx
        /\ r.newChannel = m.newChannel /\ r.stopIE = m.stopIE /\ r.stopIF = m.stopIF /\ r.csp = m.csp
        /\ r.cspz = m.cspz /\ r.acked = m.acked /\ r.missed = m.missed /\ r.outgoingAck = m.outgoingAck
        /\ r.retries = m.retries /\ r.status = m.status /\ r.ok = m.ok
    BY <2>1 DEF Same, Fields, MacStart
  <2>3. Channel(r, macPc) /\ Counted(r) /\ Tries(r) /\ Tuned(r) /\ Fifo(r) /\ Machine(r)
    BY <1>2, <2>1, <2>2 DEF Channel, Counted, Tries, Tuned, Fifo, Machine, Kept, Core
  <2>4. Resting(r) /\ Due(r, macPc) /\ Told(r) /\ Acked(r) /\ Wanted(r, macPc)
    BY <1>2, <2>1, <2>2 DEF Resting, Due, Told, Acked, TheAck, Wanted, Kept, Core
  <2>5. QED
    BY <1>1, <1>2, <2>1, <2>2, <2>3, <2>4 DEF IInv, Kept, Core
<1>5. QED
  BY <1>3, <1>4

LEMMA SetChannelKeeps == ASSUME IInv, RadioSetChannel PROVE IInv'
<1>1. PICK s : s = [m EXCEPT !.newChannel = TRUE]
  OBVIOUS
<1>2. Shaped(m) /\ Kept(m, macPc) /\ m.awake
  BY DEF RadioSetChannel, IInv, Kept, Core
<1>3. Shaped(s) /\ Same(s, m, {"newChannel"}) /\ s.newChannel
  BY <1>1, <1>2 DEF Shaped, Same, Fields, MacStart
<1>4. /\ s.tx = m.tx /\ s.ackReq = m.ackReq /\ s.nb = m.nb /\ s.on = m.on /\ s.awake = m.awake
      /\ s.reset = m.reset /\ s.buf = m.buf /\ s.isr = m.isr /\ s.state = m.state /\ s.rx = m.rx
      /\ s.stopIE = m.stopIE /\ s.stopIF = m.stopIF /\ s.csp = m.csp
      /\ s.cspz = m.cspz /\ s.fifo = m.fifo /\ s.ready = m.ready /\ s.acked = m.acked /\ s.missed = m.missed
      /\ s.retries = m.retries /\ s.status = m.status /\ s.ok = m.ok /\ s.enabled = m.enabled
      /\ s.outgoingAck = m.outgoingAck
  BY <1>3 DEF Same, Fields, MacStart
<1>5. m' = (IF s.tx = "NO_ACTIVITY" THEN RadioUpdateChannel(s) ELSE s) /\ macPc' = macPc
  BY <1>1 DEF RadioSetChannel, MacCall
<1>6. Channel(s, macPc) /\ Counted(s) /\ Tries(s) /\ Fifo(s) /\ Machine(s) /\ Resting(s) /\ Wanted(s, macPc)
  <2>1. Channel(s, macPc) /\ Counted(s) /\ Tries(s) /\ Fifo(s)
    BY <1>2, <1>4 DEF Channel, Counted, Tries, Fifo, Kept, Core
  <2>2. Machine(s) /\ Resting(s) /\ Wanted(s, macPc)
    BY <1>2, <1>4 DEF Machine, Resting, Wanted, RxPhysical, TxPhysical, Kept, Core
  <2>3. QED
    BY <2>1, <2>2
<1>7. Due(s, macPc) /\ Told(s) /\ Acked(s) /\ s.ok /\ ~s.isr /\ ~s.reset /\ s.awake
  BY <1>2, <1>4 DEF Due, Told, Acked, TheAck, Kept, Core
<1>8. CASE s.tx # "NO_ACTIVITY"
  BY <1>3, <1>5, <1>6, <1>7, <1>8 DEF Tuned, IInv, Kept, Core
<1>9. CASE s.tx = "NO_ACTIVITY"
  <2>1. PICK r : r = RadioUpdateChannel(s)
    OBVIOUS
  <2>2. /\ Shaped(r) /\ Same(r, s, Touched \cup {"buf", "state", "rx", "newChannel"}) /\ r.ok
        /\ r.tx = "NO_ACTIVITY" /\ ~r.newChannel
        /\ r.fifo \in {s.fifo, NoFrame} /\ (r.ready => s.ready)
        /\ Channel(r, macPc) /\ Fifo(r) /\ Machine(r) /\ Resting(r) /\ Wanted(r, macPc)
    BY <1>3, <1>6, <1>7, <1>9, <2>1, ChannelOut
  <2>3. /\ r.ackReq = s.ackReq /\ r.nb = s.nb /\ r.reset = s.reset /\ r.isr = s.isr
        /\ r.cspz = s.cspz /\ r.acked = s.acked /\ r.missed = s.missed /\ r.retries = s.retries
        /\ r.status = s.status
    BY <2>2 DEF Same, Touched, Fields, MacStart
  <2>4. Counted(r) /\ Tries(r) /\ Tuned(r) /\ Told(r)
    BY <1>6, <1>7, <1>9, <2>2, <2>3 DEF Counted, Tries, Tuned, Told
  <2>5. Due(r, macPc) /\ Acked(r)
    BY <1>7, <1>9, <2>2, <2>3 DEF Due, Acked, TheAck
  <2>6. QED
    BY <1>5, <1>7, <1>9, <2>1, <2>2, <2>3, <2>4, <2>5 DEF IInv, Kept, Core
<1>10. QED
  BY <1>8, <1>9

LEMMA ResetKeeps == ASSUME IInv, LowLevelReset PROVE IInv'
<1>1. Shaped(m) /\ Kept(m, macPc) /\ m.tx = "NO_ACTIVITY" /\ macPc = "idle" /\ macPc' = macPc
  BY DEF LowLevelReset, MacCall, IInv, Kept, Core
<1>2. CASE ~m.awake
  <2>1. m' = RxOnRequest([m EXCEPT !.awake = TRUE])
    BY <1>2 DEF LowLevelReset, MacCall
  <2>2. SleepWakeUp
    BY <1>2, <2>1 DEF LowLevelReset, MacCall, SleepWakeUp
  <2>3. QED
    BY <1>2, <2>2, EnableSteps
<1>3. CASE m.awake
  <2>1. PICK a : a = [Flush(m) EXCEPT !.enabled = FALSE, !.on = FALSE, !.hwAck = FALSE]
    OBVIOUS
  <2>2. PICK b : b = RxHaltCleanupFinalStep(a)
    OBVIOUS
  <2>3. PICK c : c = [b EXCEPT !.filter = "OFF"]
    OBVIOUS
  <2>4. /\ Shaped(a) /\ Same(a, m, {"fifo", "ready", "over", "enabled", "on", "hwAck"})
        /\ ~a.on /\ a.fifo = NoFrame /\ ~a.ready
    BY ZenonT(60), <1>1, <2>1 DEF Flush, Shaped, Same, Fields, MacStart
  <2>5. /\ a.tx = m.tx /\ a.ackReq = m.ackReq /\ a.nb = m.nb /\ a.awake = m.awake
        /\ a.reset = m.reset /\ a.isr = m.isr /\ a.rx = m.rx /\ a.newChannel = m.newChannel
        /\ a.stopIE = m.stopIE /\ a.stopIF = m.stopIF /\ a.csp = m.csp
        /\ a.cspz = m.cspz /\ a.acked = m.acked /\ a.missed = m.missed
        /\ a.retries = m.retries /\ a.status = m.status /\ a.ok = m.ok
        /\ a.outgoingAck = m.outgoingAck
    BY <2>4 DEF Same, Fields, MacStart
  <2>6. Channel(a, macPc) /\ Counted(a) /\ Tries(a) /\ Tuned(a) /\ Resting(a) /\ Told(a)
    BY <1>1, <1>3, <2>4, <2>5 DEF Channel, Counted, Tries, Tuned, Resting, Told, Kept, Core
  <2>7. /\ a.tx = "NO_ACTIVITY" /\ Wanted(a, macPc) /\ a.rx \in {"NO_ACTIVITY", "STARTED"} /\ a.ok /\ ~a.isr
        /\ ~a.reset
    BY <1>1, <2>4, <2>5 DEF Wanted, Machine, Kept, Core
  <2>8. Core(b, macPc) /\ Machine(b) /\ Wanted(b, macPc) /\ b.isr = a.isr /\ b.reset = a.reset
    BY <2>2, <2>4, <2>6, <2>7, FinalStepKeeps DEF Settled
  <2>9. Shaped(b) /\ Same(b, a, Touched \cup {"buf", "state", "rx"})
    BY <2>2, <2>4, <2>6, <2>7, FinalStep
  <2>10. Shaped(c) /\ Same(c, b, {"filter"})
    BY <2>3, <2>9 DEF Shaped, Same, Fields, MacStart
  <2>11. Kept(c, macPc)
    <3>1. Kept(b, macPc)
      BY <2>7, <2>8 DEF Kept
    <3>2. Same(c, b, Unseen)
      BY <2>10 DEF Same, Unseen
    <3>3. QED
      BY <2>10, <3>1, <3>2, UnseenKeeps
  <2>12. c.awake
    <3>1. b.awake = a.awake
      BY <2>9 DEF Same, Touched, Fields, MacStart
    <3>2. QED
      BY <1>3, <2>5, <2>10, <3>1 DEF Same, Fields, MacStart
  <2>13. m' = c
    <3>1. RxHaltCleanup(a) = b
      BY <2>2, <2>7 DEF RxHaltCleanup
    <3>2. RxTxReset(m) = c
      BY <2>1, <2>3, <3>1 DEF RxTxReset, RxHardDisable
    <3>3. QED
      BY <1>3, <2>12, <3>2 DEF LowLevelReset, MacCall
  <2>14. QED
    BY <1>1, <2>11, <2>13 DEF IInv
<1>4. QED
  BY <1>2, <1>3

LEMMA InitHolds == MacInit => IInv
<1> SUFFICES ASSUME MacInit PROVE IInv
  OBVIOUS
<1>1. m = MacStart /\ macPc = "idle"
  BY DEF MacInit
<1>2. Shaped(m)
  BY <1>1 DEF Shaped, Fields, MacStart
<1>3. Channel(m, macPc) /\ Counted(m) /\ Tries(m) /\ Tuned(m) /\ Fifo(m)
  BY <1>1, MacAssumption DEF MacStart, Channel, Counted, Tries, Tuned, Fifo, Statuses
<1>4. Resting(m) /\ Due(m, macPc) /\ Told(m) /\ Acked(m) /\ Machine(m) /\ Wanted(m, macPc)
  BY <1>1 DEF MacStart, Resting, Due, Told, Acked, TheAck, Machine, Wanted
<1>5. m.ok /\ ~m.isr /\ ~m.reset
  BY <1>1 DEF MacStart
<1>6. QED
  BY <1>1, <1>2, <1>3, <1>4, <1>5 DEF IInv, Kept, Core

\* The invariant holds in every reachable state.
LEMMA Invariance == MacSpec => []IInv
<1>1. IInv /\ [MacNext]_macVars => IInv'
  <2> SUFFICES ASSUME IInv, [MacNext]_macVars PROVE IInv'
    OBVIOUS
  <2>1. CASE Hardware
    BY <2>1, UnseenSteps, CspSteps, ThresholdKeeps DEF Hardware
  <2>2. CASE Interrupts
    BY <2>2, UnseenSteps, StopIsrKeeps, AckTxDoneKeeps, RxIsrKeeps, OverflowKeeps DEF Interrupts
  <2>3. CASE Foreground
    BY <2>3, DecideKeeps, GoKeeps, OffKeeps DEF Foreground
  <2>4. CASE MacCalls
    <3>1. SleepWakeUp => ~m.awake
      BY DEF SleepWakeUp
    <3>2. QED
      BY <2>4, <3>1, TxFrameKeeps, EnableSteps, SetChannelKeeps, UnseenSteps, ResetKeeps DEF MacCalls
  <2>5. CASE Overflow
    BY <2>5, UnseenSteps
  <2>6. CASE \E f \in Frames : Arrive(f)
    BY <2>6, ArriveKeeps
  <2>7. CASE UNCHANGED macVars
    BY <2>7 DEF macVars, IInv
  <2>8. QED
    BY <2>1, <2>2, <2>3, <2>4, <2>5, <2>6, <2>7 DEF MacNext
<1>2. QED
  BY <1>1, InitHolds, PTL DEF MacSpec

\* The low-level MAC is sound (mac_tx.c, mac_rx.c, mac_rx_onoff.c, mac_radio.c,
\* mac_sleep.c): its assertions hold, the receiver is on when it is wanted and
\* only then, the radio sleeps only at rest.  Of a frame that asked for an ACK the
\* upper MAC is told SUCCESS only if its ACK came, and NO_ACK only if none came
\* or one lay in the FIFO when the wait was over or the FIFO was flushed,
\* whatever arrives, however the interrupts fall between the steps of a call,
\* and however long they are held off.
THEOREM RadioIsSound == MacSpec => []RadioSound
<1>1. IInv => RadioSound
  <2> SUFFICES ASSUME IInv PROVE RadioSound
    OBVIOUS
  <2>1. Kept(m, macPc) /\ Core(m, macPc)
    BY DEF IInv, Kept
  <2>2. MacTypeOK
    <3>1. DOMAIN m = DOMAIN MacStart
      BY <2>1 DEF Core, Shaped, Fields
    <3>2. m.csp \in {"idle", "csma", "sending", "waiting"}
      BY <2>1 DEF Core, Channel
    <3>3. QED
      BY <2>1, <3>1, <3>2 DEF MacTypeOK, IInv, Kept, Core, Channel, Counted, Fifo, Machine, TxStates, RxStates
  <2>3. AssertsHold
    BY <2>1, <2>2 DEF AssertsHold, Kept, Core, Machine
  <2>4. ReceiverAsWanted
    BY <2>1 DEF ReceiverAsWanted, Kept, Core, Wanted, TxPhysical, Channel
  <2>5. SleepsQuietly
    BY <2>1 DEF SleepsQuietly, Core, Resting, Channel, Fifo
  <2>6. StatusTrue
    BY <2>1 DEF StatusTrue, Core, Told
  <2>7. QED
    BY <2>3, <2>4, <2>5, <2>6 DEF RadioSound
<1>2. QED
  BY <1>1, Invariance, PTL
=============================================================================
