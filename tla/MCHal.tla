------------------------------- MODULE MCHal -------------------------------
(***************************************************************************)
(* What works with the hardware: the UART's transmitter and its receiver,  *)
(* and the power manager with the sleep timer.  A behaviour is one of      *)
(* these components against all that may happen to it; the others stay as  *)
(* they were initialised.                                                  *)
(*                                                                         *)
(* The transmit buffers have three places, the receive ring has four; the  *)
(* power manager has two tasks, the key timer of the first and a timer of  *)
(* the second.                                                             *)
(***************************************************************************)
EXTENDS HalUartTx, HalUartRx, OsalSleep

MCTimer == {"key", "app"}
MCOwner == [tm \in MCTimer |-> IF tm = "key" THEN 0 ELSE 1]

VARIABLE part    \* the component that runs

MCvars == <<part, vars, rxVars, powerVars>>

Sends(A) == part = "tx" /\ A /\ UNCHANGED <<part, rxVars, powerVars>>
Hears(A) == part = "rx" /\ A /\ UNCHANGED <<part, vars, powerVars>>
Power(A) == part = "power" /\ A /\ UNCHANGED <<part, vars, rxVars>>

\* The phase of the sleep timer and what the power manager finds to do are
\* open only for the component that asks.
MCInit ==
    /\ part \in {"tx", "rx", "power"}
    /\ Init /\ RxInit /\ PowerInit
    /\ part # "tx" => ST0 = 0
    /\ part # "power" => tasksEvents = {} /\ \A tm \in Timer : timeout[tm] = 0

MCNext == Sends(Next) \/ Hears(RxNext) \/ Power(PowerNext)

\* The fairness of the component that runs.
MCSpec ==
    /\ MCInit /\ [][MCNext]_MCvars
    /\ WF_MCvars(Sends(WriteCommit) \/ Hears(PollTail) \/ Power(Loop))
    /\ WF_MCvars(Sends(Poll) \/ Hears(PollCount) \/ Power(halSleepTimerIsr))
    /\ WF_MCvars(Sends(DmaByte) \/ Hears(ReadMark) \/ Power(PowerTick))
    /\ WF_MCvars(Sends(halDmaIsr) \/ Hears(RxTick))
    /\ WF_MCvars(Sends(Tick) \/ Hears(CallbackReturns) \/ Power(Rollover))

-----------------------------------------------------------------------------
\* It sleeps only with the alarm set in time, and events are handled and
\* timers expire though it sleeps between, whatever the poll rate: in idle mode
\* perhaps not before the MAC timer rolls over.
PowerWakes == AlarmInTime /\ EventsHandled /\ TimersExpire
=============================================================================
