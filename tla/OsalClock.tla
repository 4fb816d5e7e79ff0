----------------------------- MODULE OsalClock -----------------------------
(***************************************************************************)
(* The OSAL clock (Components/osal/common/OSAL_Clock.c).  A hardware       *)
(* counter of 320 us ticks runs freely; osalTimeUpdate, called in every    *)
(* round of the OSAL loop, converts the ticks since its last call into     *)
(* milliseconds, in 16-bit arithmetic and without losing the remainder,    *)
(* and moves the clock (and the timers, see OsalTimers) by that much.      *)
(*                                                                         *)
(* A tick is 8/25 of a millisecond; remainders are counted in 1/25 ms.     *)
(***************************************************************************)
EXTENDS Integers

CONSTANTS
    Gaps,      \* ticks that may pass between two calls
    MaxTicks   \* bound: ticks in a behaviour

ASSUME GapsAssumption  == Gaps \subseteq Nat
ASSUME TicksAssumption == MaxTicks \in Nat

UINT16       == 65536
MAXCALCTICKS == 8188

VARIABLES
    ticks,                 \* history: ticks since start-up
    previousMacTimerTick,  \* the counter at the last call
    remUsTicks,            \* 1/25 ms not yet counted
    timeMSec,              \* milliseconds of the clock
    OSAL_timeSeconds       \* seconds of the clock

vars == <<ticks, previousMacTimerTick, remUsTicks, timeMSec, OSAL_timeSeconds>>

TypeOK ==
    /\ ticks \in Nat
    /\ previousMacTimerTick \in Nat /\ previousMacTimerTick < UINT16
    /\ remUsTicks \in 0 .. 24
    /\ timeMSec \in 0 .. 1000
    /\ OSAL_timeSeconds \in Nat

Init ==
    /\ ticks = 0
    /\ previousMacTimerTick = 0
    /\ remUsTicks = 0
    /\ timeMSec = 0
    /\ OSAL_timeSeconds = 0

\* macMcuPrecisionCount: 16 bits of the counter, whose start-up value is 0.
macMcuPrecisionCount(t) == t % UINT16

\* How often the loop over MAXCALCTICKS runs for t ticks: while more are left.
Rounds(t) == IF t > MAXCALCTICKS THEN (t - 1) \div MAXCALCTICKS ELSE 0

\* Mutant: the remainders of the rounds are forgotten.
SumForgets(t, rem) == (t - Rounds(t) * MAXCALCTICKS) * 8 + rem

\* The sum that is to fit in a uint16: the ticks left by the loop, times
\* 8, and the remainder, to which each round of the loop has added.
Sum(t, rem) ==
    (t - Rounds(t) * MAXCALCTICKS) * 8 + rem + Rounds(t) * ((MAXCALCTICKS * 8) % 25)

elapsedMSec(t, rem) ==
    Rounds(t) * ((MAXCALCTICKS * 8) \div 25) + (Sum(t, rem) % UINT16) \div 25

\* Mutant: seconds are counted past the thousandth millisecond only once.
ClockUpdateOnce(ms) ==
    LET total == timeMSec + ms IN
    IF total > 1000
    THEN /\ OSAL_timeSeconds' = OSAL_timeSeconds + 1
         /\ timeMSec' = total - 1000
    ELSE timeMSec' = total /\ UNCHANGED OSAL_timeSeconds

osalClockUpdate(ms) ==
    LET total == (timeMSec + ms) % UINT16 IN
    IF total > 1000
    THEN /\ OSAL_timeSeconds' = OSAL_timeSeconds + total \div 1000
         /\ timeMSec' = total % 1000
    ELSE timeMSec' = total /\ UNCHANGED OSAL_timeSeconds

\* One call, now that the counter stands at the tick t.
osalTimeUpdate(t) ==
    LET count == macMcuPrecisionCount(t)
        delta == (count - previousMacTimerTick) % UINT16
        ms    == elapsedMSec(delta, remUsTicks)
    IN  /\ previousMacTimerTick' = count
        /\ IF delta = 0
           THEN UNCHANGED <<remUsTicks, timeMSec, OSAL_timeSeconds>>
           ELSE /\ remUsTicks' = (Sum(delta, remUsTicks) % UINT16) % 25
                /\ osalClockUpdate(ms)

TimePasses ==
    \E gap \in Gaps :
        /\ ticks + gap <= MaxTicks
        /\ ticks' = ticks + gap
        /\ osalTimeUpdate(ticks + gap)

Next == TimePasses
Spec == Init /\ [][Next]_vars

-----------------------------------------------------------------------------
(* Properties. *)

\* The clock loses and invents nothing: what it shows, with the remainder
\* it keeps, is exactly the time of the ticks that have passed, however
\* they were spread over the calls.
ClockExact ==
    25 * (1000 * OSAL_timeSeconds + timeMSec) + remUsTicks = 8 * ticks

\* "(MAXCALCTICKS * 8) + (max remainder) must be <= (uint16 max), so:
\* (8188 * 8) + 24 <= 65535" (comment at OSAL_Clock.c 56).  The loop itself
\* adds 4 to the remainder in each round, so this is a matter of the gap.
SumFits ==
    [][LET delta == (macMcuPrecisionCount(ticks') - previousMacTimerTick) % UINT16
       IN  Sum(delta, remUsTicks) < UINT16]_vars
=============================================================================
