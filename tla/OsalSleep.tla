----------------------------- MODULE OsalSleep -----------------------------
(***************************************************************************)
(* How an end device goes to sleep: the OSAL loop with POWER_SAVING        *)
(* (osal/common/OSAL.c), osal_pwrmgr_powerconserve (OSAL_PwrMgr.c) and     *)
(* halSleep (hal/target/CC2530EB/hal_sleep.c), against the interrupts that *)
(* raise events or start timers at any moment.                             *)
(*                                                                         *)
(* The loop may sleep only if nothing happened since it last looked.  The  *)
(* variable halSleepPconValue carries that: the loop allows sleep before   *)
(* it looks, each ISR forbids it, and the value is what is written to PCON *)
(* in the end, by one instruction.  In the steps below that cover a stretch*)
(* with interrupts off, no ISR comes in.                                   *)
(***************************************************************************)
EXTENDS Integers

CONSTANTS
    tasksCnt,      \* number of tasks
    Timer,         \* the OSAL timers in use
    Owner,         \* Owner[tm]: the task that timer tm is for
    KeyTimer,      \* the debounce timer the key interrupt starts
    Debounce,      \* HAL_KEY_DEBOUNCE_VALUE
    MinTimeout,    \* bound: shortest timeout a task starts
    MaxTimeout,    \* bound: longest timeout started or asked by the MAC
    MinSleep,      \* PM_MIN_SLEEP_TIME: no power mode for less
    PollRates,     \* what NLME_SetPollRate sets zgPollRate to; 0: no polling
    MaxLag,        \* bound: time the loop spends awake between two updates
    MaxStimuli     \* bound: key and MAC interrupts, events tasks raise

Task == 0 .. tasksCnt - 1

ASSUME TasksAssumption  == tasksCnt \in Nat \ {0}
ASSUME TimersAssumption == KeyTimer \in Timer /\ Owner \in [Timer -> Task]
ASSUME TimesAssumption  == /\ MaxTimeout \in Nat /\ Debounce \in 1 .. MaxTimeout
                           /\ MinTimeout \in 1 .. MaxTimeout
                           /\ MinSleep \in Nat /\ PollRates \subseteq Nat /\ PollRates # {}
                           /\ MaxLag \in Nat /\ MaxStimuli \in Nat

VARIABLES
    powerPc,            \* where the loop is
    idx,                \* the loop's local: the task looked at
    tasksEvents,        \* the tasks with an event waiting
    timeout,            \* timeout[tm]: what timer tm shows, 0 if it is off
    lag,                \* time not yet taken off the timers
    pwrmgr_task_state,  \* the tasks that do not want to conserve power
    halSleepPconValue,  \* TRUE: PCON_IDLE, sleep is allowed
    next,               \* local: the timeout osal_next_timeout returned
    alarm,              \* time to the compare value of the sleep timer
    alarmOn,            \* its interrupt is enabled and has not come
    stimuli             \* stimuli still to come, see MaxStimuli

sleepTimer == <<alarm, alarmOn>>
powerVars == <<powerPc, idx, tasksEvents, timeout, lag, pwrmgr_task_state,
               halSleepPconValue, next, sleepTimer, stimuli>>

Waypoints == {"update", "poll", "app", "scan", "run", "conserve", "halSleep",
              "pmWindow", "pm", "pmExit", "idleWindow", "idle", "wake"}

Longest == MaxTimeout + MaxLag      \* lag is counted up to here

PowerTypeOK ==
    /\ powerPc \in Waypoints
    /\ idx \in Task
    /\ tasksEvents \in SUBSET Task
    /\ timeout \in [Timer -> 0 .. MaxTimeout]
    /\ lag \in 0 .. Longest
    /\ pwrmgr_task_state \in SUBSET Task
    /\ halSleepPconValue \in BOOLEAN
    /\ next \in 0 .. MaxTimeout
    /\ alarm \in 0 .. MaxTimeout
    /\ alarmOn \in BOOLEAN
    /\ stimuli \in 0 .. MaxStimuli

PowerInit ==
    /\ powerPc = "update" /\ idx = 0
    /\ tasksEvents \in SUBSET Task
    /\ timeout \in [Timer -> 0 .. MaxTimeout]
    /\ lag = 0
    /\ pwrmgr_task_state = {}
    /\ halSleepPconValue = TRUE
    /\ next = 0 /\ alarm = 0 /\ alarmOn = FALSE
    /\ stimuli = MaxStimuli

-----------------------------------------------------------------------------
(* The OSAL loop. *)

Stimulus == stimuli > 0 /\ stimuli' = stimuli - 1

Expiring == {tm \in Timer : timeout[tm] > 0 /\ timeout[tm] <= lag}

\* osalTimeUpdate.
Update ==
    /\ powerPc = "update" /\ powerPc' = "poll"
    /\ timeout' = [tm \in Timer |-> IF timeout[tm] > lag THEN timeout[tm] - lag ELSE 0]
    /\ tasksEvents' = tasksEvents \cup {Owner[tm] : tm \in Expiring}
    /\ lag' = 0
    /\ UNCHANGED <<idx, pwrmgr_task_state, halSleepPconValue, next, sleepTimer, stimuli>>

\* The end of Hal_ProcessPoll: "Allow sleep before the next OSAL event loop".
AllowSleep ==
    /\ powerPc = "poll" /\ powerPc' = "app"
    /\ idx' = 0
    /\ halSleepPconValue' = TRUE
    /\ UNCHANGED <<tasksEvents, timeout, lag, pwrmgr_task_state, next, sleepTimer, stimuli>>

\* Someone raises an event for a task.
Raise(events) == Stimulus /\ \E t \in Task : tasksEvents' = events \cup {t}

\* The application's own turn, in some rounds of the loop and after a sleep:
\* it may send, which raises events.
GenericAppEndDeviceEB ==
    /\ \/ powerPc = "app"  /\ powerPc' = "scan"
       \/ powerPc = "wake" /\ powerPc' = "update"
    /\ Raise(tasksEvents) \/ UNCHANGED <<tasksEvents, stimuli>>
    /\ UNCHANGED <<idx, timeout, lag, pwrmgr_task_state, halSleepPconValue, next, sleepTimer>>

\* Mutant: sleep is allowed when the tasks have been looked at, not before.
ScanAllows ==
    /\ powerPc = "scan"
    /\ IF idx \in tasksEvents THEN powerPc' = "run" /\ UNCHANGED <<idx, halSleepPconValue>>
       ELSE IF idx + 1 < tasksCnt THEN idx' = idx + 1 /\ UNCHANGED <<powerPc, halSleepPconValue>>
       ELSE powerPc' = "conserve" /\ idx' = 0 /\ halSleepPconValue' = TRUE
    /\ UNCHANGED <<tasksEvents, timeout, lag, pwrmgr_task_state, next, sleepTimer, stimuli>>

Scan ==
    /\ powerPc = "scan"
    /\ \/ idx \in tasksEvents /\ powerPc' = "run" /\ UNCHANGED idx
       \/ idx \notin tasksEvents /\ idx + 1 < tasksCnt /\ idx' = idx + 1 /\ UNCHANGED powerPc
       \/ idx \notin tasksEvents /\ idx + 1 = tasksCnt /\ idx' = 0 /\ powerPc' = "conserve"
    /\ UNCHANGED <<tasksEvents, timeout, lag, pwrmgr_task_state, halSleepPconValue,
                   next, sleepTimer, stimuli>>

\* A task runs: it may start and stop its timers, change its mind on saving
\* power and raise an event, for itself or another task.
Run ==
    /\ powerPc = "run" /\ powerPc' = "update"
    /\ \/ tasksEvents' = tasksEvents \ {idx} /\ UNCHANGED stimuli
       \/ Raise(tasksEvents \ {idx})
    /\ timeout' \in [Timer -> 0 .. MaxTimeout]
    /\ \A tm \in Timer :
         timeout'[tm] # timeout[tm] =>
           Owner[tm] = idx /\ (timeout'[tm] = 0 \/ timeout'[tm] >= MinTimeout)
    /\ pwrmgr_task_state' \in {pwrmgr_task_state \cup {idx}, pwrmgr_task_state \ {idx}}
    /\ UNCHANGED <<idx, lag, halSleepPconValue, next, sleepTimer>>

-----------------------------------------------------------------------------
(* osal_pwrmgr_powerconserve and halSleep. *)

Running == {timeout[tm] : tm \in Timer} \ {0}

\* osal_next_timeout: the lowest timeout, 0 if no timer runs.  (A timer just
\* stopped still counts in the code; the MAC's timeout below stands for that.)
osal_next_timeout == IF Running = {} THEN 0 ELSE CHOOSE t \in Running : \A u \in Running : t <= u

\* Sleep needs the consent of every task, and of the device and the
\* application: PWRMGR_ALWAYS_ON and the flag OSAL_SET_CPU_INTO_SLEEP forbid it.
PowerConserve ==
    /\ powerPc = "conserve"
    /\ \/ pwrmgr_task_state = {} /\ next' = osal_next_timeout /\ powerPc' = "halSleep"
       \/ powerPc' = "update" /\ UNCHANGED next
    /\ UNCHANGED <<idx, tasksEvents, timeout, lag, pwrmgr_task_state, halSleepPconValue,
                   sleepTimer, stimuli>>

\* The lesser of the timeouts of OSAL and of the MAC, 0 for none.
Lesser(t, m) == IF t = 0 \/ (m # 0 /\ m < t) THEN m ELSE t

\* A power mode is worth while; for no timeout at all, only without polling.
\* (zgPollRate is POLL_RATE, 1000, in the device as built; joining, leaving and
\* key establishment set it again.)
WorthWhile(t, zgPollRate) == t > MinSleep \/ (t = 0 /\ zgPollRate = 0)

\* halSleepSetTimer, if there is a timeout.
SetAlarm(t) == IF t = 0 THEN UNCHANGED sleepTimer ELSE alarm' = t /\ alarmOn' = TRUE

\* Some ISR has forbidden sleep since the loop allowed it.
Forbidden == ~halSleepPconValue

\* With interrupts off: power mode, if none came and the radio agrees ...
EnterPowerMode ==
    /\ powerPc = "halSleep"
    /\ \E m \in 0 .. MaxTimeout, zgPollRate \in PollRates :
         /\ WorthWhile(Lesser(next, m), zgPollRate)
         /\ ~Forbidden
         /\ SetAlarm(Lesser(next, m))
    /\ halSleepPconValue' = TRUE
    /\ powerPc' = "pmWindow"
    /\ UNCHANGED <<idx, tasksEvents, timeout, lag, pwrmgr_task_state, next, stimuli>>

\* ... no sleep at all, if one came ...
NoSleep ==
    /\ powerPc = "halSleep"
    /\ \E m \in 0 .. MaxTimeout, zgPollRate \in PollRates : WorthWhile(Lesser(next, m), zgPollRate)
    /\ Forbidden
    /\ powerPc' = "wake"
    /\ UNCHANGED <<idx, tasksEvents, timeout, lag, pwrmgr_task_state, halSleepPconValue,
                   next, sleepTimer, stimuli>>

\* ... and idle mode, if the radio refuses or the timeout is too close: then
\* whether one came is not looked at.  No timeout at all, and a poll rate, lead
\* here too: no alarm is set, and what an ISR has just raised or started waits
\* for the next interrupt.
EnterIdleMode ==
    /\ powerPc = "halSleep"
    /\ \E m \in 0 .. MaxTimeout, zgPollRate \in PollRates :
         /\ ~WorthWhile(Lesser(next, m), zgPollRate) \/ ~Forbidden
         /\ SetAlarm(Lesser(next, m))
    /\ halSleepPconValue' = TRUE
    /\ powerPc' = "idleWindow"
    /\ UNCHANGED <<idx, tasksEvents, timeout, lag, pwrmgr_task_state, next, stimuli>>

\* PCON = halSleepPconValue.
SetPowerMode ==
    /\ \/ powerPc = "pmWindow"   /\ powerPc' = IF halSleepPconValue THEN "pm" ELSE "pmExit"
       \/ powerPc = "idleWindow" /\ powerPc' = IF halSleepPconValue THEN "idle" ELSE "wake"
    /\ UNCHANGED <<idx, tasksEvents, timeout, lag, pwrmgr_task_state, halSleepPconValue,
                   next, sleepTimer, stimuli>>

\* The rest of halSleep: interrupt masks restored, sleep timer off, radio on.
LeavePowerMode ==
    /\ powerPc = "pmExit" /\ powerPc' = "wake"
    /\ alarmOn' = FALSE
    /\ UNCHANGED <<idx, tasksEvents, timeout, lag, pwrmgr_task_state, halSleepPconValue,
                   next, alarm, stimuli>>

-----------------------------------------------------------------------------
(* Interrupts.  One that comes during sleep ends it. *)

WakeUp == powerPc' = IF powerPc = "pm" THEN "pmExit" ELSE IF powerPc = "idle" THEN "wake" ELSE powerPc

\* Mutant: the key interrupt does not forbid sleep.
halKeyPort0IsrSilent ==
    /\ Stimulus
    /\ timeout' = [timeout EXCEPT ![KeyTimer] = Debounce]
    /\ WakeUp
    /\ UNCHANGED <<idx, tasksEvents, lag, pwrmgr_task_state, halSleepPconValue, next, sleepTimer>>

halKeyPort0Isr ==
    /\ Stimulus
    /\ timeout' = [timeout EXCEPT ![KeyTimer] = Debounce]
    /\ halSleepPconValue' = FALSE
    /\ WakeUp
    /\ UNCHANGED <<idx, tasksEvents, lag, pwrmgr_task_state, next, sleepTimer>>

\* The interrupts of the MAC timer and the radio are masked for a power mode.
MacIsr ==
    /\ Raise(tasksEvents)
    /\ powerPc \notin {"pmWindow", "pm", "pmExit"}
    /\ halSleepPconValue' = FALSE
    /\ WakeUp
    /\ UNCHANGED <<idx, timeout, lag, pwrmgr_task_state, next, sleepTimer>>

\* The compare interrupt the MAC timer always has, every 15 728 640 backoffs
\* (84 minutes) if nothing else sets it; masked, and the timer stopped, for a
\* power mode.  In idle mode it is the last that wakes the processor up.
Rollover ==
    /\ powerPc \notin {"pmWindow", "pm", "pmExit"}
    /\ halSleepPconValue' = FALSE
    /\ WakeUp
    /\ UNCHANGED <<idx, tasksEvents, timeout, lag, pwrmgr_task_state, next, sleepTimer, stimuli>>

halSleepTimerIsr ==
    /\ alarmOn /\ alarm = 0
    /\ alarmOn' = FALSE
    /\ halSleepPconValue' = FALSE
    /\ WakeUp
    /\ UNCHANGED <<idx, tasksEvents, timeout, lag, pwrmgr_task_state, next, alarm, stimuli>>

\* Time passes; awake, the loop comes round within MaxLag.
PowerTick ==
    /\ powerPc \in {"pm", "idle"} \/ lag < MaxLag
    /\ ~(alarmOn /\ alarm = 0)
    /\ lag' = IF lag < Longest THEN lag + 1 ELSE lag
    /\ alarm' = IF alarmOn THEN alarm - 1 ELSE alarm
    /\ UNCHANGED <<powerPc, idx, tasksEvents, timeout, pwrmgr_task_state, halSleepPconValue,
                   next, alarmOn, stimuli>>

-----------------------------------------------------------------------------
Loop == Update \/ AllowSleep \/ GenericAppEndDeviceEB \/ Scan \/ Run \/ PowerConserve
        \/ EnterPowerMode \/ NoSleep \/ EnterIdleMode \/ SetPowerMode \/ LeavePowerMode
Isr  == halKeyPort0Isr \/ MacIsr \/ Rollover \/ halSleepTimerIsr
PowerNext == Loop \/ Isr \/ PowerTick

PowerSpec == PowerInit /\ [][PowerNext]_powerVars

\* An awake processor executes the loop; time passes; the alarm rings, and the
\* MAC timer rolls over.
PowerFairSpec == PowerSpec /\ WF_powerVars(Loop) /\ WF_powerVars(halSleepTimerIsr)
                           /\ WF_powerVars(PowerTick) /\ WF_powerVars(Rollover)

-----------------------------------------------------------------------------
(* Properties. *)

\* The processor is never in a power mode while an event waits: the event
\* would wait until something else wakes the processor up.
NoSleepOnEvent == powerPc = "pm" => tasksEvents = {}

\* The power manager: typed, and never in a power mode on an event.
PowerSound == PowerTypeOK /\ NoSleepOnEvent

\* It enters a power mode only with the alarm set for the first timer that
\* runs, the one an interrupt may just have started included.
AlarmInTime ==
    [][powerPc # "pm" /\ powerPc' = "pm" =>
         \A tm \in Timer : timeout[tm] > 0 => alarmOn /\ alarm <= timeout[tm]]_powerVars

\* Once the interrupts cease, what is raised is handled ...
EventsHandled == \A t \in Task : []<>(t \notin tasksEvents)

\* ... and timers expire, asleep or awake (some may be started again by the
\* task that is told).
TimersExpire == \A tm \in Timer : []<>(timeout[tm] = 0)

\* "Any ISR that is used to wake up the chip shall call this macro.  This
\* prevents the race condition when the PCON IDLE bit is set after such a
\* critical ISR fires during the prep for sleep" (hal_mcu.h).
NoIdleOnEvent == powerPc = "idle" => tasksEvents = {}
=============================================================================
