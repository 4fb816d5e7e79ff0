------------------------- MODULE OsalTimerService -------------------------
(***************************************************************************)
(* What the timer interface of OSAL promises its callers: a timer raises   *)
(* its event only if it was started and not stopped since; one that runs   *)
(* once raises it once per start; a periodic one goes on until it is       *)
(* stopped, a plain start included.                                        *)
(***************************************************************************)
CONSTANT Timer

VARIABLES
    mode,     \* mode[tm]: "off", "once" or "periodic"
    expired,  \* timers that ran out and whose task is about to be told
    raised    \* timers whose event waits for the task

serviceVars == <<mode, expired, raised>>

Init ==
    /\ mode = [tm \in Timer |-> "off"]
    /\ expired = {}
    /\ raised = {}

Start(tm) ==
    /\ mode' = [mode EXCEPT ![tm] = IF @ = "periodic" THEN @ ELSE "once"]
    /\ UNCHANGED <<expired, raised>>

\* With a timeout of zero a periodic start is a plain one.
StartReload(tm) ==
    /\ \E m \in {"once", "periodic"} : mode' = [mode EXCEPT ![tm] = m]
    /\ UNCHANGED <<expired, raised>>

\* A timer that expired before it was stopped is past stopping.
Stop(tm) ==
    /\ tm \notin expired
    /\ mode' = [mode EXCEPT ![tm] = "off"]
    /\ UNCHANGED <<expired, raised>>

RunOut(tm) ==
    /\ mode[tm] = "once"
    /\ mode' = [mode EXCEPT ![tm] = "off"]
    /\ expired' = expired \cup {tm}
    /\ UNCHANGED raised

Raise(tm) ==
    /\ tm \in expired
    /\ expired' = expired \ {tm}
    /\ raised' = raised \cup {tm}
    /\ UNCHANGED mode

Fire(tm) ==
    /\ mode[tm] = "periodic"
    /\ raised' = raised \cup {tm}
    /\ UNCHANGED <<mode, expired>>

Handle(tm) ==
    /\ tm \in raised
    /\ raised' = raised \ {tm}
    /\ UNCHANGED <<mode, expired>>

Next ==
    \E tm \in Timer :
        Start(tm) \/ StartReload(tm) \/ Stop(tm) \/ RunOut(tm) \/ Raise(tm)
        \/ Fire(tm) \/ Handle(tm)

Spec == Init /\ [][Next]_serviceVars
=============================================================================
