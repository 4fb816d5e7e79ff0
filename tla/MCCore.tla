------------------------------- MODULE MCCore -------------------------------
(***************************************************************************)
(* What everything else runs on: the kernel, the timers, and the low level *)
(* of the MAC with the radio, each against all that may happen to it.  A   *)
(* behaviour is one of the components, and the others stay as they were    *)
(* initialised.                                                            *)
(*                                                                         *)
(* The kernel has two tasks; task 0 knows both event bits, task 1 only     *)
(* one.  Three record blocks for two timers leave room for a stopped       *)
(* record that is still linked.  The air carries right, wrong and broken   *)
(* acknowledgements and data frames.                                       *)
(***************************************************************************)
EXTENDS OsalKernel, OsalTimers, MacRadio

CONSTANTS m1, m2, m3, t1, t2, r1, r2, r3

MCMsg     == {m1, m2, m3}
MCHandles == [t \in Task |-> IF t = 0 THEN {"EVT_A", "EVT_B"} ELSE {"EVT_A"}]
MCTimer   == {t1, t2}
MCRec     == {r1, r2, r3}

Frame(kind, right, ackReq, crc, form, addr, payload) ==
    [kind |-> kind, right |-> right, ackReq |-> ackReq, crc |-> crc, form |-> form,
     addr |-> addr, payload |-> payload]
MCFrames == {
    Frame("ack", TRUE, FALSE, TRUE, "sound", FALSE, 0),
    Frame("ack", FALSE, FALSE, TRUE, "sound", FALSE, 0),
    Frame("ack", FALSE, FALSE, FALSE, "sound", FALSE, 0),
    Frame("data", FALSE, TRUE, TRUE, "sound", TRUE, 1),
    Frame("beacon", FALSE, TRUE, FALSE, "sound", FALSE, 0),
    Frame("data", FALSE, FALSE, TRUE, "short", FALSE, 0),
    Frame("command", FALSE, TRUE, TRUE, "reserved", FALSE, 0),
    Frame("data", FALSE, TRUE, TRUE, "garbled", FALSE, 0)}

VARIABLE part    \* the component that runs

MCvars == <<part, vars, timersVars, macVars>>

Kernel(A) == part = "kernel" /\ A /\ UNCHANGED <<part, timersVars, macVars>>
Timing(A) == part = "timers" /\ A /\ UNCHANGED <<part, vars, macVars>>
OnAir(A)  == part = "radio" /\ A /\ UNCHANGED <<part, vars, timersVars>>

MCInit == part \in {"kernel", "timers", "radio"} /\ Init /\ TimersInit /\ MacInit

MCNext == Kernel(Next) \/ Timing(TimersNext) \/ OnAir(MacNext)

\* The fairness of the component that runs.
MCSpec ==
    /\ MCInit /\ [][MCNext]_MCvars
    /\ WF_MCvars(Kernel(Loop) \/ Timing(Walk))
    /\ WF_MCvars(Timing(Tick))
    /\ MacFairness

-----------------------------------------------------------------------------
\* The walk, in its many critical sections, does what the promised service
\* does in one: the refinement ServiceSpec, looked at where it is the timers that
\* run.  What is started expires, and what reloads goes on firing.
TimersServe ==
    /\ part = "timers" => Service!Init
    /\ [][part = "timers" => [Service!Next]_(Service!serviceVars)]_MCvars
    /\ part = "timers" => TimerExpires /\ ReloadKeepsFiring
=============================================================================
