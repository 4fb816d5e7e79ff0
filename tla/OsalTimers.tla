---------------------------- MODULE OsalTimers ----------------------------
(***************************************************************************)
(* The OSAL software timers (Components/osal/common/OSAL_Timers.c): a      *)
(* singly linked list of heap records that osalTimerUpdate walks from the  *)
(* main loop, one critical section per record, while ISRs may start timers *)
(* between any two of those sections.                                      *)
(*                                                                         *)
(* A timer is a pair of a task and an event flag; it is one constant here. *)
(* osal_stop_timerEx does not unlink: it clears the event flag, and the    *)
(* walk drops the record later.                                            *)
(***************************************************************************)
EXTENDS Naturals, FiniteSets

CONSTANTS
    Timer,        \* the timers that are used: task and event flag pairs
    Rec,          \* the heap blocks available for timer records
    MaxTimeout,   \* bound: longest timeout started, in milliseconds
    MaxLag,       \* bound: longest time between two walks, in milliseconds
    MaxCalls      \* bound: calls of the timer interface in a behaviour

CONSTANT NULL     \* no record

ASSUME TimerAssumption == Timer # {}
ASSUME RecAssumption   == IsFiniteSet(Rec) /\ NULL \notin Rec
ASSUME BoundAssumption == MaxTimeout \in Nat /\ MaxLag \in Nat /\ MaxCalls \in Nat

VARIABLES
    timerHead,    \* the first record of the list
    next,         \* the next pointers
    rec,          \* the other fields of the records
    raised,       \* timers whose event flag is set in the task's event word
    lag,          \* milliseconds that passed since the last walk
    walkPc,       \* where osalTimerUpdate is, "idle" outside of it
    updateTime,   \* its parameter
    srchTimer,    \* its local: record to visit next
    prevTimer,    \* its local: the record before srchTimer
    freeTimer,    \* its local: record unlinked by the visit just made
    calls         \* calls still to come, see MaxCalls

listVars == <<timerHead, next>>
callVars == <<listVars, rec, calls>>
walkVars == <<walkPc, updateTime, srchTimer, prevTimer, freeTimer>>
timersVars     == <<callVars, raised, lag, walkVars>>

\* flag is FALSE once the event flag has been cleared by osalDeleteTimer.
\* due is a history variable: the time that is really left.
Record == [id : Timer, flag : BOOLEAN, timeout : Nat, reload : Nat, due : Nat]
Blank  == [id |-> CHOOSE t \in Timer : TRUE, flag |-> FALSE,
           timeout |-> 0, reload |-> 0, due |-> 0]

Pointer == Rec \cup {NULL}

\* The record reached from timerHead after n next pointers, NULL past the end.
Nth[n \in 0 .. Cardinality(Rec)] ==
    IF n = 0 THEN timerHead
    ELSE IF Nth[n - 1] = NULL THEN NULL ELSE next[Nth[n - 1]]

Linked == {Nth[n] : n \in 0 .. Cardinality(Rec)} \ {NULL}

Used           == Linked \cup ({freeTimer} \ {NULL})

\* The records the walk has still to visit.
Ahead == {Nth[n] : n \in {k \in 0 .. Cardinality(Rec) : \E j \in 0 .. k : Nth[j] = srchTimer}}
             \ {NULL}

TimersTypeOK ==
    /\ timerHead \in Pointer
    /\ next \in [Rec -> Pointer]
    /\ rec \in [Rec -> Record]
    /\ raised \in SUBSET Timer
    /\ lag \in Nat
    /\ walkPc \in {"idle", "visit", "notify"}
    /\ updateTime \in Nat
    /\ srchTimer \in Pointer /\ prevTimer \in Pointer /\ freeTimer \in Pointer
    /\ calls \in Nat

TimersInit ==
    /\ timerHead = NULL
    /\ next = [r \in Rec |-> NULL]
    /\ rec = [r \in Rec |-> Blank]
    /\ raised = {}
    /\ lag = 0
    /\ walkPc = "idle"
    /\ updateTime = 0
    /\ srchTimer = NULL /\ prevTimer = NULL /\ freeTimer = NULL
    /\ calls = MaxCalls

-----------------------------------------------------------------------------
(* The interface.  Each call is one critical section.                      *)

Call == calls > 0 /\ calls' = calls - 1

\* osalFindTimer: the linked records that carry the event flag of tm.
Found(tm) == {r \in Linked : rec[r].flag /\ rec[r].id = tm}

\* osalAddTimer on a timer that is running: only the timeout is replaced.
Restart(tm, timeout, reload) ==
    /\ \E r \in Found(tm) :
         rec' = [rec EXCEPT ![r].timeout = timeout, ![r].due = timeout,
                            ![r].reload = IF reload THEN timeout ELSE @]
    /\ UNCHANGED listVars

NewRecord(tm, timeout, reload) ==
    [id |-> tm, flag |-> TRUE, timeout |-> timeout,
     reload |-> IF reload THEN timeout ELSE 0, due |-> timeout]

\* Mutant: new timers go to the head of the list.
AddAtHead(tm, timeout, reload) ==
    /\ Found(tm) = {}
    /\ \E r \in Rec \ Used :
         /\ rec' = [rec EXCEPT ![r] = NewRecord(tm, timeout, reload)]
         /\ timerHead' = r /\ next' = [next EXCEPT ![r] = timerHead]

\* Mutant: no look for a timer that is running already.
AddUnlooked(tm, timeout, reload) ==
    \E r \in Rec \ Used :
        /\ rec' = [rec EXCEPT ![r] = NewRecord(tm, timeout, reload)]
        /\ IF timerHead = NULL
           THEN timerHead' = r /\ UNCHANGED next
           ELSE \E last \in Linked :
                  next[last] = NULL /\ next' = [next EXCEPT ![last] = r] /\ UNCHANGED timerHead

\* osalAddTimer on a timer that is not: a new record at the end of the list.
Add(tm, timeout, reload) ==
    /\ Found(tm) = {}
    /\ \E r \in Rec \ Used :
         /\ rec' = [rec EXCEPT ![r] = NewRecord(tm, timeout, reload)]
         /\ IF timerHead = NULL
            THEN timerHead' = r /\ next' = [next EXCEPT ![r] = NULL]
            ELSE \E last \in Linked :
                   /\ next[last] = NULL
                   /\ next' = [next EXCEPT ![last] = r, ![r] = NULL]
                   /\ UNCHANGED timerHead

\* NO_TIMER_AVAIL: the heap has no block left.
AddFails(tm) == Found(tm) = {} /\ Rec \subseteq Used /\ UNCHANGED <<listVars, rec>>

Start(tm, timeout, reload) ==
    Restart(tm, timeout, reload) \/ Add(tm, timeout, reload) \/ AddFails(tm)

\* osal_stop_timerEx: INVALID_EVENT_ID when the timer is not running.
Stop(tm) ==
    /\ rec' = [r \in Rec |-> IF r \in Found(tm) THEN [rec[r] EXCEPT !.flag = FALSE]
                                                ELSE rec[r]]
    /\ UNCHANGED listVars

\* The thread calls between two walks ...
ThreadCall ==
    /\ walkPc = "idle" /\ Call
    /\ \E tm \in Timer :
         \/ \E n \in 0 .. MaxTimeout, reload \in BOOLEAN : Start(tm, n, reload)
         \/ Stop(tm)
    /\ UNCHANGED <<raised, lag, walkVars>>

\* ... an ISR at any time (halProcessKeyInterrupt starts the key timer).
IsrCall ==
    /\ Call
    /\ \E tm \in Timer, n \in 1 .. MaxTimeout : Start(tm, n, FALSE)
    /\ UNCHANGED <<raised, lag, walkVars>>

-----------------------------------------------------------------------------
(* osalTimerUpdate, called by osalTimeUpdate with the elapsed time. *)

TimerUpdate ==
    /\ walkPc = "idle"
    /\ lag > 0 /\ lag' = 0
    /\ updateTime' = lag
    /\ IF timerHead = NULL
       THEN UNCHANGED <<walkPc, srchTimer, prevTimer>>
       ELSE walkPc' = "visit" /\ srchTimer' = timerHead /\ prevTimer' = NULL
    /\ UNCHANGED <<callVars, raised, freeTimer>>

\* Mutants: an unsigned underflow; one millisecond per call; no zeroing.
LeftUnclamped(r) == rec[r].timeout - updateTime
LeftOneTick(r)   == IF rec[r].timeout <= 1 THEN 0 ELSE rec[r].timeout - 1
LeftUnzeroed(r)  == IF rec[r].timeout <= updateTime THEN rec[r].timeout
                                                    ELSE rec[r].timeout - updateTime

\* The new timeout of record r after the elapsed time is taken off.
Left(r) == IF rec[r].timeout <= updateTime THEN 0 ELSE rec[r].timeout - updateTime

Reloads(r) == Left(r) = 0 /\ rec[r].reload > 0 /\ rec[r].flag
Drops(r)   == ~ rec[r].flag \/ (Left(r) = 0 /\ ~ Reloads(r))

\* Mutant: the reload forgets to raise the event.
RaisedSilently(r) == raised
RaisedByReload(r) == IF Reloads(r) THEN raised \cup {rec[r].id} ELSE raised

\* The critical section for one record: count down, reload, unlink.
Visit ==
    /\ walkPc = "visit" /\ srchTimer # NULL
    /\ LET r == srchTimer IN
       /\ rec' = [rec EXCEPT ![r].timeout = IF Reloads(r) THEN rec[r].reload ELSE Left(r),
                             ![r].due = IF Reloads(r) THEN rec[r].reload ELSE @]
       /\ raised' = RaisedByReload(r)
       /\ srchTimer' = next[r]
       /\ IF Drops(r)
          THEN /\ IF prevTimer = NULL
                  THEN timerHead' = next[r] /\ UNCHANGED next
                  ELSE next' = [next EXCEPT ![prevTimer] = next[r]] /\ UNCHANGED timerHead
               /\ freeTimer' = r
               /\ walkPc' = "notify"
               /\ UNCHANGED prevTimer
          ELSE /\ prevTimer' = r
               /\ UNCHANGED <<listVars, freeTimer, walkPc>>
    /\ UNCHANGED <<lag, updateTime, calls>>

\* Mutant: the task is told of a stopped timer, too.
RaisedAnyway(r)   == raised \cup {rec[r].id}
RaisedByExpiry(r) == IF rec[r].timeout = 0 /\ rec[r].flag THEN raised \cup {rec[r].id} ELSE raised

\* After the critical section: tell the task and free the record.
Notify ==
    /\ walkPc = "notify"
    /\ raised' = RaisedByExpiry(freeTimer)
    /\ rec' = [rec EXCEPT ![freeTimer] = Blank]
    /\ next' = [next EXCEPT ![freeTimer] = NULL]
    /\ freeTimer' = NULL
    /\ walkPc' = "visit"
    /\ UNCHANGED <<timerHead, lag, updateTime, srchTimer, prevTimer, calls>>

WalkDone ==
    /\ walkPc = "visit" /\ srchTimer = NULL
    /\ walkPc' = "idle" /\ prevTimer' = NULL /\ updateTime' = 0
    /\ UNCHANGED <<callVars, raised, lag, srchTimer, freeTimer>>

-----------------------------------------------------------------------------
(* The environment: time passes, and the tasks handle their events. *)

Tick ==
    /\ lag < MaxLag
    /\ lag' = lag + 1
    /\ rec' = [r \in Rec |-> [rec[r] EXCEPT !.due = IF @ = 0 THEN 0 ELSE @ - 1]]
    /\ UNCHANGED <<listVars, calls, raised, walkVars>>

Handle ==
    /\ walkPc = "idle"
    /\ \E tm \in raised : raised' = raised \ {tm}
    /\ UNCHANGED <<callVars, lag, walkVars>>

Walk == TimerUpdate \/ Visit \/ Notify \/ WalkDone
TimersNext == ThreadCall \/ IsrCall \/ Walk \/ Tick \/ Handle

TimersSpec     == TimersInit /\ [][TimersNext]_timersVars

\* Time passes and the main loop keeps calling osalTimeUpdate.
TimersFairSpec == TimersSpec /\ WF_timersVars(Tick) /\ WF_timersVars(Walk)

-----------------------------------------------------------------------------
(* Properties. *)

\* The list ends, in a NULL pointer, and no record is on it twice.
ListEnds == Nth[Cardinality(Rec)] = NULL

\* The walk holds its two pointers across the end of a critical section.
\* They must still be neighbours in the list when the next section uses
\* them, whatever an ISR did in between: else Visit unlinks a wrong record
\* or touches freed memory.
WalkPointersValid ==
    walkPc \in {"visit", "notify"} /\ srchTimer # NULL =>
        /\ srchTimer \in Linked
        /\ IF prevTimer = NULL THEN timerHead = srchTimer
                               ELSE prevTimer \in Linked /\ next[prevTimer] = srchTimer

\* The record about to be freed is out of the list.
FreedIsUnlinked == freeTimer \notin Linked

\* The list can be walked safely while ISRs append to it.
WalkSafe == ListEnds /\ WalkPointersValid /\ FreedIsUnlinked

\* osalFindTimer can find at most one record: osal_stop_timerEx stops all.
OneRecordPerTimer == \A tm \in Timer : Cardinality(Found(tm)) <= 1

\* No timer loses time: what it shows is at most what is really left plus
\* the time no walk has taken off it yet.  It follows that a timer is late
\* by no more than the main loop is.
NeverLate ==
    \A r \in Linked :
        rec[r].timeout <= rec[r].due + lag + (IF r \in Ahead THEN updateTime ELSE 0)

\* The timers: the walk meets no freed record, a timer has one record, and
\* none is late by more than the main loop is.
TimersSound == TimersTypeOK /\ WalkSafe /\ OneRecordPerTimer /\ NeverLate

\* Once the calls stop, every timer that runs once expires (unless one of the
\* calls made it a reload timer).
RunsOnce(tm) == \E r \in Found(tm) : rec[r].reload = 0

TimerExpires == <>[](\A tm \in Timer : ~ RunsOnce(tm))

\* A reload timer that keeps running keeps raising its event.
ReloadKeepsFiring ==
    \A tm \in Timer :
        (<>[](\E r \in Found(tm) : rec[r].reload > 0)) => []<>(tm \in raised)

-----------------------------------------------------------------------------
(* What the timer service promises, see OsalTimerService. *)

Mode(tm) ==
    IF Found(tm) = {} THEN "off"
    ELSE IF \E r \in Found(tm) : rec[r].reload > 0 THEN "periodic" ELSE "once"

Service == INSTANCE OsalTimerService WITH
    mode    <- [tm \in Timer |-> Mode(tm)],
    expired <- {tm \in Timer : /\ walkPc = "notify" /\ rec[freeTimer].flag
                               /\ rec[freeTimer].id = tm},
    raised  <- raised

ServiceSpec == Service!Spec
=============================================================================
