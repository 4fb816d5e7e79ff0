---------------------------- MODULE OsalKernel ----------------------------
(***************************************************************************)
(* The OSAL kernel (Components/osal/common/OSAL.c): one event word per     *)
(* task, one message queue shared by all tasks, and the endless loop that  *)
(* dispatches the ready task of highest priority (lowest index).           *)
(*                                                                         *)
(* There is one thread of control plus interrupt service routines.  An     *)
(* ISR runs to completion between any two steps of the loop, never inside  *)
(* a critical section, so a step below is either one critical section of   *)
(* the C code or one unprotected access to shared data.                    *)
(***************************************************************************)
EXTENDS Naturals, Sequences, SequencesExt, FiniteSets, Functions

CONSTANTS
    tasksCnt,     \* number of entries of tasksArr
    Msg,          \* message buffers the heap can hand out
    UserEvent,    \* event bits of a task other than SYS_EVENT_MSG
    Handles,      \* Handles[t]: the event bits the handler of t knows
    MaxStimuli    \* bound: messages sent and events raised in a behaviour

Task == 0 .. tasksCnt - 1

ASSUME TasksAssumption    == tasksCnt \in 1 .. 254
ASSUME EventsAssumption   == "SYS_EVENT_MSG" \notin UserEvent
ASSUME HandlesAssumption  == Handles \in [Task -> SUBSET UserEvent]
ASSUME StimuliAssumption  == MaxStimuli \in Nat

TASK_NO_TASK  == 255
SYS_EVENT_MSG == "SYS_EVENT_MSG"
EventWord     == SUBSET (UserEvent \cup {SYS_EVENT_MSG})

VARIABLES
    tasksEvents,  \* tasksEvents[t]: the event bits waiting for task t
    qHead,        \* osal_qHead: the message queue, oldest first
    destId,       \* destId[m]: the dest_id field of the header of m
    allocated,    \* buffers out of the heap: in the queue or held by code
    pc,           \* where the loop is
    idx,          \* the loop's local: the task scanned or running
    events,       \* the loop's local: the bits its handler has not consumed
    signal,       \* destination of an osal_msg_send between its two halves
    stimuli       \* stimuli still to come, see MaxStimuli

queueVars == <<qHead, destId, allocated>>
loopVars  == <<pc, idx, events, signal>>
vars      == <<tasksEvents, queueVars, loopVars, stimuli>>

Waypoints == {"init", "poll", "scan", "take", "dispatch", "handle", "putback"}

TypeOK ==
    /\ tasksEvents \in [Task -> EventWord]
    /\ qHead \in Seq(Msg)
    /\ destId \in [Msg -> Task \cup {TASK_NO_TASK}]
    /\ allocated \in SUBSET Msg
    /\ pc \in Waypoints
    /\ idx \in Task
    /\ events \in EventWord
    /\ signal \in Task \cup {TASK_NO_TASK}
    /\ stimuli \in Nat

Queued     == Range(qHead)
Waiting(t) == {i \in 1 .. Len(qHead) : destId[qHead[i]] = t}

(***************************************************************************)
(* What osal_init_system leaves behind: an empty queue, no event.  The     *)
(* init functions of the tasks (osalInitTasks) may already raise events    *)
(* and send messages: they are the calls made at pc = "init".              *)
(***************************************************************************)
Init ==
    /\ tasksEvents = [t \in Task |-> {}]
    /\ qHead = <<>>
    /\ destId = [m \in Msg |-> TASK_NO_TASK]
    /\ allocated = {}
    /\ pc = "init"
    /\ idx = 0
    /\ events = {}
    /\ signal = TASK_NO_TASK
    /\ stimuli = MaxStimuli

-----------------------------------------------------------------------------
(* The services, as seen by any caller. *)

Stimulus == stimuli > 0 /\ stimuli' = stimuli - 1

\* osal_set_event for a valid task.
SetEvent(t, bits) == tasksEvents' = [tasksEvents EXCEPT ![t] = @ \cup bits]

\* osal_msg_allocate when the heap has room.
Allocate(m) ==
    /\ m \notin allocated
    /\ allocated' = allocated \cup {m}
    /\ destId' = [destId EXCEPT ![m] = TASK_NO_TASK]
    /\ UNCHANGED qHead

\* osal_msg_deallocate: a buffer that is queued is not freed.
Deallocate(m) ==
    /\ m \in allocated
    /\ allocated' = IF destId[m] = TASK_NO_TASK THEN allocated \ {m} ELSE allocated
    /\ UNCHANGED <<qHead, destId>>

\* Mutants: a queued message is queued again; the newest message comes first.
EnqueueUnchecked(m, t) ==
    /\ m \in allocated
    /\ destId' = [destId EXCEPT ![m] = t]
    /\ qHead' = Append(qHead, m)
    /\ UNCHANGED allocated
EnqueueAtHead(m, t) ==
    /\ m \in allocated
    /\ destId[m] = TASK_NO_TASK
    /\ destId' = [destId EXCEPT ![m] = t]
    /\ qHead' = <<m>> \o qHead
    /\ UNCHANGED allocated

\* The part of osal_msg_send that ends with osal_msg_enqueue.
Enqueue(m, t) ==
    /\ m \in allocated
    /\ destId[m] = TASK_NO_TASK
    /\ destId' = [destId EXCEPT ![m] = t]
    /\ qHead' = Append(qHead, m)
    /\ UNCHANGED allocated

\* osal_msg_send to a task id out of range.
SendToNobody(m) == Deallocate(m)

\* osal_msg_send of a buffer that is queued already.
SendAgain(m) ==
    /\ m \in allocated
    /\ destId[m] # TASK_NO_TASK
    /\ UNCHANGED queueVars

-----------------------------------------------------------------------------
(* Calls made by code running on the thread: the task init functions, the  *)
(* pollers of the loop (osalTimeUpdate, Hal_ProcessPoll, the application   *)
(* hook) and the event handlers.                                           *)

Calling == pc \in {"init", "poll", "handle"} /\ signal = TASK_NO_TASK

CallSetEvent ==
    /\ Calling /\ Stimulus
    /\ \E t \in Task, e \in UserEvent : SetEvent(t, {e})
    /\ UNCHANGED <<queueVars, loopVars>>

CallAllocate ==
    /\ Calling
    /\ \E m \in Msg : Allocate(m)
    /\ UNCHANGED <<tasksEvents, loopVars, stimuli>>

CallDeallocate ==
    /\ Calling
    /\ \E m \in Msg : Deallocate(m)
    /\ UNCHANGED <<tasksEvents, loopVars, stimuli>>

\* osal_msg_send up to its call of osal_set_event: interrupts may come now.
CallSend ==
    /\ Calling /\ Stimulus
    /\ \E m \in Msg :
         \/ \E t \in Task : Enqueue(m, t) /\ signal' = t
         \/ (SendToNobody(m) \/ SendAgain(m)) /\ UNCHANGED signal
    /\ UNCHANGED <<tasksEvents, pc, idx, events>>

\* The rest of osal_msg_send: the receiver is told.
Signal ==
    /\ signal # TASK_NO_TASK
    /\ SetEvent(signal, {SYS_EVENT_MSG})
    /\ signal' = TASK_NO_TASK
    /\ UNCHANGED <<queueVars, pc, idx, events, stimuli>>

-----------------------------------------------------------------------------
(* The loop of osal_start_system. *)

Goto(from, to) == pc = from /\ signal = TASK_NO_TASK /\ pc' = to

StartSystem ==
    /\ Goto("init", "poll")
    /\ UNCHANGED <<tasksEvents, queueVars, idx, events, signal, stimuli>>

PollDone ==
    /\ Goto("poll", "scan")
    /\ idx' = 0
    /\ UNCHANGED <<tasksEvents, queueVars, events, signal, stimuli>>

\* One test of the search: it reads tasksEvents[idx] with interrupts enabled.
ScanFound ==
    /\ Goto("scan", "take")
    /\ tasksEvents[idx] # {}
    /\ UNCHANGED <<tasksEvents, queueVars, idx, events, signal, stimuli>>

\* Mutants: the search runs past the last task; it stops before the last task.
ScanPastEnd ==
    /\ Goto("scan", IF idx < tasksCnt THEN "scan" ELSE "poll")
    /\ tasksEvents[idx] = {}
    /\ idx' = IF idx < tasksCnt THEN idx + 1 ELSE 0
    /\ UNCHANGED <<tasksEvents, queueVars, events, signal, stimuli>>
ScanShort ==
    /\ Goto("scan", IF idx + 2 < tasksCnt THEN "scan" ELSE "poll")
    /\ tasksEvents[idx] = {}
    /\ idx' = IF idx + 2 < tasksCnt THEN idx + 1 ELSE 0
    /\ UNCHANGED <<tasksEvents, queueVars, events, signal, stimuli>>

ScanNext ==
    /\ Goto("scan", IF idx + 1 < tasksCnt THEN "scan" ELSE "poll")
    /\ tasksEvents[idx] = {}
    /\ idx' = IF idx + 1 < tasksCnt THEN idx + 1 ELSE 0
    /\ UNCHANGED <<tasksEvents, queueVars, events, signal, stimuli>>

\* First critical section: copy the bits and clear the word.
Take ==
    /\ Goto("take", "dispatch")
    /\ events' = tasksEvents[idx]
    /\ tasksEvents' = [tasksEvents EXCEPT ![idx] = {}]
    /\ UNCHANGED <<queueVars, idx, signal, stimuli>>

\* Mutant: the returned bits are assigned, not OR-ed.
PutBackAssigned ==
    /\ Goto("putback", "poll")
    /\ tasksEvents' = [tasksEvents EXCEPT ![idx] = events]
    /\ events' = {}
    /\ idx' = 0
    /\ UNCHANGED <<queueVars, signal, stimuli>>

\* Second critical section: the bits the handler returned are put back.
PutBack ==
    /\ Goto("putback", "poll")
    /\ SetEvent(idx, events)
    /\ events' = {}
    /\ idx' = 0
    /\ UNCHANGED <<queueVars, signal, stimuli>>

-----------------------------------------------------------------------------
(* The shape every event handler of the tree has (Hal_ProcessEvent,        *)
(* MT_ProcessEvent, ZDApp_event_loop, GenericApp_ProcessEvent):            *)
(* SYS_EVENT_MSG first, receiving until the queue holds nothing for the    *)
(* task; otherwise one known bit per call; otherwise everything is         *)
(* discarded.                                                              *)

\* osal_msg_receive, one critical section, with no message for t ...
ReceiveNone(t) ==
    /\ Waiting(t) = {}
    /\ tasksEvents' = [tasksEvents EXCEPT ![t] = @ \ {SYS_EVENT_MSG}]
    /\ UNCHANGED queueVars

\* ... and with one: it is unlinked, and t is told if there is another.
ReceiveFirst(t) ==
    \E i \in Waiting(t) :
        /\ \A j \in Waiting(t) : i <= j
        /\ tasksEvents' = [tasksEvents EXCEPT ![t] =
                IF Waiting(t) # {i} THEN @ \cup {SYS_EVENT_MSG}
                                    ELSE @ \ {SYS_EVENT_MSG}]
        /\ qHead' = RemoveAt(qHead, i)
        /\ destId' = [destId EXCEPT ![qHead[i]] = TASK_NO_TASK]
        /\ UNCHANGED allocated

HandlerReceive ==
    /\ SYS_EVENT_MSG \in events
    /\ \/ /\ Goto("dispatch", "handle")
          /\ ReceiveFirst(idx)
          /\ UNCHANGED events
       \/ /\ Goto("dispatch", "putback")
          /\ ReceiveNone(idx)
          /\ events' = events \ {SYS_EVENT_MSG}
    /\ UNCHANGED <<idx, signal, stimuli>>

HandlerEvent ==
    /\ Goto("dispatch", "handle")
    /\ SYS_EVENT_MSG \notin events
    /\ \E e \in events \cap Handles[idx] : events' = events \ {e}
    /\ UNCHANGED <<tasksEvents, queueVars, idx, signal, stimuli>>

HandlerDiscard ==
    /\ Goto("dispatch", "putback")
    /\ SYS_EVENT_MSG \notin events
    /\ events \cap Handles[idx] = {}
    /\ events' = {}
    /\ UNCHANGED <<tasksEvents, queueVars, idx, signal, stimuli>>

\* The work is done: next message if it was one, else return.
HandlerDone ==
    /\ Goto("handle", IF SYS_EVENT_MSG \in events THEN "dispatch" ELSE "putback")
    /\ UNCHANGED <<tasksEvents, queueVars, idx, events, signal, stimuli>>

-----------------------------------------------------------------------------
(* Interrupts: the MAC receive and transmit ISRs allocate, send and raise  *)
(* events, whole, between two steps of the thread.                         *)

IsrSetEvent ==
    /\ Stimulus
    /\ \E t \in Task, e \in UserEvent : SetEvent(t, {e})
    /\ UNCHANGED <<queueVars, loopVars>>

IsrAllocate ==
    /\ \E m \in Msg : Allocate(m)
    /\ UNCHANGED <<tasksEvents, loopVars, stimuli>>

IsrSend ==
    /\ Stimulus
    /\ \E m \in Msg, t \in Task : Enqueue(m, t) /\ SetEvent(t, {SYS_EVENT_MSG})
    /\ UNCHANGED loopVars

-----------------------------------------------------------------------------
Calls == CallSetEvent \/ CallAllocate \/ CallDeallocate \/ CallSend
Loop  == \/ Signal \/ StartSystem \/ PollDone
         \/ ScanFound \/ ScanNext \/ Take \/ PutBack
         \/ HandlerReceive \/ HandlerEvent \/ HandlerDiscard \/ HandlerDone
Isr   == IsrSetEvent \/ IsrAllocate \/ IsrSend

Next == Calls \/ Loop \/ Isr

Spec == Init /\ [][Next]_vars

\* The processor keeps executing the loop, and handlers and pollers return.
FairSpec == Spec /\ WF_vars(Loop)

-----------------------------------------------------------------------------
(* Properties. *)

\* A buffer is linked at most once, and a linked buffer is a live one whose
\* dest_id says so: what the checks of osal_msg_send and
\* osal_msg_deallocate rely on.
QueueWellFormed ==
    /\ IsInjective(qHead)
    /\ Queued \subseteq allocated
    /\ \A m \in Msg : m \in Queued <=> destId[m] # TASK_NO_TASK

\* A task with a message in the queue has been told, is about to be told by
\* the sender that enqueued it, or is in its handler and will look again.
NoLostWakeup ==
    \A m \in Queued :
        LET t == destId[m] IN
        \/ SYS_EVENT_MSG \in tasksEvents[t]
        \/ signal = t
        \/ idx = t /\ SYS_EVENT_MSG \in events

\* The messages: typed, the queue well formed, and no task that has one
\* goes without word of it.
KernelSound == TypeOK /\ QueueWellFormed /\ NoLostWakeup

\* The bits task t still owes attention to.
Pending(t) == tasksEvents[t] \cup (IF idx = t THEN events ELSE {})

\* Only the handler of a task consumes its event bits: none is lost when an
\* interrupt or another call raises bits while the loop holds a copy.
EventsNotLost ==
    [][\A t \in Task, e \in UserEvent :
         e \in Pending(t) /\ e \notin Pending(t)' => pc = "dispatch" /\ idx = t]_vars

\* Once the stimuli stop, every event raised is handled by its task and every
\* message is taken out by its receiver: the loop comes to rest with nothing
\* waiting, wherever the stimuli fell.
StimuliServed == <>[](qHead = <<>> /\ \A t \in Task : Pending(t) = {})

-----------------------------------------------------------------------------
(* What the message service promises, see OsalMailbox. *)

\* The entries of a queue at the places of W, in the order of the queue.
Rank(W, i)      == Cardinality({j \in W : j <= i})
EntriesAt(q, W) == [n \in 1 .. Cardinality(W) |-> q[CHOOSE i \in W : Rank(W, i) = n]]

Mailbox == INSTANCE OsalMailbox WITH
    box  <- [t \in Task |-> EntriesAt(qHead, Waiting(t))],
    held <- {m \in allocated : m \notin Queued}

MailboxSpec == Mailbox!Spec
=============================================================================
