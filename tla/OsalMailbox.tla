---------------------------- MODULE OsalMailbox ----------------------------
(***************************************************************************)
(* What osal_msg_allocate, osal_msg_send, osal_msg_receive and             *)
(* osal_msg_deallocate promise their callers: a buffer is free, held by    *)
(* code, or in the mailbox of exactly one task, and each task takes its    *)
(* messages in the order in which they were sent to it.                    *)
(***************************************************************************)
EXTENDS Naturals, Sequences

CONSTANTS Task, Msg

VARIABLES
    box,    \* box[t]: the messages sent to task t and not yet received
    held    \* the buffers in the hands of tasks, pollers and ISRs

mailVars == <<box, held>>

InBox == UNION {{box[t][i] : i \in 1 .. Len(box[t])} : t \in Task}

Init == box = [t \in Task |-> <<>>] /\ held = {}

Allocate(m) ==
    /\ m \notin held \cup InBox
    /\ held' = held \cup {m}
    /\ UNCHANGED box

Free(m) ==
    /\ m \in held
    /\ held' = held \ {m}
    /\ UNCHANGED box

Send(m, t) ==
    /\ m \in held
    /\ held' = held \ {m}
    /\ box' = [box EXCEPT ![t] = Append(@, m)]

Receive(t) ==
    /\ box[t] # <<>>
    /\ held' = held \cup {Head(box[t])}
    /\ box' = [box EXCEPT ![t] = Tail(@)]

Next ==
    \/ \E m \in Msg : Allocate(m) \/ Free(m) \/ \E t \in Task : Send(m, t)
    \/ \E t \in Task : Receive(t)

Spec == Init /\ [][Next]_mailVars
=============================================================================
