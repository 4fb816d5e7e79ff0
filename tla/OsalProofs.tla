----------------------------- MODULE OsalProofs -----------------------------
(***************************************************************************)
(* Proofs about OsalKernel, for any number of tasks, buffers and events:   *)
(* its queue is sound, no event is lost, and it does what OsalMailbox      *)
(* promises; and about OsalTimers, for any timers, any finite supply of records and  *)
(* any times: the list can be walked while interrupts append to it, a      *)
(* timer has one record, none is late by more than the main loop is, and   *)
(* the list does what OsalTimerService promises.                           *)
(***************************************************************************)
EXTENDS OsalKernel, OsalTimers, SequenceTheorems, FiniteSetTheorems, TLAPS

-----------------------------------------------------------------------------
(* The kernel.                                                             *)

(***************************************************************************)
(* The loop's copy of an event word is empty unless a handler runs or its  *)
(* result is being put back: without it, Take could overwrite bits.        *)
(***************************************************************************)
CopyInUse == events # {} => pc \in {"dispatch", "handle", "putback"}

KernelInv == TypeOK /\ QueueWellFormed /\ NoLostWakeup /\ CopyInUse

-----------------------------------------------------------------------------
(* Sequences. *)

\* What remains of a queue when entry i is unlinked: the other entries.
LEMMA UnlinkEntries ==
    ASSUME NEW S, NEW q \in Seq(S), NEW i \in 1 .. Len(q)
    PROVE  /\ RemoveAt(q, i) \in Seq(S)
           /\ Len(RemoveAt(q, i)) = Len(q) - 1
           /\ \A k \in 1 .. Len(q) - 1 :
                 RemoveAt(q, i)[k] = IF k < i THEN q[k] ELSE q[k + 1]
<1> DEFINE a == SubSeq(q, 1, i - 1)
           b == SubSeq(q, i + 1, Len(q))
<1>1. a \in Seq(S) /\ Len(a) = i - 1 /\ \A k \in 1 .. i - 1 : a[k] = q[k]
  OBVIOUS
<1>2. /\ b \in Seq(S) /\ Len(b) = Len(q) - i
      /\ \A k \in 1 .. Len(q) - i : b[k] = q[k + i]
  OBVIOUS
<1>3. RemoveAt(q, i) = a \o b
  BY DEF RemoveAt
<1> HIDE DEF a, b
<1>4. /\ a \o b \in Seq(S) /\ Len(a \o b) = Len(a) + Len(b)
      /\ \A k \in 1 .. Len(a) + Len(b) :
            (a \o b)[k] = IF k <= Len(a) THEN a[k] ELSE b[k - Len(a)]
  BY <1>1, <1>2, ConcatProperties, Zenon
<1>5. Len(a) + Len(b) = Len(q) - 1
  BY <1>1, <1>2
<1>6. ASSUME NEW k \in 1 .. Len(q) - 1
      PROVE  (a \o b)[k] = IF k < i THEN q[k] ELSE q[k + 1]
  <2>1. CASE k < i
    BY <1>1, <1>4, <1>5, <2>1
  <2>2. CASE ~ (k < i)
    <3>1. k - (i - 1) \in 1 .. Len(q) - i /\ k - (i - 1) + i = k + 1
      BY <2>2
    <3>2. (a \o b)[k] = b[k - (i - 1)]
      BY <1>1, <1>4, <1>5, <2>2
    <3> QED
      BY <1>2, <2>2, <3>1, <3>2
  <2> QED
    BY <2>1, <2>2
<1> QED
  BY <1>3, <1>4, <1>5, <1>6

\* Unlinking an entry of a queue without repetitions removes that buffer
\* and no other, and leaves no repetition behind.
LEMMA UnlinkInjective ==
    ASSUME NEW S, NEW q \in Seq(S), NEW i \in 1 .. Len(q), IsInjective(q)
    PROVE  /\ IsInjective(RemoveAt(q, i))
           /\ Range(RemoveAt(q, i)) = Range(q) \ {q[i]}
<1> DEFINE r == RemoveAt(q, i)
           old(k) == IF k < i THEN k ELSE k + 1
<1>1. /\ r \in Seq(S) /\ Len(r) = Len(q) - 1
      /\ \A k \in 1 .. Len(r) : r[k] = q[old(k)]
  BY UnlinkEntries
<1>2. DOMAIN r = 1 .. Len(r) /\ DOMAIN q = 1 .. Len(q)
  BY <1>1
<1>3. \A k \in 1 .. Len(r) : old(k) \in 1 .. Len(q) /\ old(k) # i
  BY <1>1
<1>4. \A j, k \in 1 .. Len(r) : old(j) = old(k) => j = k
  BY <1>1
<1>5. ASSUME NEW n \in 1 .. Len(q), n # i
      PROVE  \E k \in 1 .. Len(r) : old(k) = n
  <2>1. CASE n < i
    BY <1>1, <2>1
  <2>2. CASE n > i
    <3>1. n - 1 \in 1 .. Len(r) /\ old(n - 1) = n
      BY <1>1, <2>2
    <3> QED
      BY <3>1
  <2> QED
    BY <1>5, <2>1, <2>2
<1> HIDE DEF r, old
<1>6. IsInjective(r)
  BY <1>1, <1>2, <1>3, <1>4 DEF IsInjective
<1>7. ASSUME NEW k \in 1 .. Len(r)
      PROVE  r[k] \in Range(q) /\ r[k] # q[i]
  BY <1>1, <1>2, <1>3 DEF IsInjective, Range
<1>8. ASSUME NEW n \in 1 .. Len(q), q[n] # q[i]
      PROVE  q[n] \in Range(r)
  <2>1. PICK k \in 1 .. Len(r) : old(k) = n
    BY <1>5, <1>8
  <2> QED
    BY <1>1, <1>2, <2>1 DEF Range
<1>9. Range(r) = Range(q) \ {q[i]}
  BY <1>2, <1>7, <1>8 DEF Range
<1> QED
  BY <1>6, <1>9 DEF r

\* Linking a buffer that is not in the queue.
LEMMA LinkInjective ==
    ASSUME NEW S, NEW q \in Seq(S), NEW m \in S, IsInjective(q), m \notin Range(q)
    PROVE  /\ IsInjective(Append(q, m))
           /\ Range(Append(q, m)) = Range(q) \cup {m}
<1> DEFINE r == Append(q, m)
<1>1. /\ r[Len(q) + 1] = m
      /\ \A k \in 1 .. Len(q) : r[k] = q[k]
      /\ DOMAIN r = 1 .. Len(q) + 1 /\ DOMAIN q = 1 .. Len(q)
  OBVIOUS
<1>2. /\ \A k \in 1 .. Len(q) + 1 : k \in 1 .. Len(q) \/ k = Len(q) + 1
      /\ Len(q) + 1 \in 1 .. Len(q) + 1
      /\ \A k \in 1 .. Len(q) : k \in 1 .. Len(q) + 1
  OBVIOUS
<1> HIDE DEF r
<1>3. \A k \in 1 .. Len(q) : q[k] # m
  BY <1>1 DEF Range
<1>4. IsInjective(r)
  BY <1>1, <1>2, <1>3 DEF IsInjective
<1>5. Range(r) = Range(q) \cup {m}
  BY <1>1, <1>2 DEF Range
<1>6. r = Append(q, m)
  BY DEF r
<1> QED
  BY <1>4, <1>5, <1>6

-----------------------------------------------------------------------------
(* The queue operations preserve the form of the queue. *)

USE TasksAssumption

LEMMA NoTask == TASK_NO_TASK \notin Task
BY DEF Task, TASK_NO_TASK


LEMMA EnqueueKeepsForm ==
    ASSUME TypeOK, QueueWellFormed, NEW m \in Msg, NEW t \in Task, Enqueue(m, t)
    PROVE  /\ QueueWellFormed'
           /\ Queued' = Queued \cup {m} /\ m \notin Queued
           /\ qHead' \in Seq(Msg) /\ destId' \in [Msg -> Task \cup {TASK_NO_TASK}]
<1>1. m \notin Queued /\ m \in allocated
  BY DEF Enqueue, QueueWellFormed
<1>2. IsInjective(qHead') /\ Queued' = Queued \cup {m} /\ qHead' \in Seq(Msg)
  <2>1. qHead \in Seq(Msg) /\ IsInjective(qHead) /\ m \notin Range(qHead)
    BY <1>1 DEF QueueWellFormed, TypeOK, Queued
  <2>2. /\ IsInjective(Append(qHead, m))
        /\ Range(Append(qHead, m)) = Range(qHead) \cup {m}
    BY <2>1, LinkInjective
  <2>3. qHead' = Append(qHead, m)
    BY DEF Enqueue
  <2>4. Append(qHead, m) \in Seq(Msg)
    BY <2>1
  <2> QED
    BY <2>2, <2>3, <2>4, Zenon DEF Queued
<1>3. /\ destId' \in [Msg -> Task \cup {TASK_NO_TASK}]
      /\ \A n \in Msg : n \in Queued' <=> destId'[n] # TASK_NO_TASK
  BY <1>2, NoTask DEF Enqueue, QueueWellFormed, TypeOK
<1>4. Queued' \subseteq allocated'
  BY <1>1, <1>2 DEF Enqueue, QueueWellFormed
<1> QED
  BY <1>1, <1>2, <1>3, <1>4 DEF QueueWellFormed

LEMMA ReceiveKeepsForm ==
    ASSUME TypeOK, QueueWellFormed, NEW t \in Task, NEW i \in Waiting(t),
           qHead' = RemoveAt(qHead, i),
           destId' = [destId EXCEPT ![qHead[i]] = TASK_NO_TASK],
           UNCHANGED allocated
    PROVE  /\ QueueWellFormed'
           /\ Queued' = Queued \ {qHead[i]} /\ qHead[i] \in Msg
           /\ qHead' \in Seq(Msg) /\ destId' \in [Msg -> Task \cup {TASK_NO_TASK}]
<1>1. i \in 1 .. Len(qHead) /\ qHead[i] \in Msg
  BY DEF Waiting, TypeOK
<1>2. IsInjective(qHead') /\ Queued' = Queued \ {qHead[i]}
  BY <1>1, UnlinkInjective DEF QueueWellFormed, TypeOK, Queued
<1>3. qHead' \in Seq(Msg)
  BY <1>1, UnlinkEntries DEF TypeOK
<1>4. /\ destId' \in [Msg -> Task \cup {TASK_NO_TASK}]
      /\ \A n \in Msg : n \in Queued' <=> destId'[n] # TASK_NO_TASK
  BY <1>1, <1>2 DEF QueueWellFormed, TypeOK
<1> QED
  BY <1>1, <1>2, <1>3, <1>4 DEF QueueWellFormed

\* If a task has a queued message other than the one at entry i, the scan of
\* osal_msg_receive finds a second entry.
LEMMA SecondEntry ==
    ASSUME TypeOK, NEW t \in Task, NEW i \in Waiting(t), NEW m \in Queued,
           destId[m] = t, m # qHead[i]
    PROVE  Waiting(t) # {i}
BY DEF Queued, Waiting, Range, TypeOK

-----------------------------------------------------------------------------
(* The invariant. *)

\* The queue stays typed, well formed and free of unannounced messages.
QueueInv == QueueWellFormed /\ NoLostWakeup

USE EventsAssumption, HandlesAssumption, StimuliAssumption

LEMMA Initially == Init => KernelInv
<1> SUFFICES ASSUME Init PROVE KernelInv
  OBVIOUS
<1>1. 0 \in Task /\ Range(<<>>) = {} /\ IsInjective(<<>>)
  BY DEF Task, Range, IsInjective
<1>2. TypeOK
  BY <1>1 DEF Init, TypeOK, EventWord, Waypoints
<1>3. Queued = {} /\ IsInjective(qHead)
  BY <1>1 DEF Init, Queued
<1>4. QueueWellFormed /\ NoLostWakeup
  BY <1>3 DEF Init, QueueWellFormed, NoLostWakeup
<1> QED
  BY <1>2, <1>4 DEF KernelInv, CopyInUse, Init

\* Raising bits never takes the notice of a message away.
LEMMA SetEventKeeps ==
    ASSUME KernelInv, NEW t \in Task, NEW bits \in EventWord, SetEvent(t, bits),
           UNCHANGED <<queueVars, idx, events, signal>>
    PROVE  /\ tasksEvents' \in [Task -> EventWord]
           /\ QueueInv'
<1>1. tasksEvents' \in [Task -> EventWord]
  BY DEF KernelInv, TypeOK, SetEvent, EventWord
<1>2. \A u \in Task : tasksEvents[u] \subseteq tasksEvents'[u]
  BY DEF KernelInv, TypeOK, SetEvent
<1>3. Queued' = Queued /\ QueueWellFormed'
  BY DEF KernelInv, queueVars, QueueWellFormed, Queued
<1>4. \A m \in Queued : destId[m] \in Task
  BY DEF KernelInv, QueueWellFormed, TypeOK
<1>5. NoLostWakeup'
  BY <1>2, <1>3, <1>4 DEF KernelInv, NoLostWakeup, queueVars
<1> QED
  BY <1>1, <1>3, <1>5 DEF QueueInv

\* Steps that leave the queue, the words and the copy alone.
LEMMA QuietKeeps ==
    ASSUME KernelInv, UNCHANGED <<tasksEvents, queueVars, events, signal>>,
           idx' = idx \/ events = {}
    PROVE  QueueInv'
<1>1. Queued' = Queued /\ QueueWellFormed'
  BY DEF KernelInv, queueVars, QueueWellFormed, Queued
<1> QED
  BY <1>1 DEF KernelInv, QueueInv, NoLostWakeup, queueVars

\* Buffers may come and go as long as the queue does not change.
LEMMA HeapKeeps ==
    ASSUME KernelInv, NEW m \in Msg, Allocate(m) \/ Deallocate(m),
           UNCHANGED <<tasksEvents, loopVars>>
    PROVE  /\ allocated' \in SUBSET Msg
           /\ destId' \in [Msg -> Task \cup {TASK_NO_TASK}]
           /\ QueueInv'
<1> USE DEF KernelInv, TypeOK, QueueWellFormed, loopVars
<1>1. Queued' = Queued
  BY DEF Allocate, Deallocate, Queued
<1>2. CASE Allocate(m)
  <2>1. m \notin Queued
    BY <1>2 DEF Allocate
  <2>2. destId' = destId
    BY <1>2, <2>1 DEF Allocate
  <2> QED
    BY <1>1, <1>2, <2>2 DEF Allocate, QueueInv, NoLostWakeup
<1>3. CASE Deallocate(m)
  BY <1>1, <1>3 DEF Deallocate, QueueInv, NoLostWakeup
<1> QED
  BY <1>2, <1>3

\* Linking a message for t and then telling t, at once or as the next thing
\* the thread does.
LEMMA EnqueueKeeps ==
    ASSUME KernelInv, NEW m \in Msg, NEW t \in Task, Enqueue(m, t),
           UNCHANGED <<idx, events>>,
           \/ signal' = t /\ signal = TASK_NO_TASK /\ UNCHANGED tasksEvents
           \/ SetEvent(t, {SYS_EVENT_MSG}) /\ UNCHANGED signal
    PROVE  QueueInv'
<1>1. /\ QueueWellFormed' /\ Queued' = Queued \cup {m} /\ m \notin Queued
      /\ \A n \in Queued : destId'[n] = destId[n] /\ destId[n] \in Task
      /\ destId'[m] = t
  BY EnqueueKeepsForm DEF KernelInv, Enqueue, TypeOK, QueueWellFormed
<1>2. \A u \in Task : tasksEvents[u] \subseteq tasksEvents'[u]
  BY DEF KernelInv, TypeOK, SetEvent
<1>3. SYS_EVENT_MSG \in tasksEvents'[t] \/ signal' = t
  BY DEF KernelInv, TypeOK, SetEvent
<1>4. signal \in Task => signal' = signal
  BY NoTask
<1> QED
  BY <1>1, <1>2, <1>3, <1>4 DEF KernelInv, QueueInv, NoLostWakeup

\* osal_msg_receive: the notice of t goes only when t's queue is empty.
LEMMA ReceiveKeeps ==
    ASSUME KernelInv, ReceiveFirst(idx) /\ UNCHANGED <<idx, events, signal>>,
           SYS_EVENT_MSG \in events
    PROVE  /\ QueueInv' /\ tasksEvents' \in [Task -> EventWord]
           /\ qHead' \in Seq(Msg) /\ destId' \in [Msg -> Task \cup {TASK_NO_TASK}]
<1>1. PICK i \in Waiting(idx) :
         /\ tasksEvents' = [tasksEvents EXCEPT ![idx] =
                IF Waiting(idx) # {i} THEN @ \cup {SYS_EVENT_MSG}
                                      ELSE @ \ {SYS_EVENT_MSG}]
         /\ qHead' = RemoveAt(qHead, i)
         /\ destId' = [destId EXCEPT ![qHead[i]] = TASK_NO_TASK]
         /\ UNCHANGED allocated
  BY DEF ReceiveFirst
<1>2. /\ QueueWellFormed'
      /\ Queued' = Queued \ {qHead[i]}
      /\ qHead' \in Seq(Msg) /\ destId' \in [Msg -> Task \cup {TASK_NO_TASK}]
  BY <1>1, ReceiveKeepsForm DEF KernelInv, TypeOK
<1>3. \A n \in Queued' : n \in Queued /\ destId'[n] = destId[n]
  BY <1>1, <1>2 DEF KernelInv, TypeOK, QueueWellFormed
<1>4. /\ tasksEvents' \in [Task -> EventWord]
      /\ \A u \in Task \ {idx} : tasksEvents'[u] = tasksEvents[u]
  BY <1>1 DEF KernelInv, TypeOK, EventWord
<1>5. NoLostWakeup'
  <2> SUFFICES ASSUME NEW n \in Queued'
               PROVE  \/ SYS_EVENT_MSG \in tasksEvents'[destId[n]]
                      \/ signal' = destId[n]
                      \/ idx' = destId[n] /\ SYS_EVENT_MSG \in events'
    BY <1>3 DEF NoLostWakeup
  <2>1. destId[n] \in Task
    BY <1>3 DEF KernelInv, TypeOK, QueueWellFormed
  <2> QED
    BY <1>3, <1>4, <2>1 DEF KernelInv, NoLostWakeup
<1> QED
  BY <1>2, <1>4, <1>5 DEF QueueInv

LEMMA NoMessageLeft ==
    ASSUME KernelInv, Waiting(idx) = {}
    PROVE  \A n \in Queued : destId[n] # idx
BY DEF KernelInv, TypeOK, Queued, Waiting, Range

-----------------------------------------------------------------------------
(* One step. *)

LEMMA CallsKeep == KernelInv /\ Calls => KernelInv'
<1> SUFFICES ASSUME KernelInv, Calls PROVE KernelInv'
  OBVIOUS
<1>1. CASE CallSetEvent
  <2>1. PICK t \in Task, e \in UserEvent : SetEvent(t, {e})
    BY <1>1 DEF CallSetEvent
  <2>2. tasksEvents' \in [Task -> EventWord] /\ QueueInv'
    BY <1>1, <2>1, SetEventKeeps DEF CallSetEvent, loopVars, EventWord
  <2> QED
    BY <1>1, <2>2
    DEF CallSetEvent, Stimulus, KernelInv, QueueInv, TypeOK, CopyInUse, queueVars, loopVars
<1>2. CASE CallAllocate \/ CallDeallocate
  <2>1. PICK m \in Msg : Allocate(m) \/ Deallocate(m)
    BY <1>2 DEF CallAllocate, CallDeallocate
  <2>2. /\ allocated' \in SUBSET Msg /\ QueueInv'
        /\ destId' \in [Msg -> Task \cup {TASK_NO_TASK}]
    BY <1>2, <2>1, HeapKeeps DEF CallAllocate, CallDeallocate
  <2> QED
    BY <1>2, <2>1, <2>2
    DEF CallAllocate, CallDeallocate, Allocate, Deallocate, KernelInv, QueueInv,
        TypeOK, CopyInUse, loopVars
<1>3. CASE CallSend
  <2>1. PICK m \in Msg :
          \/ \E t \in Task : Enqueue(m, t) /\ signal' = t
          \/ (SendToNobody(m) \/ SendAgain(m)) /\ UNCHANGED signal
    BY <1>3 DEF CallSend
  <2>2. CASE \E t \in Task : Enqueue(m, t) /\ signal' = t
    <3>1. PICK t \in Task : Enqueue(m, t) /\ signal' = t
      BY <2>2
    <3>2. QueueInv'
      BY <1>3, <3>1, EnqueueKeeps DEF CallSend, Calling
    <3>3. qHead' \in Seq(Msg) /\ destId' \in [Msg -> Task \cup {TASK_NO_TASK}]
      BY <3>1, EnqueueKeepsForm DEF KernelInv
    <3> QED
      BY <1>3, <3>1, <3>2, <3>3
      DEF CallSend, Stimulus, Enqueue, KernelInv, QueueInv, TypeOK, CopyInUse
  <2>3. CASE SendToNobody(m) /\ UNCHANGED signal
    <3>1. /\ allocated' \in SUBSET Msg /\ QueueInv'
          /\ destId' \in [Msg -> Task \cup {TASK_NO_TASK}]
      BY <1>3, <2>3, HeapKeeps DEF SendToNobody, CallSend, loopVars
    <3> QED
      BY <1>3, <2>3, <3>1
      DEF SendToNobody, CallSend, Stimulus, Deallocate, KernelInv, QueueInv, TypeOK,
          CopyInUse
  <2>4. CASE SendAgain(m) /\ UNCHANGED signal
    <3>1. QueueInv'
      BY <1>3, <2>4, QuietKeeps DEF SendAgain, CallSend
    <3> QED
      BY <1>3, <2>4, <3>1
      DEF SendAgain, CallSend, Stimulus, KernelInv, QueueInv, TypeOK, CopyInUse, queueVars
  <2> QED
    BY <2>1, <2>2, <2>3, <2>4
<1> QED
  BY <1>1, <1>2, <1>3 DEF Calls

LEMMA LoopKeeps == KernelInv /\ Loop => KernelInv'
<1> SUFFICES ASSUME KernelInv, Loop PROVE KernelInv'
  OBVIOUS
<1> USE DEF KernelInv, Goto
<1>1. CASE Signal
  <2>1. signal \in Task
    BY <1>1 DEF Signal, TypeOK
  <2>2. tasksEvents' \in [Task -> EventWord]
    BY <1>1, <2>1 DEF Signal, SetEvent, TypeOK, EventWord
  <2>3. Queued' = Queued /\ QueueWellFormed'
    BY <1>1 DEF Signal, queueVars, Queued, QueueWellFormed
  <2>4. /\ \A u \in Task : tasksEvents[u] \subseteq tasksEvents'[u]
        /\ SYS_EVENT_MSG \in tasksEvents'[signal]
    BY <1>1, <2>1 DEF Signal, SetEvent, TypeOK
  <2>5. \A m \in Queued : destId[m] \in Task
    BY DEF QueueWellFormed, TypeOK
  <2>6. NoLostWakeup'
    BY <1>1, <2>3, <2>4, <2>5 DEF Signal, NoLostWakeup, queueVars
  <2> QED
    BY <1>1, <2>2, <2>3, <2>6 DEF Signal, TypeOK, CopyInUse, queueVars
<1>2. CASE StartSystem \/ PollDone \/ ScanFound \/ ScanNext
  <2>1. /\ UNCHANGED <<tasksEvents, queueVars, events, signal, stimuli>>
        /\ events = {} \/ idx' = idx
        /\ pc' \in Waypoints /\ idx' \in Task
    BY <1>2 DEF StartSystem, PollDone, ScanFound, ScanNext, CopyInUse, Waypoints,
                TypeOK, Task
  <2>2. events = {}
    BY <1>2 DEF StartSystem, PollDone, ScanFound, ScanNext, CopyInUse
  <2>3. QueueInv'
    BY <2>1, QuietKeeps
  <2> QED
    BY <2>1, <2>2, <2>3 DEF QueueInv, TypeOK, CopyInUse, queueVars
<1>3. CASE Take
  <2>1. /\ tasksEvents' \in [Task -> EventWord]
        /\ events' = tasksEvents[idx] /\ events' \in EventWord
        /\ \A u \in Task \ {idx} : tasksEvents'[u] = tasksEvents[u]
    BY <1>3 DEF Take, TypeOK, EventWord
  <2>2. events = {}
    BY <1>3 DEF Take, CopyInUse
  <2>3. Queued' = Queued /\ QueueWellFormed' /\ \A m \in Queued : destId[m] \in Task
    BY <1>3 DEF Take, queueVars, Queued, QueueWellFormed, TypeOK
  <2>4. NoLostWakeup'
    BY <1>3, <2>1, <2>2, <2>3 DEF Take, NoLostWakeup, queueVars
  <2> QED
    BY <1>3, <2>1, <2>3, <2>4 DEF Take, TypeOK, CopyInUse, queueVars, Waypoints
<1>4. CASE PutBack
  <2>1. /\ tasksEvents' = [tasksEvents EXCEPT ![idx] = @ \cup events]
        /\ tasksEvents' \in [Task -> EventWord]
    BY <1>4 DEF PutBack, SetEvent, TypeOK, EventWord
  <2>2. Queued' = Queued /\ QueueWellFormed' /\ \A m \in Queued : destId[m] \in Task
    BY <1>4 DEF PutBack, queueVars, Queued, QueueWellFormed, TypeOK
  <2>3. NoLostWakeup'
    BY <1>4, <2>1, <2>2 DEF PutBack, NoLostWakeup, queueVars, TypeOK
  <2>4. 0 \in Task /\ {} \in EventWord
    BY DEF Task, EventWord
  <2> QED
    BY <1>4, <2>1, <2>2, <2>3, <2>4 DEF PutBack, TypeOK, CopyInUse, queueVars, Waypoints
<1>5. CASE HandlerReceive
  <2>1. CASE ReceiveFirst(idx) /\ pc' = "handle" /\ UNCHANGED events
    <3>1. /\ QueueInv' /\ tasksEvents' \in [Task -> EventWord]
          /\ qHead' \in Seq(Msg) /\ destId' \in [Msg -> Task \cup {TASK_NO_TASK}]
      BY <1>5, <2>1, ReceiveKeeps DEF HandlerReceive
    <3> QED
      BY <1>5, <2>1, <3>1
      DEF HandlerReceive, ReceiveFirst, QueueInv, TypeOK, CopyInUse, Waypoints
  <2>2. CASE ReceiveNone(idx) /\ pc' = "putback" /\ events' = events \ {SYS_EVENT_MSG}
    <3>1. /\ tasksEvents' \in [Task -> EventWord] /\ events' \in EventWord
          /\ \A u \in Task \ {idx} : tasksEvents'[u] = tasksEvents[u]
      BY <2>2 DEF ReceiveNone, TypeOK, EventWord
    <3>2. Queued' = Queued /\ QueueWellFormed' /\ \A m \in Queued : destId[m] \in Task
      BY <2>2 DEF ReceiveNone, queueVars, Queued, QueueWellFormed, TypeOK
    <3>3. \A n \in Queued : destId[n] # idx
      BY <2>2, NoMessageLeft DEF ReceiveNone
    <3>4. NoLostWakeup'
      BY <1>5, <2>2, <3>1, <3>2, <3>3
      DEF HandlerReceive, ReceiveNone, NoLostWakeup, queueVars
    <3> QED
      BY <1>5, <2>2, <3>1, <3>2, <3>4
      DEF HandlerReceive, ReceiveNone, TypeOK, CopyInUse, queueVars, Waypoints
  <2> QED
    BY <1>5, <2>1, <2>2 DEF HandlerReceive
<1>6. CASE HandlerEvent \/ HandlerDiscard
  <2>1. /\ UNCHANGED <<tasksEvents, queueVars, idx, signal, stimuli>>
        /\ SYS_EVENT_MSG \notin events
        /\ events' \in EventWord /\ pc' \in {"handle", "putback"}
    BY <1>6 DEF HandlerEvent, HandlerDiscard, TypeOK, EventWord
  <2>2. Queued' = Queued /\ QueueWellFormed'
    BY <2>1 DEF queueVars, Queued, QueueWellFormed
  <2>3. NoLostWakeup'
    BY <2>1, <2>2 DEF NoLostWakeup, queueVars
  <2> QED
    BY <2>1, <2>2, <2>3 DEF TypeOK, CopyInUse, queueVars, Waypoints
<1>7. CASE HandlerDone
  <2>1. QueueInv'
    BY <1>7, QuietKeeps DEF HandlerDone
  <2> QED
    BY <1>7, <2>1 DEF HandlerDone, QueueInv, TypeOK, CopyInUse, queueVars, Waypoints
<1> QED
  BY <1>1, <1>2, <1>3, <1>4, <1>5, <1>6, <1>7 DEF Loop

LEMMA IsrKeeps == KernelInv /\ Isr => KernelInv'
<1> SUFFICES ASSUME KernelInv, Isr PROVE KernelInv'
  OBVIOUS
<1>1. CASE IsrSetEvent
  <2>1. PICK t \in Task, e \in UserEvent : SetEvent(t, {e})
    BY <1>1 DEF IsrSetEvent
  <2>2. tasksEvents' \in [Task -> EventWord] /\ QueueInv'
    BY <1>1, <2>1, SetEventKeeps DEF IsrSetEvent, loopVars, EventWord
  <2> QED
    BY <1>1, <2>2
    DEF IsrSetEvent, Stimulus, KernelInv, QueueInv, TypeOK, CopyInUse, queueVars, loopVars
<1>2. CASE IsrAllocate
  <2>1. PICK m \in Msg : Allocate(m)
    BY <1>2 DEF IsrAllocate
  <2>2. /\ allocated' \in SUBSET Msg /\ QueueInv'
        /\ destId' \in [Msg -> Task \cup {TASK_NO_TASK}]
    BY <1>2, <2>1, HeapKeeps DEF IsrAllocate
  <2> QED
    BY <1>2, <2>1, <2>2
    DEF IsrAllocate, Allocate, KernelInv, QueueInv, TypeOK, CopyInUse, loopVars
<1>3. CASE IsrSend
  <2>1. PICK m \in Msg, t \in Task : Enqueue(m, t) /\ SetEvent(t, {SYS_EVENT_MSG})
    BY <1>3 DEF IsrSend
  <2>2. QueueInv'
    BY <1>3, <2>1, EnqueueKeeps DEF IsrSend, loopVars
  <2>3. qHead' \in Seq(Msg) /\ destId' \in [Msg -> Task \cup {TASK_NO_TASK}]
    BY <2>1, EnqueueKeepsForm DEF KernelInv
  <2>4. tasksEvents' \in [Task -> EventWord]
    BY <2>1 DEF KernelInv, TypeOK, SetEvent, EventWord
  <2> QED
    BY <1>3, <2>1, <2>2, <2>3, <2>4
    DEF IsrSend, Stimulus, Enqueue, KernelInv, QueueInv, TypeOK, CopyInUse, loopVars
<1> QED
  BY <1>1, <1>2, <1>3 DEF Isr

LEMMA NextKeeps == KernelInv /\ [Next]_vars => KernelInv'
<1> SUFFICES ASSUME KernelInv, [Next]_vars PROVE KernelInv'
  OBVIOUS
<1>1. CASE UNCHANGED vars
  <2>1. QueueInv'
    BY <1>1, QuietKeeps DEF vars, loopVars
  <2> QED
    BY <1>1, <2>1 DEF vars, queueVars, loopVars, KernelInv, QueueInv, TypeOK, CopyInUse
<1> QED
  BY <1>1, CallsKeep, LoopKeeps, IsrKeeps DEF Next

-----------------------------------------------------------------------------
(* Theorems. *)

LEMMA KernelInvKept == Spec => []KernelInv
BY Initially, NextKeeps, PTL DEF Spec

\* Every variable of the kernel keeps its type.
THEOREM KernelTypeOK == Spec => []TypeOK
<1>1. KernelInv => TypeOK
  BY DEF KernelInv
<1> QED
  BY <1>1, KernelInvKept, PTL

\* osal_msg_send, osal_msg_receive and osal_msg_deallocate keep the queue free
\* of double links and of freed buffers, whoever calls them and whenever.
THEOREM KernelQueueWellFormed == Spec => []QueueWellFormed
<1>1. KernelInv => QueueWellFormed
  BY DEF KernelInv
<1> QED
  BY <1>1, KernelInvKept, PTL

\* No message can sit in the queue without a task knowing of it.
THEOREM KernelNoLostWakeup == Spec => []NoLostWakeup
<1>1. KernelInv => NoLostWakeup
  BY DEF KernelInv
<1> QED
  BY <1>1, KernelInvKept, PTL

\* The kernel's state is sound: typed, its queue linked rightly, and no
\* message waits unknown to its task (osal_msg_send, osal_msg_receive).
THEOREM KernelIsSound == Spec => []KernelSound
<1>1. KernelInv => KernelSound
  BY DEF KernelInv, KernelSound
<1> QED
  BY <1>1, KernelInvKept, PTL

\* An event bit is consumed by the handler of its task and by nothing else.
THEOREM KernelEventsNotLost == Spec => EventsNotLost
<1> DEFINE Lost(t, e) == e \in Pending(t) /\ e \notin Pending(t)'
<1>1. ASSUME KernelInv, [Next]_vars, NEW t \in Task, NEW e \in UserEvent, Lost(t, e)
      PROVE  pc = "dispatch" /\ idx = t
  <2> USE EventsAssumption DEF Goto, SetEvent, Pending
  <2>1. e # SYS_EVENT_MSG
    BY DEF SYS_EVENT_MSG
  <2>2. CASE UNCHANGED vars
    BY <1>1, <2>2 DEF vars, loopVars
  <2>3. CASE Calls
    BY <1>1, <2>3 DEF Calls, CallSetEvent, CallAllocate, CallDeallocate, CallSend,
                      loopVars, KernelInv, TypeOK
  <2>4. CASE Isr
    BY <1>1, <2>4 DEF Isr, IsrSetEvent, IsrAllocate, IsrSend, loopVars, KernelInv, TypeOK
  <2>5. CASE Signal \/ StartSystem \/ PollDone \/ ScanFound \/ ScanNext
    BY <1>1, <2>5 DEF Signal, StartSystem, PollDone, ScanFound, ScanNext, KernelInv,
                      TypeOK, CopyInUse
  <2>6. CASE Take
    <3>1. tasksEvents'[t] = IF t = idx THEN {} ELSE tasksEvents[t]
      BY <2>6, <1>1 DEF Take, KernelInv, TypeOK
    <3> QED
      BY <1>1, <2>6, <3>1 DEF Take, KernelInv, CopyInUse
  <2>8. CASE PutBack
    <3>1. tasksEvents'[t] = IF t = idx THEN tasksEvents[t] \cup events
                                       ELSE tasksEvents[t]
      BY <2>8, <1>1 DEF PutBack, KernelInv, TypeOK
    <3> QED
      BY <1>1, <2>8, <3>1 DEF PutBack
  <2>7. CASE HandlerReceive \/ HandlerEvent \/ HandlerDiscard \/ HandlerDone
    BY <1>1, <2>1, <2>7 DEF HandlerReceive, HandlerEvent, HandlerDiscard, HandlerDone,
                      ReceiveFirst, ReceiveNone, KernelInv, TypeOK
  <2> QED
    BY <1>1, <2>2, <2>3, <2>4, <2>5, <2>6, <2>7, <2>8 DEF Next, Loop
<1>2. KernelInv /\ [Next]_vars =>
        [\A t \in Task, e \in UserEvent :
            e \in Pending(t) /\ e \notin Pending(t)' => pc = "dispatch" /\ idx = t]_vars
  BY <1>1
<1> QED
  BY <1>2, KernelInvKept, PTL DEF Spec, EventsNotLost

-----------------------------------------------------------------------------
(* The mailboxes.  A mailbox is the entries of the queue at the places      *)
(* where a message for the task is: the places are listed in increasing    *)
(* order, and a list of them says what the entries are.                    *)

\* The ranks of the members of a set of places are the numbers from 1 to its
\* cardinality, in the order of the places.
LEMMA PlaceRanks ==
    ASSUME NEW n \in Nat, NEW S \in SUBSET (1 .. n)
    PROVE  LET rank == [i \in S |-> Rank(S, i)] IN
           /\ Cardinality(S) \in 0 .. n
           /\ \A m \in 1 .. Cardinality(S) : \E i \in S : rank[i] = m
           /\ \A i \in S : rank[i] \in 1 .. Cardinality(S)
           /\ \A i, j \in S : rank[i] <= rank[j] => i <= j
<1> DEFINE rank == [i \in S |-> Rank(S, i)]
           upTo(i) == {j \in S : j <= i}
<1>1. \A i \in S : i \in 1 .. n /\ i \in Nat /\ i >= 1
  OBVIOUS
<1>2. IsFiniteSet(1 .. n) /\ Cardinality(1 .. n) = n
  <2>1. IsFiniteSet(1 .. n) /\ Cardinality(1 .. n) = IF 1 > n THEN 0 ELSE n - 1 + 1
    BY FS_Interval
  <2> QED
    BY <2>1
<1>3. IsFiniteSet(S) /\ Cardinality(S) <= n
  <2> DEFINE N == 1 .. n
  <2>1. IsFiniteSet(N) /\ Cardinality(N) = n /\ S \in SUBSET N
    BY <1>2
  <2> HIDE DEF N
  <2>2. IsFiniteSet(S) /\ Cardinality(S) <= Cardinality(N)
    BY <2>1, FS_Subset
  <2> QED
    BY <2>1, <2>2
<1>4. Cardinality(S) \in Nat
  BY <1>3, FS_CardinalityType
<1>5. ASSUME NEW i \in S
      PROVE  IsFiniteSet(upTo(i)) /\ rank[i] = Cardinality(upTo(i)) /\ rank[i] \in 1 .. Cardinality(S)
  <2>1. upTo(i) \in SUBSET S /\ i \in upTo(i)
    BY <1>1
  <2>2. IsFiniteSet(upTo(i)) /\ Cardinality(upTo(i)) <= Cardinality(S)
    BY <1>3, <2>1, FS_Subset
  <2>3. Cardinality(upTo(i)) \in Nat
    BY <2>2, FS_CardinalityType
  <2>4. Cardinality(upTo(i)) # 0
    BY <2>1, <2>2, FS_EmptySet
  <2>5. rank[i] = Cardinality(upTo(i))
    BY DEF Rank
  <2> QED
    BY <1>4, <2>2, <2>3, <2>4, <2>5
<1> HIDE DEF rank
<1>7. ASSUME NEW i \in S, NEW j \in S, i < j
      PROVE  rank[i] < rank[j]
  <2>1. upTo(i) \in SUBSET upTo(j) /\ j \in upTo(j) /\ j \notin upTo(i)
    <3>1. \A k \in S : k <= i => k <= j
      BY <1>1, <1>7
    <3>2. upTo(i) \subseteq upTo(j)
      BY <3>1
    <3>3. j \in upTo(j) /\ j \notin upTo(i)
      BY <1>1, <1>7
    <3> QED
      BY <3>2, <3>3
  <2>2. IsFiniteSet(upTo(j)) /\ rank[i] = Cardinality(upTo(i)) /\ rank[j] = Cardinality(upTo(j))
    BY <1>5
  <2> HIDE DEF upTo
  <2>3. /\ Cardinality(upTo(i)) <= Cardinality(upTo(j))
        /\ Cardinality(upTo(j)) = Cardinality(upTo(i)) => upTo(j) = upTo(i)
    BY <2>1, <2>2, FS_Subset
  <2>4. rank[i] # rank[j] /\ rank[i] <= rank[j]
    BY <2>1, <2>2, <2>3
  <2>5. rank[i] \in Nat /\ rank[j] \in Nat
    BY <1>4, <1>5
  <2> QED
    BY <2>4, <2>5
<1>8. /\ \A i, j \in S : rank[i] <= rank[j] => i <= j
      /\ \A i, j \in S : rank[i] = rank[j] => i = j
  <2>1. \A i \in S : rank[i] \in Nat
    <3>1. \A i \in S : rank[i] \in 1 .. Cardinality(S)
      BY <1>5, Zenon
    <3> QED
      BY <1>4, <3>1
  <2>2. ASSUME NEW i \in S, NEW j \in S PROVE i < j \/ i = j \/ j < i
    BY <1>1
  <2>3. ASSUME NEW i \in S, NEW j \in S, j < i PROVE rank[j] < rank[i]
    BY <1>7, <2>3
  <2>4. ASSUME NEW i \in S, NEW j \in S, rank[i] <= rank[j] PROVE i <= j
    BY <1>1, <2>1, <2>2, <2>3, <2>4
  <2> QED
    BY <1>1, <1>7, <2>1, <2>2, <2>4
<1>9. rank \in Surjection(S, 1 .. Cardinality(S))
  <2> DEFINE N == 1 .. Cardinality(S)
  <2>1. rank \in [S -> N]
    BY <1>5 DEF rank
  <2>2. rank \in Injection(S, N)
    BY <1>8, <2>1 DEF Injection, IsInjective
  <2>3. IsFiniteSet(N) /\ Cardinality(N) = Cardinality(S)
    <3>1. IsFiniteSet(N)
          /\ Cardinality(N) = IF 1 > Cardinality(S) THEN 0 ELSE Cardinality(S) - 1 + 1
      BY <1>4, FS_Interval
    <3> HIDE DEF N
    <3> QED
      BY <1>4, <3>1
  <2> HIDE DEF N
  <2>4. Cardinality(S) = Cardinality(N) <=> rank \in Surjection(S, N)
    BY <2>2, <2>3, FS_Injection
  <2> QED
    BY <2>3, <2>4 DEF N
<1>10. \A m \in 1 .. Cardinality(S) : \E i \in S : rank[i] = m
  BY <1>9 DEF Surjection
<1>11. Cardinality(S) \in 0 .. n
  BY <1>3, <1>4
<1> QED
  BY <1>5, <1>8, <1>10, <1>11 DEF rank

\* e lists the places of W, n of them, in increasing order.
Enumerates(e, n, W) ==
    /\ n \in Nat
    /\ e \in [1 .. n -> W]
    /\ \A j, k \in 1 .. n : j < k => e[j] < e[k]
    /\ \A i \in W : \E k \in 1 .. n : e[k] = i

LEMMA EnumeratedPlaces ==
    ASSUME NEW L \in Nat, NEW W \in SUBSET (1 .. L), NEW n, NEW e, Enumerates(e, n, W)
    PROVE  /\ n \in Nat
           /\ \A j \in 1 .. n : e[j] \in W /\ e[j] \in Nat
           /\ \A i, j \in 1 .. n : i < j => e[i] < e[j]
<1>1. /\ n \in Nat /\ e \in [1 .. n -> W]
      /\ \A j, k \in 1 .. n : j < k => e[j] < e[k]
  BY Zenon DEF Enumerates
<1>2. \A j \in 1 .. n : e[j] \in W
  BY <1>1
<1>3. \A i \in W : i \in Nat
  OBVIOUS
<1> QED
  BY <1>1, <1>2, <1>3, Zenon

\* The first k places listed are the places up to the k-th: its rank is k, and
\* the list has all the places there are.
LEMMA RanksListed ==
    ASSUME NEW L \in Nat, NEW W \in SUBSET (1 .. L), NEW n, NEW e, Enumerates(e, n, W),
           NEW k \in 1 .. n
    PROVE  Rank(W, e[k]) = k
<1> DEFINE upTo == {j \in W : j <= e[k]}
           first == [j \in 1 .. k |-> e[j]]
<1>1. /\ n \in Nat /\ k \in Nat /\ \A j \in 1 .. k : j \in 1 .. n
      /\ \A j \in 1 .. n : e[j] \in W /\ e[j] \in Nat
      /\ \A i, j \in 1 .. n : i < j => e[i] < e[j]
      /\ \A i \in W : \E j \in 1 .. n : e[j] = i
  <2>1. /\ n \in Nat
        /\ \A j \in 1 .. n : e[j] \in W /\ e[j] \in Nat
        /\ \A i, j \in 1 .. n : i < j => e[i] < e[j]
    BY EnumeratedPlaces
  <2>2. \A i \in W : \E j \in 1 .. n : e[j] = i
    BY Zenon DEF Enumerates
  <2> QED
    BY <2>1, <2>2
<1>2. \A i, j \in 1 .. n : e[i] = e[j] => i = j
  BY <1>1
<1>3. \A j \in 1 .. n : e[j] <= e[k] <=> j <= k
  <2> TAKE j \in 1 .. n
  <2>1. CASE j < k
    BY <1>1, <2>1
  <2>2. CASE j = k
    BY <1>1, <2>2
  <2>3. CASE k < j
    <3>1. e[k] < e[j]
      BY <1>1, <2>3
    <3> QED
      BY <1>1, <2>3, <3>1
  <2> QED
    BY <1>1, <2>1, <2>2, <2>3
<1>4. \A j \in 1 .. k : e[j] \in upTo
  BY <1>1, <1>3
<1>5. \A i \in upTo : \E j \in 1 .. k : e[j] = i
  <2> TAKE i \in upTo
  <2>1. PICK j \in 1 .. n : e[j] = i
    BY <1>1
  <2>2. j <= k
    BY <1>3, <2>1
  <2> QED
    BY <1>1, <2>1, <2>2
<1> HIDE DEF upTo
<1>6. first \in [1 .. k -> upTo]
  BY <1>4
<1>7. first \in Bijection(1 .. k, upTo)
  <2>1. \A i, j \in 1 .. k : first[i] = first[j] => i = j
    BY <1>1, <1>2
  <2>2. \A i \in upTo : \E j \in 1 .. k : first[j] = i
    BY <1>5
  <2> HIDE DEF first
  <2>3. first \in Injection(1 .. k, upTo)
    BY <1>6, <2>1 DEF Injection, IsInjective
  <2>4. first \in Surjection(1 .. k, upTo)
    BY <1>6, <2>2 DEF Surjection
  <2> QED
    BY <2>3, <2>4 DEF Bijection
<1>8. IsFiniteSet(1 .. k) /\ Cardinality(1 .. k) = k
  <2>1. IsFiniteSet(1 .. k) /\ Cardinality(1 .. k) = IF 1 > k THEN 0 ELSE k - 1 + 1
    BY <1>1, FS_Interval
  <2> QED
    BY <1>1, <2>1
<1> HIDE DEF first
<1>9. Cardinality(upTo) = Cardinality(1 .. k)
  BY <1>7, <1>8, FS_Bijection DEF ExistsBijection
<1> QED
  BY <1>8, <1>9 DEF upTo, Rank

LEMMA AllListed ==
    ASSUME NEW L \in Nat, NEW W \in SUBSET (1 .. L), NEW n, NEW e, Enumerates(e, n, W)
    PROVE  Cardinality(W) = n
<1>1. /\ n \in Nat /\ \A i \in W : \E k \in 1 .. n : e[k] = i
      /\ \A i, j \in 1 .. n : i < j => e[i] < e[j]
      /\ \A j \in 1 .. n : e[j] \in Nat
  <2>1. /\ n \in Nat
        /\ \A j \in 1 .. n : e[j] \in W /\ e[j] \in Nat
        /\ \A i, j \in 1 .. n : i < j => e[i] < e[j]
    BY EnumeratedPlaces
  <2>2. \A i \in W : \E j \in 1 .. n : e[j] = i
    BY Zenon DEF Enumerates
  <2> QED
    BY <2>1, <2>2
<1>2. CASE n = 0
  <2>1. W = {}
    BY <1>1, <1>2
  <2> QED
    BY <1>2, <2>1, FS_EmptySet
<1>3. CASE n # 0
  <2>1. n \in 1 .. n
    BY <1>1, <1>3
  <2>2. \A j \in W : j <= e[n]
    <3> TAKE j \in W
    <3>1. PICK k \in 1 .. n : e[k] = j
      BY <1>1
    <3>2. k < n \/ k = n
      BY <1>1
    <3>3. CASE k = n
      BY <3>1, <3>3
    <3>4. CASE k < n
      BY <1>1, <2>1, <3>1, <3>4
    <3> QED
      BY <3>2, <3>3, <3>4
  <2>3. {j \in W : j <= e[n]} = W
    BY <2>2
  <2>4. Rank(W, e[n]) = n
    BY <2>1, RanksListed, Zenon
  <2> QED
    BY <2>3, <2>4 DEF Rank
<1> QED
  BY <1>2, <1>3

\* The entries at the places listed.
Listed(q, e, n) == [k \in 1 .. n |-> q[e[k]]]

\* The entries at the places of W, read off any list of the places.
LEMMA EntriesListed ==
    ASSUME NEW L \in Nat, NEW W \in SUBSET (1 .. L), NEW n, NEW e, Enumerates(e, n, W),
           NEW q
    PROVE  EntriesAt(q, W) = Listed(q, e, n)
<1> DEFINE place(k) == CHOOSE i \in W : Rank(W, i) = k
<1>1. /\ n \in Nat /\ Cardinality(W) = n
      /\ \A k \in 1 .. n : e[k] \in W
      /\ \A i \in W : \E k \in 1 .. n : e[k] = i
  <2>1. /\ n \in Nat
        /\ \A j \in 1 .. n : e[j] \in W /\ e[j] \in Nat
        /\ \A i, j \in 1 .. n : i < j => e[i] < e[j]
    BY EnumeratedPlaces
  <2>2. \A i \in W : \E j \in 1 .. n : e[j] = i
    BY Zenon DEF Enumerates
  <2> QED
    BY <2>1, <2>2, AllListed
<1>2. ASSUME NEW k \in 1 .. n PROVE place(k) = e[k]
  <2>1. e[k] \in W /\ Rank(W, e[k]) = k
    <3>1. Rank(W, e[k]) = k
      BY RanksListed
    <3> QED
      BY <1>1, <3>1
  <2>2. place(k) \in W /\ Rank(W, place(k)) = k
    BY <2>1
  <2> HIDE DEF place
  <2>3. PICK h \in 1 .. n : e[h] = place(k)
    BY <1>1, <2>2
  <2>4. Rank(W, e[h]) = h
    BY RanksListed
  <2> QED
    BY <2>2, <2>3, <2>4
<1>3. EntriesAt(q, W) = [k \in 1 .. Cardinality(W) |-> q[place(k)]]
  BY Zenon DEF EntriesAt
<1> HIDE DEF place
<1> QED
  BY <1>1, <1>2, <1>3 DEF Listed

\* There is such a list.
LEMMA PlacesListed ==
    ASSUME NEW L \in Nat, NEW W \in SUBSET (1 .. L)
    PROVE  \E n, e : Enumerates(e, n, W)
<1> DEFINE n == Cardinality(W)
           rank == [i \in W |-> Rank(W, i)]
           place(k) == CHOOSE i \in W : rank[i] = k
           e == [k \in 1 .. n |-> place(k)]
<1>1. /\ n \in 0 .. L
      /\ \A k \in 1 .. n : \E i \in W : rank[i] = k
      /\ \A i \in W : rank[i] \in 1 .. n
      /\ \A i, j \in W : rank[i] <= rank[j] => i <= j
  BY PlaceRanks
<1> HIDE DEF rank
<1>2. \A k \in 1 .. n : place(k) \in W /\ rank[place(k)] = k
  BY <1>1
<1> HIDE DEF place
<1>3. n \in Nat /\ e \in [1 .. n -> W]
  BY <1>1, <1>2
<1>4. ASSUME NEW j \in 1 .. n, NEW k \in 1 .. n, j < k PROVE e[j] < e[k]
  <2>1. place(j) # place(k)
    BY <1>2, <1>4
  <2>2. place(j) <= place(k)
    <3>1. rank[place(j)] <= rank[place(k)]
      BY <1>2, <1>4
    <3> QED
      BY <1>1, <1>2, <3>1
  <2>3. place(j) \in Nat /\ place(k) \in Nat
    <3>1. \A i \in W : i \in Nat
      OBVIOUS
    <3> QED
      BY <1>2, <3>1
  <2> QED
    BY <2>1, <2>2, <2>3
<1>5. ASSUME NEW i \in W PROVE \E k \in 1 .. n : e[k] = i
  <2>1. rank[i] \in 1 .. n
    BY <1>1
  <2>2. place(rank[i]) \in W /\ rank[place(rank[i])] = rank[i]
    BY <1>2, <2>1
  <2>3. place(rank[i]) = i
    <3>1. rank[i] \in Nat
      BY <2>1
    <3>2. place(rank[i]) <= i /\ i <= place(rank[i])
      <4>1. rank[place(rank[i])] <= rank[i] /\ rank[i] <= rank[place(rank[i])]
        BY <2>2, <3>1
      <4> QED
        BY <1>1, <2>2, <4>1
    <3>3. place(rank[i]) \in Nat /\ i \in Nat
      <4>1. \A h \in W : h \in Nat
        OBVIOUS
      <4> QED
        BY <2>2, <4>1
    <3> QED
      BY <3>2, <3>3
  <2> QED
    BY <2>1, <2>3
<1> HIDE DEF e, n
<1>6. Enumerates(e, n, W)
  BY <1>3, <1>4, <1>5 DEF Enumerates
<1> QED
  BY <1>6

\* Linking a message at the end of the queue puts it after those of its own
\* receiver, and moves nothing of another.
LEMMA EntriesLinked ==
    ASSUME NEW S, NEW q \in Seq(S), NEW m \in S, NEW W \in SUBSET (1 .. Len(q))
    PROVE  /\ EntriesAt(Append(q, m), W) = EntriesAt(q, W)
           /\ EntriesAt(Append(q, m), W \cup {Len(q) + 1}) = Append(EntriesAt(q, W), m)
<1> DEFINE L == Len(q)
           r == Append(q, m)
<1>1. L \in Nat /\ r[L + 1] = m /\ \A k \in 1 .. L : r[k] = q[k]
  OBVIOUS
<1>2. \A k \in 1 .. L : q[k] \in S
  OBVIOUS
<1>3. W \in SUBSET (1 .. L)
  OBVIOUS
<1> HIDE DEF L, r
<1>4. PICK n, e : Enumerates(e, n, W)
  BY <1>1, <1>3, PlacesListed
<1> DEFINE f == [k \in 1 .. n + 1 |-> IF k <= n THEN e[k] ELSE L + 1]
           V == W \cup {L + 1}
           b == Listed(q, e, n)
<1>5. /\ n \in Nat
      /\ \A j \in 1 .. n : e[j] \in W /\ e[j] \in Nat
      /\ \A i, j \in 1 .. n : i < j => e[i] < e[j]
  BY <1>1, <1>3, <1>4, EnumeratedPlaces
<1>6. \A i \in W : \E j \in 1 .. n : e[j] = i
  BY <1>4 DEF Enumerates
<1>7. \A j \in 1 .. n : e[j] \in 1 .. L
  BY <1>3, <1>5
<1>8. \A k \in 1 .. n + 1 : k \in 1 .. n \/ k = n + 1
  BY <1>5
<1>9. /\ \A k \in 1 .. n : k \in 1 .. n + 1 /\ k <= n
      /\ n + 1 \in 1 .. n + 1 /\ ~ (n + 1 <= n)
  BY <1>5
<1>10. Enumerates(f, n + 1, V)
  <2>1. /\ \A k \in 1 .. n : f[k] = e[k]
        /\ f[n + 1] = L + 1
    BY <1>9
  <2>2. f \in [1 .. n + 1 -> V]
    BY <1>5, <1>8
  <2> HIDE DEF f
  <2>3. ASSUME NEW j \in 1 .. n + 1, NEW k \in 1 .. n + 1, j < k PROVE f[j] < f[k]
    <3>1. j \in 1 .. n
      BY <1>5, <2>3
    <3>2. CASE k \in 1 .. n
      BY <1>5, <2>1, <2>3, <3>1, <3>2
    <3>3. CASE k = n + 1
      <4>1. f[j] = e[j] /\ e[j] \in 1 .. L /\ f[k] = L + 1
        BY <1>7, <2>1, <3>1, <3>3
      <4> QED
        BY <1>1, <4>1
    <3> QED
      BY <1>8, <3>2, <3>3
  <2>4. ASSUME NEW i \in V PROVE \E k \in 1 .. n + 1 : f[k] = i
    <3>1. CASE i = L + 1
      BY <1>9, <2>1, <3>1
    <3>2. CASE i \in W
      <4>1. PICK j \in 1 .. n : e[j] = i
        BY <1>6, <3>2
      <4> QED
        BY <1>9, <2>1, <4>1
    <3> QED
      BY <3>1, <3>2
  <2>5. n + 1 \in Nat
    BY <1>5
  <2> QED
    BY <2>2, <2>3, <2>4, <2>5 DEF Enumerates
<1>11. L + 1 \in Nat /\ W \in SUBSET (1 .. L + 1) /\ V \in SUBSET (1 .. L + 1)
  BY <1>1, <1>3
<1>12. EntriesAt(q, W) = b /\ EntriesAt(r, W) = Listed(r, e, n)
  <2>1. EntriesAt(q, W) = b
    BY <1>1, <1>3, <1>4, EntriesListed
  <2>2. EntriesAt(r, W) = Listed(r, e, n)
    BY <1>1, <1>3, <1>4, EntriesListed
  <2> QED
    BY <2>1, <2>2
<1>13. Listed(r, e, n) = b
  BY <1>1, <1>7 DEF Listed
<1>14. EntriesAt(r, V) = Listed(r, f, n + 1)
  <2> HIDE DEF f, V
  <2> QED
    BY <1>10, <1>11, EntriesListed
<1>15. Listed(r, f, n + 1) = Append(b, m)
  <2>1. b \in Seq(S) /\ Len(b) = n /\ \A k \in 1 .. n : b[k] = q[e[k]]
    BY <1>2, <1>5, <1>7 DEF Listed
  <2>2. /\ \A k \in 1 .. n : r[f[k]] = b[k]
        /\ r[f[n + 1]] = m
    BY <1>1, <1>7, <1>9, <2>1
  <2> DEFINE a == Append(b, m)
             c == Listed(r, f, n + 1)
  <2> HIDE DEF f, b
  <2>3. /\ a \in Seq(S) /\ Len(a) = n + 1
        /\ a[n + 1] = m /\ \A k \in 1 .. n : a[k] = b[k]
    BY <2>1, AppendProperties
  <2> HIDE DEF a
  <2>4. \A k \in 1 .. n + 1 : r[f[k]] = a[k] /\ r[f[k]] \in S
    BY <1>8, <2>2, <2>3
  <2>5. c \in Seq(S) /\ Len(c) = n + 1 /\ \A k \in 1 .. n + 1 : c[k] = a[k]
    BY <1>5, <2>4 DEF Listed
  <2> HIDE DEF c
  <2>6. c = a
    BY <2>3, <2>5, SeqEqual
  <2> QED
    BY <2>6 DEF a, c
<1> QED
  BY <1>12, <1>13, <1>14, <1>15 DEF L, r

\* What the places of W are once entry i of L has been unlinked.
Shifted(W, i, L) == {k \in 1 .. L - 1 : (IF k < i THEN k ELSE k + 1) \in W}

\* Unlinking a message moves nothing of another receiver ...
LEMMA EntriesElsewhere ==
    ASSUME NEW S, NEW q \in Seq(S), NEW W \in SUBSET (1 .. Len(q)),
           NEW i \in 1 .. Len(q), i \notin W
    PROVE  EntriesAt(RemoveAt(q, i), Shifted(W, i, Len(q))) = EntriesAt(q, W)
<1> DEFINE L == Len(q)
           r == RemoveAt(q, i)
           V == Shifted(W, i, L)
<1>1. L \in Nat /\ \A k \in 1 .. L - 1 : r[k] = IF k < i THEN q[k] ELSE q[k + 1]
  BY UnlinkEntries
<1>2. W \in SUBSET (1 .. L) /\ i \in 1 .. L
  OBVIOUS
<1>3. V \in SUBSET (1 .. L)
  BY <1>1 DEF Shifted
<1> HIDE DEF L, r, V
<1>4. PICK n, e : Enumerates(e, n, W)
  BY <1>1, <1>2, PlacesListed
<1> DEFINE new(k) == IF k < i THEN k ELSE k - 1
           f == [k \in 1 .. n |-> new(e[k])]
<1>5. /\ n \in Nat
      /\ \A j \in 1 .. n : e[j] \in W /\ e[j] \in Nat
      /\ \A h, j \in 1 .. n : h < j => e[h] < e[j]
  BY <1>1, <1>2, <1>4, EnumeratedPlaces
<1>6. \A h \in W : \E j \in 1 .. n : e[j] = h
  BY <1>4 DEF Enumerates
<1>7. \A j \in 1 .. n : e[j] \in 1 .. L /\ e[j] # i /\ e[j] \in W
  BY <1>2, <1>5
<1>8. ASSUME NEW h \in 1 .. L, h # i
      PROVE  new(h) \in 1 .. L - 1 /\ (IF new(h) < i THEN new(h) ELSE new(h) + 1) = h
  BY <1>1, <1>2, <1>8
<1>9. ASSUME NEW h \in 1 .. L, NEW j \in 1 .. L, h # i, j # i, h < j
      PROVE  new(h) < new(j)
  BY <1>1, <1>2, <1>9
<1>10. ASSUME NEW k \in V
       PROVE  \E h \in W : new(h) = k
  <2>1. k \in 1 .. L - 1 /\ (IF k < i THEN k ELSE k + 1) \in W
    BY DEF V, Shifted
  <2>2. new(IF k < i THEN k ELSE k + 1) = k
    BY <1>1, <1>2, <2>1
  <2> QED
    BY <2>1, <2>2
<1> HIDE DEF new
<1>11. \A j \in 1 .. n : f[j] = new(e[j]) /\ new(e[j]) \in V
  BY <1>7, <1>8 DEF V, Shifted
<1>12. f \in [1 .. n -> V]
  BY <1>11
<1>13. \A k \in 1 .. n : r[f[k]] = q[e[k]]
  BY <1>1, <1>7, <1>8, <1>11
<1> HIDE DEF f
<1>14. \A j, k \in 1 .. n : j < k => f[j] < f[k]
  BY <1>5, <1>7, <1>9, <1>11
<1>15. \A k \in V : \E j \in 1 .. n : f[j] = k
  <2> TAKE k \in V
  <2>1. PICK h \in W : new(h) = k
    BY <1>10
  <2>2. PICK j \in 1 .. n : e[j] = h
    BY <1>6
  <2> QED
    BY <1>11, <2>1, <2>2
<1>16. Enumerates(f, n, V)
  BY <1>5, <1>12, <1>14, <1>15 DEF Enumerates
<1>17. EntriesAt(q, W) = Listed(q, e, n)
  BY <1>1, <1>2, <1>4, EntriesListed
<1>18. EntriesAt(r, V) = Listed(r, f, n)
  BY <1>1, <1>3, <1>16, EntriesListed
<1>19. EntriesAt(r, V) = EntriesAt(q, W)
  BY <1>13, <1>17, <1>18 DEF Listed
<1> QED
  BY <1>19 DEF L, r, V

\* ... and the first of its receiver's messages is the head of its mailbox.
LEMMA EntriesUnlinked ==
    ASSUME NEW S, NEW q \in Seq(S), NEW W \in SUBSET (1 .. Len(q)),
           NEW i \in W, \A j \in W : i <= j
    PROVE  /\ EntriesAt(q, W) # <<>>
           /\ Head(EntriesAt(q, W)) = q[i]
           /\ EntriesAt(RemoveAt(q, i), Shifted(W, i, Len(q))) = Tail(EntriesAt(q, W))
<1> DEFINE L == Len(q)
           r == RemoveAt(q, i)
           V == Shifted(W, i, L)
<1>1. L \in Nat /\ \A k \in 1 .. L - 1 : r[k] = IF k < i THEN q[k] ELSE q[k + 1]
  <2>1. i \in 1 .. Len(q)
    OBVIOUS
  <2> QED
    BY <2>1, UnlinkEntries
<1>2. W \in SUBSET (1 .. L) /\ i \in 1 .. L /\ \A k \in 1 .. L : q[k] \in S
  OBVIOUS
<1>3. V \in SUBSET (1 .. L)
  BY <1>1 DEF Shifted
<1> HIDE DEF L, r, V
<1>4. PICK n, e : Enumerates(e, n, W)
  BY <1>1, <1>2, PlacesListed
<1> DEFINE f == [k \in 1 .. n - 1 |-> e[k + 1] - 1]
           b == Listed(q, e, n)
<1>5. /\ n \in Nat
      /\ \A j \in 1 .. n : e[j] \in W /\ e[j] \in Nat
      /\ \A h, j \in 1 .. n : h < j => e[h] < e[j]
  BY <1>1, <1>2, <1>4, EnumeratedPlaces
<1>6. \A h \in W : \E j \in 1 .. n : e[j] = h
  BY <1>4 DEF Enumerates
<1>7. \A j \in 1 .. n : e[j] \in 1 .. L /\ e[j] \in W
  BY <1>2, <1>5
<1>8. n # 0 /\ 1 \in 1 .. n /\ n - 1 \in Nat /\ e[1] = i
  <2>1. PICK j \in 1 .. n : e[j] = i
    BY <1>6
  <2>2. n # 0 /\ 1 \in 1 .. n /\ n - 1 \in Nat
    BY <1>5, <2>1
  <2>3. j = 1
    <3>1. CASE 1 < j
      <4>1. e[1] < e[j] /\ i <= e[1] /\ e[1] \in Nat /\ e[j] \in Nat
        BY <1>5, <2>1, <2>2, <3>1
      <4> QED
        BY <2>1, <4>1
    <3> QED
      BY <1>5, <3>1
  <2> QED
    BY <2>1, <2>2, <2>3
<1>9. ASSUME NEW k \in 1 .. n - 1
      PROVE  /\ k \in Nat /\ k + 1 \in 1 .. n /\ i < e[k + 1]
             /\ e[k + 1] - 1 \in 1 .. L - 1 /\ ~ (e[k + 1] - 1 < i)
             /\ e[k + 1] - 1 + 1 = e[k + 1]
  <2>1. k + 1 \in 1 .. n /\ 1 < k + 1
    BY <1>5
  <2>2. i < e[k + 1] /\ e[k + 1] \in 1 .. L
    BY <1>5, <1>7, <1>8, <2>1
  <2> QED
    BY <1>1, <1>2, <2>1, <2>2
<1>10. ASSUME NEW k \in V
       PROVE  k \in 1 .. L - 1 /\ k + 1 \in W /\ k + 1 # i
  <2>1. k \in 1 .. L - 1 /\ (IF k < i THEN k ELSE k + 1) \in W
    BY DEF V, Shifted
  <2>2. ~ (k < i)
    BY <1>2, <2>1
  <2> QED
    BY <1>1, <1>2, <2>1, <2>2
<1>11. \A k \in 1 .. n - 1 : f[k] = e[k + 1] - 1 /\ f[k] \in V
  BY <1>7, <1>9 DEF V, Shifted
<1>12. f \in [1 .. n - 1 -> V]
  BY <1>11
<1>13. \A k \in 1 .. n - 1 : r[f[k]] = q[e[k + 1]]
  BY <1>1, <1>9, <1>11
<1> HIDE DEF f
<1>14. ASSUME NEW j \in 1 .. n - 1, NEW k \in 1 .. n - 1, j < k PROVE f[j] < f[k]
  <2>1. e[j + 1] < e[k + 1] /\ e[j + 1] \in Nat /\ e[k + 1] \in Nat
    BY <1>5, <1>9, <1>14
  <2> QED
    BY <1>11, <2>1
<1>15. ASSUME NEW k \in V PROVE \E j \in 1 .. n - 1 : f[j] = k
  <2>1. PICK j \in 1 .. n : e[j] = k + 1
    BY <1>6, <1>10
  <2>2. j # 1
    BY <1>8, <1>10, <2>1
  <2>3. j - 1 \in 1 .. n - 1 /\ j - 1 + 1 = j
    BY <1>5, <2>2
  <2>4. f[j - 1] = e[j] - 1
    BY <1>11, <2>3
  <2>5. f[j - 1] = k
    BY <1>1, <1>10, <2>1, <2>4
  <2> QED
    BY <2>3, <2>5
<1>16. Enumerates(f, n - 1, V)
  BY <1>8, <1>12, <1>14, <1>15 DEF Enumerates
<1>17. EntriesAt(q, W) = b
  BY <1>1, <1>2, <1>4, EntriesListed
<1>18. EntriesAt(r, V) = Listed(r, f, n - 1)
  BY <1>1, <1>3, <1>16, EntriesListed
<1>19. b \in Seq(S) /\ Len(b) = n /\ b[1] = q[i] /\ \A k \in 1 .. n : b[k] = q[e[k]]
  BY <1>2, <1>5, <1>7, <1>8 DEF Listed
<1> HIDE DEF b
<1>20. b # <<>> /\ Head(b) = q[i]
  BY <1>8, <1>19
<1>21. Listed(r, f, n - 1) = Tail(b)
  <2> DEFINE a == Tail(b)
             c == Listed(r, f, n - 1)
  <2>1. /\ a \in Seq(S) /\ Len(a) = n - 1
        /\ \A k \in 1 .. n - 1 : a[k] = b[k + 1]
    BY <1>19, <1>20, HeadTailProperties
  <2> HIDE DEF a
  <2>2. ASSUME NEW k \in 1 .. n - 1 PROVE r[f[k]] = a[k] /\ r[f[k]] \in S
    <3>1. k + 1 \in 1 .. n
      BY <1>9
    <3>2. a[k] = q[e[k + 1]] /\ r[f[k]] = q[e[k + 1]]
      BY <1>13, <1>19, <2>1, <3>1
    <3>3. e[k + 1] \in 1 .. L
      BY <1>7, <3>1
    <3> QED
      BY <1>2, <3>2, <3>3
  <2>3. c \in Seq(S) /\ Len(c) = n - 1 /\ \A k \in 1 .. n - 1 : c[k] = a[k]
    BY <1>8, <2>2 DEF Listed
  <2> HIDE DEF c
  <2>4. c = a
    BY <2>1, <2>3, SeqEqual
  <2> QED
    BY <2>4 DEF a, c
<1> QED
  BY <1>17, <1>18, <1>20, <1>21 DEF L, r, V

-----------------------------------------------------------------------------
(* The mailboxes and the buffers in the hands of code, and what each       *)
(* operation of the queue does to them.                                    *)

boxNow  == [t \in Task |-> EntriesAt(qHead, Waiting(t))]
heldNow == {m \in allocated : m \notin Queued}

LEMMA WaitingPlaces ==
    ASSUME KernelInv, NEW t \in Task
    PROVE  Waiting(t) \in SUBSET (1 .. Len(qHead)) /\ Len(qHead) \in Nat
BY DEF KernelInv, TypeOK, Waiting

\* Only messages that are linked are in a mailbox.
LEMMA BoxedAreQueued ==
    ASSUME KernelInv, NEW t \in Task, NEW k \in 1 .. Len(boxNow[t])
    PROVE  boxNow[t][k] \in Queued
<1>1. Waiting(t) \in SUBSET (1 .. Len(qHead)) /\ Len(qHead) \in Nat
  BY WaitingPlaces
<1>2. PICK n, e : Enumerates(e, n, Waiting(t))
  BY <1>1, PlacesListed
<1>3. n \in Nat /\ \A j \in 1 .. n : e[j] \in Waiting(t) /\ e[j] \in Nat
  BY <1>1, <1>2, EnumeratedPlaces
<1>4. boxNow[t] = Listed(qHead, e, n)
  <2>1. EntriesAt(qHead, Waiting(t)) = Listed(qHead, e, n)
    BY <1>1, <1>2, EntriesListed
  <2> QED
    BY <2>1 DEF boxNow
<1>5. \A j \in 1 .. n : e[j] \in DOMAIN qHead
  BY <1>1, <1>3 DEF KernelInv, TypeOK
<1>6. k \in 1 .. n /\ boxNow[t][k] = qHead[e[k]]
  BY <1>3, <1>4 DEF Listed
<1> QED
  BY <1>5, <1>6 DEF Queued, Range

LEMMA InBoxIsQueued == KernelInv => Mailbox!InBox \subseteq Queued
BY BoxedAreQueued DEF Mailbox!InBox, boxNow

LEMMA QueueStays ==
    ASSUME UNCHANGED <<qHead, destId>>
    PROVE  boxNow' = boxNow /\ Queued' = Queued
BY DEF boxNow, Waiting, Queued

LEMMA AllocateServes ==
    ASSUME KernelInv, NEW m \in Msg, Allocate(m)
    PROVE  Mailbox!Allocate(m)
<1>1. m \notin Queued /\ m \notin allocated
  BY DEF Allocate, KernelInv, QueueWellFormed
<1>2. destId' = destId
  BY <1>1 DEF Allocate, KernelInv, QueueWellFormed, TypeOK
<1>3. boxNow' = boxNow /\ Queued' = Queued
  BY <1>2, QueueStays DEF Allocate
<1>4. heldNow' = heldNow \cup {m}
  BY <1>1, <1>3 DEF heldNow, Allocate
<1>5. m \notin heldNow \cup Mailbox!InBox
  BY <1>1, InBoxIsQueued DEF heldNow
<1> QED
  BY <1>3, <1>4, <1>5 DEF Mailbox!Allocate, boxNow, heldNow

LEMMA DeallocateServes ==
    ASSUME KernelInv, NEW m \in Msg, Deallocate(m)
    PROVE  Mailbox!Free(m) \/ UNCHANGED <<boxNow, heldNow>>
<1>1. boxNow' = boxNow /\ Queued' = Queued
  BY QueueStays DEF Deallocate
<1>2. CASE destId[m] = TASK_NO_TASK
  <2>1. m \in allocated /\ m \notin Queued /\ allocated' = allocated \ {m}
    BY <1>2 DEF Deallocate, KernelInv, QueueWellFormed
  <2>2. m \in heldNow /\ heldNow' = heldNow \ {m}
    BY <1>1, <2>1 DEF heldNow
  <2> QED
    BY <1>1, <2>2 DEF Mailbox!Free, boxNow, heldNow
<1>3. CASE destId[m] # TASK_NO_TASK
  BY <1>1, <1>3 DEF Deallocate, heldNow
<1> QED
  BY <1>2, <1>3

LEMMA EnqueueServes ==
    ASSUME KernelInv, NEW m \in Msg, NEW t \in Task, Enqueue(m, t)
    PROVE  Mailbox!Send(m, t)
<1> DEFINE L == Len(qHead)
<1>1. m \in allocated /\ m \notin Queued /\ Queued' = Queued \cup {m}
  BY EnqueueKeepsForm DEF KernelInv, Enqueue
<1>2. /\ qHead' = Append(qHead, m) /\ destId' = [destId EXCEPT ![m] = t]
      /\ allocated' = allocated /\ qHead \in Seq(Msg) /\ m \in Msg
      /\ destId \in [Msg -> Task \cup {TASK_NO_TASK}]
  BY DEF Enqueue, KernelInv, TypeOK
<1>3. /\ Len(qHead') = L + 1 /\ L \in Nat /\ qHead'[L + 1] = m
      /\ \A k \in 1 .. L : qHead'[k] = qHead[k]
  BY <1>2
<1>4. \A k \in 1 .. L : qHead[k] \in Msg /\ qHead[k] # m
  BY <1>1, <1>2 DEF Queued, Range
<1>5. destId'[m] = t /\ \A k \in 1 .. L : destId'[qHead'[k]] = destId[qHead[k]]
  BY <1>2, <1>3, <1>4
<1>6. ASSUME NEW u \in Task
      PROVE  Waiting(u)' = IF u = t THEN Waiting(u) \cup {L + 1} ELSE Waiting(u)
  <2>1. Waiting(u)' = {k \in 1 .. L + 1 : destId'[qHead'[k]] = u}
    BY <1>3 DEF Waiting
  <2>2. \A k : k \in 1 .. L + 1 <=> k \in 1 .. L \/ k = L + 1
    BY <1>3
  <2>3. Waiting(u) = {k \in 1 .. L : destId[qHead[k]] = u}
    BY DEF Waiting
  <2> HIDE DEF L
  <2>4. \A k : k \in Waiting(u)' <=> k \in Waiting(u) \/ (k = L + 1 /\ u = t)
    <3>1. L + 1 \notin 1 .. L
      BY <1>3
    <3> QED
      BY <1>3, <1>5, <2>1, <2>2, <2>3, <3>1
  <2> QED
    BY <2>4
<1>7. ASSUME NEW u \in Task
      PROVE  EntriesAt(qHead', Waiting(u)') =
                IF u = t THEN Append(boxNow[u], m) ELSE boxNow[u]
  <2>1. Waiting(u) \in SUBSET (1 .. Len(qHead))
    BY WaitingPlaces
  <2>2. /\ EntriesAt(Append(qHead, m), Waiting(u)) = EntriesAt(qHead, Waiting(u))
        /\ EntriesAt(Append(qHead, m), Waiting(u) \cup {Len(qHead) + 1})
             = Append(EntriesAt(qHead, Waiting(u)), m)
    BY <1>2, <2>1, EntriesLinked
  <2>3. boxNow[u] = EntriesAt(qHead, Waiting(u))
    BY DEF boxNow
  <2> QED
    BY <1>2, <1>6, <2>2, <2>3
<1>8. boxNow' = [u \in Task |-> EntriesAt(qHead', Waiting(u)')]
  BY DEF boxNow
<1>9. boxNow' = [boxNow EXCEPT ![t] = Append(@, m)]
  <2>1. \A u \in Task : boxNow'[u] = IF u = t THEN Append(boxNow[u], m) ELSE boxNow[u]
    BY <1>7, <1>8
  <2>2. boxNow = [u \in Task |-> boxNow[u]]
    BY DEF boxNow
  <2>3. boxNow' = [u \in Task |-> boxNow'[u]]
    BY <1>8
  <2> QED
    BY <2>1, <2>2, <2>3
<1>10. m \in heldNow /\ heldNow' = heldNow \ {m}
  BY <1>1, <1>2 DEF heldNow
<1> QED
  BY <1>9, <1>10 DEF Mailbox!Send, boxNow, heldNow

LEMMA ReceiveServes ==
    ASSUME KernelInv, NEW t \in Task, ReceiveFirst(t)
    PROVE  Mailbox!Receive(t)
<1> DEFINE L == Len(qHead)
           old(i, k) == IF k < i THEN k ELSE k + 1
<1>1. PICK i \in Waiting(t) :
         /\ \A j \in Waiting(t) : i <= j
         /\ qHead' = RemoveAt(qHead, i)
         /\ destId' = [destId EXCEPT ![qHead[i]] = TASK_NO_TASK]
         /\ UNCHANGED allocated
  BY DEF ReceiveFirst
<1>2. Queued' = Queued \ {qHead[i]} /\ qHead[i] \in Msg
  BY <1>1, ReceiveKeepsForm DEF KernelInv
<1>3. /\ qHead \in Seq(Msg) /\ L \in Nat /\ i \in 1 .. L
      /\ destId \in [Msg -> Task \cup {TASK_NO_TASK}]
      /\ qHead[i] \in Queued /\ Queued \subseteq allocated
  BY <1>1 DEF KernelInv, TypeOK, QueueWellFormed, Waiting, Queued, Range
<1>4. /\ Len(qHead') = L - 1
      /\ \A k \in 1 .. L - 1 : qHead'[k] = qHead[old(i, k)]
  BY <1>1, <1>3, UnlinkEntries
<1>5. \A k \in 1 .. L - 1 : old(i, k) \in 1 .. L /\ old(i, k) # i
  BY <1>3
<1>6. \A k \in 1 .. L : k # i => qHead[k] # qHead[i] /\ qHead[k] \in Msg
  BY <1>3 DEF KernelInv, QueueWellFormed, IsInjective
<1>7. \A k \in 1 .. L - 1 : destId'[qHead'[k]] = destId[qHead[old(i, k)]]
  <2> HIDE DEF old
  <2> QED
    BY <1>1, <1>3, <1>4, <1>5, <1>6
<1>8. ASSUME NEW u \in Task
      PROVE  Waiting(u)' = Shifted(Waiting(u), i, L)
  <2>1. Waiting(u)' = {k \in 1 .. L - 1 : destId'[qHead'[k]] = u}
    BY <1>4 DEF Waiting
  <2>2. \A k \in 1 .. L - 1 : old(i, k) \in Waiting(u) <=> destId[qHead[old(i, k)]] = u
    BY <1>5 DEF Waiting
  <2>3. Shifted(Waiting(u), i, L) = {k \in 1 .. L - 1 : old(i, k) \in Waiting(u)}
    BY DEF Shifted
  <2> HIDE DEF L, old
  <2> QED
    BY <1>7, <2>1, <2>2, <2>3
<1>9. /\ boxNow[t] # <<>> /\ Head(boxNow[t]) = qHead[i]
      /\ EntriesAt(qHead', Waiting(t)') = Tail(boxNow[t])
  <2>1. Waiting(t) \in SUBSET (1 .. Len(qHead))
    BY WaitingPlaces
  <2>2. /\ EntriesAt(qHead, Waiting(t)) # <<>>
        /\ Head(EntriesAt(qHead, Waiting(t))) = qHead[i]
        /\ EntriesAt(RemoveAt(qHead, i), Shifted(Waiting(t), i, Len(qHead)))
             = Tail(EntriesAt(qHead, Waiting(t)))
    BY <1>1, <1>3, <2>1, EntriesUnlinked
  <2>3. boxNow[t] = EntriesAt(qHead, Waiting(t))
    BY DEF boxNow
  <2> QED
    BY <1>1, <1>8, <2>2, <2>3
<1>10. ASSUME NEW u \in Task, u # t
       PROVE  EntriesAt(qHead', Waiting(u)') = boxNow[u]
  <2>1. Waiting(u) \in SUBSET (1 .. Len(qHead))
    BY WaitingPlaces
  <2>2. i \notin Waiting(u)
    BY <1>1, <1>10 DEF Waiting
  <2>3. EntriesAt(RemoveAt(qHead, i), Shifted(Waiting(u), i, Len(qHead)))
          = EntriesAt(qHead, Waiting(u))
    BY <1>3, <2>1, <2>2, EntriesElsewhere
  <2>4. boxNow[u] = EntriesAt(qHead, Waiting(u))
    BY DEF boxNow
  <2> QED
    BY <1>1, <1>8, <2>3, <2>4
<1>11. boxNow' = [u \in Task |-> EntriesAt(qHead', Waiting(u)')]
  BY DEF boxNow
<1>12. boxNow' = [boxNow EXCEPT ![t] = Tail(@)]
  <2>1. \A u \in Task : boxNow'[u] = IF u = t THEN Tail(boxNow[u]) ELSE boxNow[u]
    BY <1>9, <1>10, <1>11
  <2>2. boxNow = [u \in Task |-> boxNow[u]]
    BY DEF boxNow
  <2>3. boxNow' = [u \in Task |-> boxNow'[u]]
    BY <1>11
  <2> QED
    BY <2>1, <2>2, <2>3
<1>13. heldNow' = heldNow \cup {Head(boxNow[t])}
  <2>1. heldNow' = heldNow \cup {qHead[i]}
    BY <1>1, <1>2, <1>3 DEF heldNow
  <2> QED
    BY <1>9, <2>1
<1> QED
  BY <1>9, <1>12, <1>13 DEF Mailbox!Receive, boxNow, heldNow

-----------------------------------------------------------------------------
(* The refinement. *)

\* The one queue shared by all tasks, with the senders' interrupts between
\* any two of its critical sections, is the mailboxes of OsalMailbox: a
\* buffer is in the hands of code or in the mailbox of exactly one task, and
\* osal_msg_receive hands each task its messages in the order they were sent.
THEOREM MessagesImplementMailbox == Spec => MailboxSpec
<1>1. Init => Mailbox!Init
  <2> SUFFICES ASSUME Init PROVE Mailbox!Init
    OBVIOUS
  <2>1. KernelInv /\ allocated = {} /\ qHead = <<>>
    BY Initially DEF Init
  <2>2. ASSUME NEW t \in Task PROVE EntriesAt(qHead, Waiting(t)) = <<>>
    <3>1. Waiting(t) = {}
      BY <2>1 DEF Waiting
    <3>2. Cardinality({}) = 0
      BY FS_EmptySet
    <3> QED
      BY <3>1, <3>2 DEF EntriesAt
  <2> QED
    BY <2>1, <2>2 DEF Mailbox!Init
<1>2. KernelInv /\ [Next]_vars => [Mailbox!Next]_(Mailbox!mailVars)
  <2> SUFFICES ASSUME KernelInv, [Next]_vars PROVE [Mailbox!Next]_(Mailbox!mailVars)
    OBVIOUS
  <2>1. ASSUME UNCHANGED <<boxNow, heldNow>> PROVE UNCHANGED Mailbox!mailVars
    BY <2>1 DEF Mailbox!mailVars, boxNow, heldNow
  <2>2. ASSUME UNCHANGED queueVars PROVE UNCHANGED Mailbox!mailVars
    <3>1. boxNow' = boxNow /\ Queued' = Queued
      BY <2>2, QueueStays DEF queueVars
    <3>2. heldNow' = heldNow
      BY <2>2, <3>1 DEF heldNow, queueVars
    <3> QED
      BY <2>1, <3>1, <3>2
  <2>3. ASSUME NEW m \in Msg, Deallocate(m) PROVE [Mailbox!Next]_(Mailbox!mailVars)
    BY <2>1, <2>3, DeallocateServes DEF Mailbox!Next
  <2>4. CASE Calls
    <3>1. CASE CallSetEvent
      BY <2>2, <3>1 DEF CallSetEvent
    <3>2. CASE CallAllocate
      BY <3>2, AllocateServes DEF CallAllocate, Mailbox!Next
    <3>3. CASE CallDeallocate
      BY <2>3, <3>3 DEF CallDeallocate
    <3>4. CASE CallSend
      <4>1. PICK m \in Msg :
              \/ \E t \in Task : Enqueue(m, t)
              \/ SendToNobody(m) \/ SendAgain(m)
        BY <3>4 DEF CallSend
      <4>2. CASE \E t \in Task : Enqueue(m, t)
        BY <4>2, EnqueueServes DEF Mailbox!Next
      <4>3. CASE SendToNobody(m)
        BY <2>3, <4>3 DEF SendToNobody
      <4>4. CASE SendAgain(m)
        BY <2>2, <4>4 DEF SendAgain
      <4> QED
        BY <4>1, <4>2, <4>3, <4>4
    <3> QED
      BY <2>4, <3>1, <3>2, <3>3, <3>4 DEF Calls
  <2>5. CASE Loop
    <3>1. CASE HandlerReceive
      <4>1. ReceiveFirst(idx) \/ ReceiveNone(idx)
        BY <3>1 DEF HandlerReceive
      <4>2. CASE ReceiveFirst(idx)
        <5>1. idx \in Task
          BY DEF KernelInv, TypeOK
        <5> QED
          BY <4>2, <5>1, ReceiveServes DEF Mailbox!Next
      <4>3. CASE ReceiveNone(idx)
        BY <2>2, <4>3 DEF ReceiveNone
      <4> QED
        BY <4>1, <4>2, <4>3
    <3>2. CASE ~ HandlerReceive
      <4>1. UNCHANGED queueVars
        BY <2>5, <3>2 DEF Loop, Signal, StartSystem, PollDone, ScanFound, ScanNext, Take,
                          PutBack, HandlerEvent, HandlerDiscard, HandlerDone
      <4> QED
        BY <2>2, <4>1
    <3> QED
      BY <3>1, <3>2
  <2>6. CASE Isr
    <3>1. CASE IsrSetEvent
      BY <2>2, <3>1 DEF IsrSetEvent
    <3>2. CASE IsrAllocate
      BY <3>2, AllocateServes DEF IsrAllocate, Mailbox!Next
    <3>3. CASE IsrSend
      BY <3>3, EnqueueServes DEF IsrSend, Mailbox!Next
    <3> QED
      BY <2>6, <3>1, <3>2, <3>3 DEF Isr
  <2>7. CASE UNCHANGED vars
    BY <2>2, <2>7 DEF vars
  <2> QED
    BY <2>4, <2>5, <2>6, <2>7 DEF Next
<1>3. QED
  BY <1>1, <1>2, KernelInvKept, PTL DEF Spec, MailboxSpec, Mailbox!Spec

-----------------------------------------------------------------------------
(* The timers.                                                             *)

(***************************************************************************)
(* The list as its records in order, q[1] .. q[n], and the walk as a       *)
(* position p in it: srchTimer is the record there, prevTimer the one      *)
(* before.  Behind the end prevTimer may be any: an interrupt may have     *)
(* appended to the record it points at, but the walk is over.              *)
(***************************************************************************)
At(n, q, i) == IF i \in 1 .. n THEN q[i] ELSE NULL

IsList(head, nx, n, q) ==
    /\ n \in Nat /\ q \in [1 .. n -> Rec]
    /\ \A i, j \in 1 .. n : q[i] = q[j] => i = j
    /\ head = At(n, q, 1)
    /\ \A i \in 1 .. n : nx[q[i]] = At(n, q, i + 1)

WalkedTo(n, q, p) ==
    /\ IsList(timerHead, next, n, q)
    /\ p \in 1 .. n + 1
    /\ srchTimer = At(n, q, p)
    /\ p <= n => prevTimer = At(n, q, p - 1)

ListKept == \E n, q, p : WalkedTo(n, q, p)

\* Where the walk is, its locals are in use and no others.
LocalsKept ==
    /\ walkPc = "idle" => srchTimer = NULL
    /\ freeTimer # NULL <=> walkPc = "notify"
    /\ freeTimer \notin Linked

\* osalFindTimer finds a record, or there is none.
FoundAlone ==
    \A r, s \in Linked : rec[r].flag /\ rec[s].flag /\ rec[r].id = rec[s].id => r = s

\* What has been unlinked and not stopped before has run out.
FreedRanOut == walkPc = "notify" /\ rec[freeTimer].flag => rec[freeTimer].timeout = 0

TimersInv == TimersTypeOK /\ ListKept /\ LocalsKept /\ FoundAlone /\ FreedRanOut /\ NeverLate

-----------------------------------------------------------------------------
(* Lists. *)

\* There is a lowest of some numbers up to n.
LEMMA Lowest ==
    ASSUME NEW n \in Nat, NEW S \in SUBSET (0 .. n), S # {}
    PROVE  \E x \in S : \A y \in S : x <= y
<1> DEFINE T == {0 .. x : x \in S}
<1>1. T \subseteq FiniteSubsetsOf(0 .. n) /\ T # {}
  <2>1. ASSUME NEW x \in S PROVE 0 .. x \subseteq 0 .. n /\ IsFiniteSet(0 .. x)
    BY FS_Interval
  <2>2. QED
    BY <2>1 DEF FiniteSubsetsOf
<1>2. PICK t \in T : \A u \in T : ~ (<<u, t>> \in StrictSubsetOrdering(0 .. n))
  <2> HIDE DEF T
  <2>1. QED
    BY <1>1, FS_StrictSubsetOrderingWellFounded, WFMin
<1>3. PICK x \in S : t = 0 .. x
  BY <1>2
<1>4. ASSUME NEW y \in S PROVE x <= y
  <2>1. 0 .. y \in T /\ 0 .. y \subseteq 0 .. n /\ 0 .. x \subseteq 0 .. n
    OBVIOUS
  <2>2. ~ (0 .. y \subseteq 0 .. x /\ 0 .. y # 0 .. x)
    BY <1>2, <1>3, <2>1 DEF StrictSubsetOrdering
  <2>3. x \in Nat /\ y \in Nat
    OBVIOUS
  <2>4. QED
    BY <2>2, <2>3
<1>5. QED
  BY <1>4

\* Nth, for any head and next pointers.
Reached(head, nx) ==
    CHOOSE f : f = [n \in 0 .. Cardinality(Rec) |->
                      IF n = 0 THEN head ELSE IF f[n - 1] = NULL THEN NULL ELSE nx[f[n - 1]]]

LEMMA NthIsReached == Nth = Reached(timerHead, next)
BY DEF Nth, Reached

\* The pointers lead through a list to its end, which they reach.
LEMMA ListIsReached ==
    ASSUME NEW head, NEW nx, NEW n, NEW q, IsList(head, nx, n, q)
    PROVE  /\ Cardinality(Rec) \in Nat /\ n <= Cardinality(Rec)
           /\ \A k \in 0 .. Cardinality(Rec) : Reached(head, nx)[k] = At(n, q, k + 1)
<1> DEFINE C == Cardinality(Rec)
           Step(f) == [k \in 0 .. C |-> IF k = 0 THEN head
                                        ELSE IF f[k - 1] = NULL THEN NULL ELSE nx[f[k - 1]]]
           g == [k \in 0 .. C |-> At(n, q, k + 1)]
           f == Reached(head, nx)
<1>1. C \in Nat /\ n \in Nat /\ n <= C
  <2>1. q \in Injection(1 .. n, Rec) /\ n \in Nat
    BY DEF IsList, Injection, IsInjective
  <2>2. IsFiniteSet(Rec) /\ Cardinality(1 .. n) = n
    BY <2>1, RecAssumption, FS_Interval
  <2>3. QED
    BY <2>1, <2>2, FS_Injection, FS_CardinalityType
<1>2. g = Step(g)
  <2>1. ASSUME NEW k \in 0 .. C PROVE g[k] = Step(g)[k]
    <3>1. CASE k = 0
      BY <1>1, <3>1 DEF IsList
    <3>2. CASE k # 0
      <4>1. g[k - 1] = At(n, q, k) /\ k - 1 \in 0 .. C
        BY <1>1, <3>2
      <4>2. CASE k \in 1 .. n
        BY <1>1, <3>2, <4>1, <4>2, RecAssumption DEF IsList, At
      <4>3. CASE k \notin 1 .. n
        BY <1>1, <3>2, <4>1, <4>3 DEF At
      <4>4. QED
        BY <4>2, <4>3
    <3>3. QED
      BY <3>1, <3>2
  <2>2. QED
    BY <2>1
<1>3. f = Step(f)
  BY <1>2 DEF Reached
<1>4. \A k \in 0 .. C : f[k] = g[k]
  <2> HIDE DEF f, g
  <2>1. SUFFICES ASSUME {k \in 0 .. C : f[k] # g[k]} # {} PROVE FALSE
    OBVIOUS
  <2>2. PICK k \in 0 .. C : f[k] # g[k] /\ \A j \in 0 .. C : f[j] # g[j] => k <= j
    BY <1>1, <2>1, Lowest
  <2>3. k # 0 => f[k - 1] = g[k - 1]
    BY <1>1, <2>2
  <2>4. f[k] = Step(f)[k] /\ g[k] = Step(g)[k]
    BY <1>2, <1>3
  <2>5. QED
    BY <2>2, <2>3, <2>4
<1>5. QED
  BY <1>1, <1>4

\* What Linked and Ahead are, seen as a list.
SetsKnown ==
    \A n, q, p : WalkedTo(n, q, p) =>
        /\ Linked = {q[i] : i \in 1 .. n}
        /\ Ahead = {q[i] : i \in p .. n}
        /\ ListEnds

LEMMA ListSets == SetsKnown
<1> SUFFICES ASSUME NEW n, NEW q, NEW p, WalkedTo(n, q, p)
             PROVE  /\ Linked = {q[i] : i \in 1 .. n}
                    /\ Ahead = {q[i] : i \in p .. n}
                    /\ ListEnds
  BY DEF SetsKnown
<1> DEFINE C == Cardinality(Rec)
<1>1. /\ C \in Nat /\ n \in Nat /\ n <= C
      /\ \A k \in 0 .. C : Nth[k] = At(n, q, k + 1)
  BY ListIsReached, NthIsReached DEF WalkedTo, IsList
<1>2. /\ \A i \in 1 .. n : At(n, q, i) = q[i] /\ q[i] # NULL
      /\ \A i \in Nat : i \notin 1 .. n => At(n, q, i) = NULL
  BY RecAssumption DEF WalkedTo, IsList, At
<1>3. ASSUME NEW i \in 1 .. n PROVE i - 1 \in 0 .. C /\ Nth[i - 1] = q[i]
  BY <1>1, <1>2
<1>4. ASSUME NEW k \in 0 .. C, Nth[k] # NULL PROVE k + 1 \in 1 .. n /\ Nth[k] = q[k + 1]
  BY <1>1, <1>2, <1>4
<1>5. Linked = {q[i] : i \in 1 .. n}
  <2>1. ASSUME NEW r \in Linked PROVE r \in {q[i] : i \in 1 .. n}
    BY <1>4 DEF Linked
  <2>2. ASSUME NEW i \in 1 .. n PROVE q[i] \in Linked
    BY <1>2, <1>3 DEF Linked
  <2>3. QED
    BY <2>1, <2>2
<1>6. ASSUME NEW k \in 0 .. C, Nth[k] # NULL
      PROVE  (\E j \in 0 .. k : Nth[j] = srchTimer) <=> p <= k + 1
  <2>1. k + 1 \in 1 .. n /\ k \in Nat
    BY <1>1, <1>4, <1>6
  <2>2. \A j \in 0 .. k : j \in 0 .. C /\ j + 1 \in 1 .. n /\ Nth[j] = q[j + 1]
    BY <1>1, <1>2, <2>1
  <2>3. CASE p \in 1 .. n
    <3>1. srchTimer = q[p]
      BY <1>2, <2>3 DEF WalkedTo
    <3>2. \A j \in 0 .. k : Nth[j] = srchTimer <=> j + 1 = p
      BY <2>2, <2>3, <3>1 DEF WalkedTo, IsList
    <3>3. p <= k + 1 => p - 1 \in 0 .. k /\ (p - 1) + 1 = p
      BY <2>1, <2>3
    <3>4. QED
      BY <2>1, <2>3, <3>2, <3>3
  <2>4. CASE p \notin 1 .. n
    <3>1. p = n + 1 /\ srchTimer = NULL
      BY <1>1, <1>2, <2>4 DEF WalkedTo
    <3>2. \A j \in 0 .. k : Nth[j] # NULL
      BY <1>2, <2>2
    <3>3. QED
      BY <1>1, <2>1, <3>1, <3>2
  <2>5. QED
    BY <2>3, <2>4
<1>7. Ahead = {q[i] : i \in p .. n}
  <2>1. ASSUME NEW r \in Ahead PROVE r \in {q[i] : i \in p .. n}
    <3>1. PICK k \in 0 .. C : r = Nth[k] /\ Nth[k] # NULL /\ \E j \in 0 .. k : Nth[j] = srchTimer
      BY DEF Ahead
    <3>2. p <= k + 1 /\ k + 1 \in 1 .. n /\ r = q[k + 1]
      BY <1>4, <1>6, <3>1
    <3>3. k + 1 \in p .. n
      BY <3>2 DEF WalkedTo
    <3>4. QED
      BY <3>2, <3>3
  <2>2. ASSUME NEW i \in p .. n PROVE q[i] \in Ahead
    <3>1. i \in 1 .. n /\ p <= (i - 1) + 1
      BY <1>1 DEF WalkedTo
    <3>2. i - 1 \in 0 .. C /\ Nth[i - 1] = q[i] /\ q[i] # NULL
      BY <1>2, <1>3, <3>1
    <3>3. \E j \in 0 .. i - 1 : Nth[j] = srchTimer
      BY <1>6, <3>1, <3>2
    <3>4. QED
      BY <3>2, <3>3 DEF Ahead
  <2>3. QED
    BY <2>1, <2>2
<1>8. ListEnds
  BY <1>1, <1>2 DEF ListEnds
<1>9. QED
  BY <1>5, <1>7, <1>8

\* The walk's pointers are neighbours in the list.
LEMMA ListIsSafe == ASSUME ListKept PROVE ListEnds /\ (LocalsKept => WalkSafe)
<1>1. PICK n, q, p : WalkedTo(n, q, p)
  BY DEF ListKept
<1>2. ListEnds /\ Linked = {q[i] : i \in 1 .. n}
  BY <1>1, ListSets DEF SetsKnown
<1>3. ASSUME srchTimer # NULL
      PROVE  /\ srchTimer \in Linked
             /\ IF prevTimer = NULL THEN timerHead = srchTimer
                                    ELSE prevTimer \in Linked /\ next[prevTimer] = srchTimer
  <2>1. p \in 1 .. n /\ srchTimer = q[p] /\ prevTimer = At(n, q, p - 1)
    BY <1>1, <1>3 DEF WalkedTo, IsList, At
  <2>2. CASE p = 1
    BY <1>1, <1>2, <2>1, <2>2 DEF WalkedTo, IsList, At
  <2>3. CASE p # 1
    <3>1. p - 1 \in 1 .. n /\ (p - 1) + 1 = p
      BY <1>1, <2>1, <2>3 DEF WalkedTo, IsList
    <3>2. prevTimer = q[p - 1] /\ prevTimer # NULL /\ next[prevTimer] = q[p]
      BY <1>1, <2>1, <3>1, RecAssumption DEF WalkedTo, IsList, At
    <3>3. QED
      BY <1>2, <2>1, <3>1, <3>2
  <2>4. QED
    BY <2>2, <2>3
<1>4. QED
  BY <1>2, <1>3 DEF WalkSafe, WalkPointersValid, LocalsKept, FreedIsUnlinked

\* A record that is not in the list is appended.
Appends(head, nx, n, q, r, head2, nx2) ==
    IF head = NULL THEN head2 = r /\ nx2 = [nx EXCEPT ![r] = NULL]
    ELSE \E i \in 1 .. n : /\ nx[q[i]] = NULL
                           /\ nx2 = [nx EXCEPT ![q[i]] = r, ![r] = NULL]
                           /\ head2 = head

LEMMA ListAppended ==
    ASSUME NEW head, NEW nx \in [Rec -> Pointer], NEW n, NEW q, IsList(head, nx, n, q),
           NEW r \in Rec, \A i \in 1 .. n : q[i] # r,
           NEW head2, NEW nx2,
           Appends(head, nx, n, q, r, head2, nx2)
    PROVE  IsList(head2, nx2, n + 1, [i \in 1 .. n + 1 |-> IF i = n + 1 THEN r ELSE q[i]])
<1> DEFINE q2 == [i \in 1 .. n + 1 |-> IF i = n + 1 THEN r ELSE q[i]]
<1>1. /\ n \in Nat /\ q \in [1 .. n -> Rec]
      /\ \A i, j \in 1 .. n : q[i] = q[j] => i = j
      /\ \A i \in 1 .. n + 1 : i = n + 1 \/ i \in 1 .. n
      /\ \A i \in 1 .. n : i \in 1 .. n + 1 /\ i # n + 1
  BY DEF IsList
<1>2. /\ q2 \in [1 .. n + 1 -> Rec] /\ q2[n + 1] = r
      /\ \A i \in 1 .. n : q2[i] = q[i]
  BY <1>1
<1> HIDE DEF q2
<1>3. \A i, j \in 1 .. n + 1 : q2[i] = q2[j] => i = j
  BY <1>1, <1>2
<1>4. \A i \in 1 .. n : At(n + 1, q2, i) = q[i]
  BY <1>1, <1>2 DEF At
<1>5. At(n + 1, q2, n + 1) = r /\ At(n + 1, q2, n + 2) = NULL
  BY <1>1, <1>2 DEF At
<1>6. ASSUME n = 0 PROVE IsList(head2, nx2, n + 1, q2)
  <2>1. head = NULL
    BY <1>6 DEF IsList, At
  <2>2. QED
    BY <1>1, <1>2, <1>3, <1>5, <1>6, <2>1 DEF IsList, Appends
<1>7. ASSUME n # 0 PROVE IsList(head2, nx2, n + 1, q2)
  <2>1. 1 \in 1 .. n /\ n \in 1 .. n /\ head = q[1] /\ head # NULL
    BY <1>1, <1>7, RecAssumption DEF IsList, At
  <2>2. \A i \in 1 .. n : i # n => nx[q[i]] = q[i + 1] /\ i + 1 \in 1 .. n /\ q[i + 1] # NULL
    BY <1>1, RecAssumption DEF IsList, At
  <2>3. nx2 = [nx EXCEPT ![q[n]] = r, ![r] = NULL] /\ head2 = head
    BY <2>1, <2>2 DEF Appends
  <2>4. nx2[r] = NULL /\ nx2[q[n]] = r /\ \A i \in 1 .. n : i # n => nx2[q[i]] = nx[q[i]]
    BY <1>1, <2>1, <2>3
  <2>5. head2 = At(n + 1, q2, 1)
    BY <1>4, <2>1, <2>3
  <2>6. ASSUME NEW i \in 1 .. n + 1 PROVE nx2[q2[i]] = At(n + 1, q2, i + 1)
    <3>1. CASE i = n + 1
      BY <1>1, <1>2, <1>5, <2>4, <3>1
    <3>2. CASE i = n
      BY <1>1, <1>2, <1>5, <2>1, <2>4, <3>2
    <3>3. CASE i # n + 1 /\ i # n
      <4>1. i \in 1 .. n /\ i + 1 \in 1 .. n
        BY <1>1, <3>3
      <4>2. QED
        BY <1>2, <1>4, <2>2, <2>4, <3>3, <4>1
    <3>4. QED
      BY <3>1, <3>2, <3>3
  <2>7. n + 1 \in Nat /\ q2 \in [1 .. n + 1 -> Rec]
    BY <1>1, <1>2
  <2>8. QED
    BY <1>3, <2>5, <2>6, <2>7 DEF IsList
<1>8. QED
  BY <1>6, <1>7 DEF q2

\* The record at position p is unlinked.
Unlinks(head, nx, q, p, head2, nx2) ==
    IF p = 1 THEN head2 = nx[q[p]] /\ nx2 = nx
    ELSE nx2 = [nx EXCEPT ![q[p - 1]] = nx[q[p]]] /\ head2 = head

LEMMA ListUnlinked ==
    ASSUME NEW head, NEW nx \in [Rec -> Pointer], NEW n, NEW q, IsList(head, nx, n, q),
           NEW p \in 1 .. n, NEW head2, NEW nx2,
           Unlinks(head, nx, q, p, head2, nx2)
    PROVE  IsList(head2, nx2, n - 1, [i \in 1 .. n - 1 |-> IF i < p THEN q[i] ELSE q[i + 1]])
<1> DEFINE q2 == [i \in 1 .. n - 1 |-> IF i < p THEN q[i] ELSE q[i + 1]]
           old(i) == IF i < p THEN i ELSE i + 1
<1>1. /\ n \in Nat /\ n - 1 \in Nat /\ q \in [1 .. n -> Rec]
      /\ \A i, j \in 1 .. n : q[i] = q[j] => i = j
  BY DEF IsList
<1>2. \A i \in 1 .. n - 1 : old(i) \in 1 .. n /\ old(i) # p /\ q2[i] = q[old(i)]
  BY <1>1
<1>3. \A i, j \in 1 .. n - 1 : old(i) = old(j) => i = j
  BY <1>1
<1>4. \A i \in 1 .. n - 1 : IF i + 1 = p THEN old(i) = p - 1 ELSE (i # n - 1 => old(i + 1) = old(i) + 1)
  BY <1>1
<1>5. q2 \in [1 .. n - 1 -> Rec]
  BY <1>1
<1>6. \A i, j \in 1 .. n - 1 : q2[i] = q2[j] => i = j
  <2> HIDE DEF q2, old
  <2>1. QED
    BY <1>1, <1>2, <1>3
<1>7. \A i \in 1 .. n : nx[q[i]] = At(n, q, i + 1)
  BY DEF IsList
<1>8. head2 = At(n - 1, q2, 1)
  <2>1. CASE p = 1
    <3>1. head2 = At(n, q, 2)
      BY <1>7, <2>1 DEF Unlinks
    <3>2. QED
      BY <1>1, <2>1, <3>1 DEF At
  <2>2. CASE p # 1
    <3>1. head2 = q[1]
      BY <1>1, <2>2 DEF IsList, At, Unlinks
    <3>2. QED
      BY <1>1, <2>2, <3>1 DEF At
  <2>3. QED
    BY <2>1, <2>2
<1>9. ASSUME NEW i \in 1 .. n - 1 PROVE nx2[q2[i]] = At(n - 1, q2, i + 1)
  <2>1. CASE i + 1 = p
    <3>1. i \in 1 .. n /\ p # 1 /\ i = p - 1 /\ q2[i] = q[p - 1]
      BY <1>1, <2>1
    <3>2. nx2[q[p - 1]] = At(n, q, p + 1)
      BY <1>1, <1>7, <3>1 DEF Unlinks
    <3>3. At(n - 1, q2, p) = At(n, q, p + 1)
      BY <1>1 DEF At
    <3>4. QED
      BY <2>1, <3>1, <3>2, <3>3
  <2>2. CASE i + 1 # p
    <3>1. old(i) \in 1 .. n /\ q2[i] = q[old(i)] /\ (p # 1 => old(i) # p - 1)
      BY <1>1, <2>2
    <3>2. nx2[q2[i]] = nx[q[old(i)]]
      <4> HIDE DEF old, q2
      <4>1. p # 1 => p - 1 \in 1 .. n
        BY <1>1
      <4>2. QED
        BY <1>1, <3>1, <4>1 DEF Unlinks
    <3>3. nx[q[old(i)]] = At(n, q, old(i) + 1)
      BY <1>7, <3>1
    <3>4. At(n, q, old(i) + 1) = At(n - 1, q2, i + 1)
      BY <1>1, <2>2 DEF At
    <3>5. QED
      BY <3>2, <3>3, <3>4
  <2>3. QED
    BY <2>1, <2>2
<1>10. QED
  BY <1>1, <1>5, <1>6, <1>8, <1>9 DEF IsList

-----------------------------------------------------------------------------
(* What the actions do to the list. *)

LEMMA AheadLinked == ListKept => Ahead \subseteq Linked /\ Linked \subseteq Rec
<1> SUFFICES ASSUME NEW n, NEW q, NEW p, WalkedTo(n, q, p)
             PROVE  Ahead \subseteq Linked /\ Linked \subseteq Rec
  BY DEF ListKept
<1>1. Linked = {q[i] : i \in 1 .. n} /\ Ahead = {q[i] : i \in p .. n}
  BY ListSets DEF SetsKnown
<1>2. \A i \in p .. n : i \in 1 .. n
  BY DEF WalkedTo, IsList
<1>3. \A i \in 1 .. n : q[i] \in Rec
  BY DEF WalkedTo, IsList
<1>4. QED
  BY <1>1, <1>2, <1>3

LEMMA NothingAhead == ListKept /\ srchTimer = NULL => Ahead = {}
<1> SUFFICES ASSUME NEW n, NEW q, NEW p, WalkedTo(n, q, p), srchTimer = NULL
             PROVE  Ahead = {}
  BY DEF ListKept
<1>1. ~ (p <= n) /\ n \in Nat /\ p \in Nat
  BY RecAssumption DEF WalkedTo, IsList, At
<1>2. QED
  BY <1>1, ListSets DEF SetsKnown

\* Most leave it alone; prevTimer may go when the walk is over.
LEMMA ListStays ==
    ASSUME ListKept, UNCHANGED <<timerHead, next, srchTimer>>,
           srchTimer = NULL \/ UNCHANGED prevTimer
    PROVE  ListKept' /\ Linked' = Linked /\ Ahead' = Ahead
<1>1. PICK n, q, p : WalkedTo(n, q, p)
  BY DEF ListKept
<1>2. p <= n => srchTimer # NULL
  BY <1>1, RecAssumption DEF WalkedTo, IsList, At
<1>3. WalkedTo(n, q, p)'
  BY <1>1, <1>2 DEF WalkedTo
<1>4. Linked' = Linked /\ Ahead' = Ahead
  BY DEF Linked, Ahead, Nth
<1>5. QED
  BY <1>3, <1>4 DEF ListKept

\* osalAddTimer appends, in front of the walk or behind it.
LEMMA RecordAdded ==
    ASSUME TimersTypeOK, ListKept, NEW r \in Rec \ Linked,
           IF timerHead = NULL THEN timerHead' = r /\ next' = [next EXCEPT ![r] = NULL]
           ELSE \E last \in Linked : /\ next[last] = NULL
                                     /\ next' = [next EXCEPT ![last] = r, ![r] = NULL]
                                     /\ UNCHANGED timerHead,
           UNCHANGED <<srchTimer, prevTimer>>
    PROVE  ListKept' /\ Linked' = Linked \cup {r} /\ Ahead \subseteq Ahead'
<1>1. PICK n, q, p : WalkedTo(n, q, p)
  BY DEF ListKept
<1>2. Linked = {q[i] : i \in 1 .. n} /\ Ahead = {q[i] : i \in p .. n}
  BY <1>1, ListSets DEF SetsKnown
<1> DEFINE q2 == [i \in 1 .. n + 1 |-> IF i = n + 1 THEN r ELSE q[i]]
           p2 == IF p <= n THEN p ELSE n + 2
<1>3. IsList(timerHead', next', n + 1, q2)
  <2>1. IsList(timerHead, next, n, q) /\ next \in [Rec -> Pointer] /\ \A i \in 1 .. n : q[i] # r
    BY <1>1, <1>2 DEF WalkedTo, TimersTypeOK
  <2>2. Appends(timerHead, next, n, q, r, timerHead', next')
    BY <1>2 DEF Appends
  <2>3. QED
    BY <2>1, <2>2, ListAppended
<1>4. n \in Nat /\ p \in 1 .. n + 1 /\ p2 \in 1 .. n + 2
  BY <1>1 DEF WalkedTo, IsList
<1>5. srchTimer' = At(n + 1, q2, p2) /\ (p2 <= n + 1 => prevTimer' = At(n + 1, q2, p2 - 1))
  <2>1. CASE p <= n
    <3>1. p \in 1 .. n /\ srchTimer = At(n, q, p) /\ prevTimer = At(n, q, p - 1)
      BY <1>1, <1>4, <2>1 DEF WalkedTo
    <3>2. At(n + 1, q2, p) = At(n, q, p) /\ At(n + 1, q2, p - 1) = At(n, q, p - 1)
      BY <1>4, <3>1 DEF At
    <3>3. QED
      BY <2>1, <3>1, <3>2
  <2>2. CASE ~ (p <= n)
    <3>1. p2 = n + 2 /\ srchTimer = NULL
      BY <1>1, <1>4, <2>2 DEF WalkedTo, At
    <3>2. QED
      BY <1>4, <3>1 DEF At
  <2>3. QED
    BY <2>1, <2>2
<1>6. WalkedTo(n + 1, q2, p2)'
  <2> HIDE DEF q2, p2
  <2>1. QED
    BY <1>3, <1>4, <1>5 DEF WalkedTo
<1>7. Linked' = {q2[i] : i \in 1 .. n + 1} /\ Ahead' = {q2[i] : i \in p2 .. n + 1}
  <2>1. SetsKnown'
    BY ListSets, PTL
  <2> HIDE DEF q2, p2
  <2>2. QED
    BY <1>6, <2>1 DEF SetsKnown
<1>8. \A i \in 1 .. n + 1 : q2[i] = IF i = n + 1 THEN r ELSE q[i]
  OBVIOUS
<1>9. /\ \A i \in 1 .. n + 1 : i = n + 1 \/ i \in 1 .. n
      /\ \A i \in 1 .. n : i \in 1 .. n + 1 /\ i # n + 1
      /\ n + 1 \in 1 .. n + 1
      /\ \A i \in p .. n : i \in p2 .. n + 1 /\ i \in 1 .. n
  BY <1>4
<1>10. Linked' = Linked \cup {r} /\ Ahead \subseteq Ahead'
  <2> HIDE DEF q2, p2
  <2>1. Linked' = Linked \cup {r}
    BY <1>2, <1>7, <1>8, <1>9
  <2>2. Ahead \subseteq Ahead'
    BY <1>2, <1>7, <1>8, <1>9
  <2>3. QED
    BY <2>1, <2>2
<1>11. QED
  BY <1>6, <1>10 DEF ListKept

\* A visit goes one record on, and may unlink the one it was at.
LEMMA OneVisited ==
    ASSUME TimersTypeOK, ListKept, Visit
    PROVE  /\ ListKept' /\ srchTimer \in Ahead /\ srchTimer \in Linked
           /\ Linked' = IF Drops(srchTimer) THEN Linked \ {srchTimer} ELSE Linked
           /\ Ahead' = Ahead \ {srchTimer}
<1>1. PICK n, q, p : WalkedTo(n, q, p)
  BY DEF ListKept
<1>2. Linked = {q[i] : i \in 1 .. n} /\ Ahead = {q[i] : i \in p .. n}
  BY <1>1, ListSets DEF SetsKnown
<1>3. /\ n \in Nat /\ p \in 1 .. n /\ srchTimer = q[p] /\ prevTimer = At(n, q, p - 1)
      /\ q \in [1 .. n -> Rec] /\ \A i, j \in 1 .. n : q[i] = q[j] => i = j
      /\ IsList(timerHead, next, n, q)
  BY <1>1 DEF Visit, WalkedTo, IsList, At
<1>4. prevTimer = NULL <=> p = 1
  BY <1>3, RecAssumption DEF At
<1>5. srchTimer' = At(n, q, p + 1)
  BY <1>3 DEF Visit, IsList
<1>6. SetsKnown'
  BY ListSets, PTL
<1>7. p \in p .. n /\ \A i \in 1 .. n : i \in p .. n <=> i >= p
  BY <1>3
<1>8. CASE ~ Drops(srchTimer)
  <2>1. timerHead' = timerHead /\ next' = next /\ prevTimer' = q[p]
    BY <1>3, <1>8 DEF Visit, listVars
  <2>2. WalkedTo(n, q, p + 1)'
    <3>1. At(n, q, p + 1 - 1) = q[p] /\ p + 1 \in 1 .. n + 1
      BY <1>3 DEF At
    <3>2. QED
      BY <1>3, <1>5, <2>1, <3>1 DEF WalkedTo
  <2>3. Linked' = Linked /\ Ahead' = {q[i] : i \in p + 1 .. n}
    BY <1>2, <1>6, <2>2 DEF SetsKnown
  <2>4. Ahead' = Ahead \ {q[p]}
    <3>1. \A i \in p .. n : i # p <=> i \in p + 1 .. n
      BY <1>3
    <3>2. \A i \in p + 1 .. n : i \in p .. n
      BY <1>3
    <3>3. \A i \in p .. n : i \in 1 .. n
      BY <1>3
    <3>4. QED
      BY <1>2, <1>3, <2>3, <3>1, <3>2, <3>3
  <2>5. QED
    BY <1>2, <1>3, <1>7, <1>8, <2>2, <2>3, <2>4 DEF ListKept
<1>9. CASE Drops(srchTimer)
  <2> DEFINE q2 == [i \in 1 .. n - 1 |-> IF i < p THEN q[i] ELSE q[i + 1]]
  <2>1. /\ prevTimer' = prevTimer
        /\ Unlinks(timerHead, next, q, p, timerHead', next')
    <3>1. p # 1 => prevTimer = q[p - 1]
      BY <1>3 DEF At
    <3>2. QED
      BY <1>3, <1>4, <1>9, <3>1 DEF Visit, Unlinks
  <2>2. IsList(timerHead', next', n - 1, q2)
    <3>1. next \in [Rec -> Pointer]
      BY DEF TimersTypeOK
    <3>2. p \in 1 .. n /\ IsList(timerHead, next, n, q)
      BY <1>3
    <3>3. Unlinks(timerHead, next, q, p, timerHead', next')
      BY <2>1
    <3>4. QED
      BY <3>1, <3>2, <3>3, ListUnlinked
  <2>3. At(n, q, p + 1) = At(n - 1, q2, p) /\ (p <= n - 1 => At(n, q, p - 1) = At(n - 1, q2, p - 1))
    BY <1>3 DEF At
  <2>4. p \in 1 .. (n - 1) + 1
    BY <1>3
  <2>5. \A i \in 1 .. n - 1 : q2[i] = IF i < p THEN q[i] ELSE q[i + 1]
    OBVIOUS
  <2> HIDE DEF q2
  <2>6. WalkedTo(n - 1, q2, p)'
    BY <1>3, <1>5, <2>1, <2>2, <2>3, <2>4 DEF WalkedTo
  <2>7. Linked' = {q2[i] : i \in 1 .. n - 1} /\ Ahead' = {q2[i] : i \in p .. n - 1}
    BY <1>6, <2>6 DEF SetsKnown
  <2>8. Linked' = Linked \ {q[p]}
    <3>1. ASSUME NEW i \in 1 .. n - 1 PROVE q2[i] \in Linked /\ q2[i] # q[p]
      <4>1. i \in 1 .. n /\ i + 1 \in 1 .. n /\ (~ (i < p) => i + 1 # p)
        BY <1>3
      <4>2. QED
        BY <1>2, <1>3, <2>5, <4>1
    <3>2. ASSUME NEW j \in 1 .. n, j # p PROVE \E i \in 1 .. n - 1 : q2[i] = q[j]
      <4>1. CASE j < p
        BY <1>3, <2>5, <4>1
      <4>2. CASE j > p
        <5>1. j - 1 \in 1 .. n - 1 /\ ~ (j - 1 < p) /\ (j - 1) + 1 = j
          BY <1>3, <4>2
        <5>2. QED
          BY <2>5, <5>1
      <4>3. QED
        BY <1>3, <3>2, <4>1, <4>2
    <3>3. QED
      BY <1>2, <2>7, <3>1, <3>2
  <2>9. Ahead' = Ahead \ {q[p]}
    <3>1. ASSUME NEW i \in p .. n - 1 PROVE q2[i] \in Ahead /\ q2[i] # q[p]
      <4>1. i \in 1 .. n - 1 /\ ~ (i < p) /\ i + 1 \in p .. n /\ i + 1 \in 1 .. n /\ i + 1 # p
        BY <1>3
      <4>2. QED
        BY <1>2, <1>3, <2>5, <4>1
    <3>2. ASSUME NEW j \in p .. n, j # p PROVE \E i \in p .. n - 1 : q2[i] = q[j]
      <4>1. j - 1 \in p .. n - 1 /\ j - 1 \in 1 .. n - 1 /\ ~ (j - 1 < p) /\ (j - 1) + 1 = j
        BY <1>3, <3>2
      <4>2. QED
        BY <2>5, <4>1
    <3>3. QED
      BY <1>2, <2>7, <3>1, <3>2
  <2>10. QED
    BY <1>2, <1>3, <1>7, <1>9, <2>6, <2>8, <2>9 DEF ListKept
<1>10. QED
  BY <1>8, <1>9

\* A walk begins with all records ahead.
LEMMA WalkBegins ==
    ASSUME ListKept, LocalsKept, TimerUpdate
    PROVE  ListKept' /\ Linked' = Linked /\ Ahead' = Linked
<1>1. PICK n, q, p : WalkedTo(n, q, p)
  BY DEF ListKept
<1>2. timerHead' = timerHead /\ next' = next /\ srchTimer = NULL
  BY DEF TimerUpdate, callVars, listVars, LocalsKept
<1>3. Linked = {q[i] : i \in 1 .. n} /\ SetsKnown'
  <2>1. SetsKnown'
    BY ListSets, PTL
  <2>2. QED
    BY <1>1, <2>1, ListSets DEF SetsKnown
<1>4. n \in Nat /\ IsList(timerHead, next, n, q) /\ timerHead = At(n, q, 1) /\ NULL = At(n, q, 1 - 1)
  BY <1>1 DEF WalkedTo, IsList, At
<1>5. srchTimer' = timerHead /\ (1 <= n => prevTimer' = NULL)
  <2>1. 1 <= n => timerHead # NULL
    BY <1>4, RecAssumption DEF IsList, At
  <2>2. QED
    BY <1>2, <1>4, <2>1 DEF TimerUpdate
<1>6. WalkedTo(n, q, 1)'
  BY <1>2, <1>4, <1>5 DEF WalkedTo
<1>7. QED
  BY <1>3, <1>6 DEF ListKept, SetsKnown

\* To clear the freed record is nothing to the list.
LEMMA RecordFreed ==
    ASSUME TimersTypeOK, ListKept, NEW r, r \notin Linked, next' = [next EXCEPT ![r] = NULL],
           UNCHANGED <<timerHead, srchTimer, prevTimer>>
    PROVE  ListKept' /\ Linked' = Linked /\ Ahead' = Ahead
<1>1. PICK n, q, p : WalkedTo(n, q, p)
  BY DEF ListKept
<1>2. Linked = {q[i] : i \in 1 .. n} /\ Ahead = {q[i] : i \in p .. n}
  BY <1>1, ListSets DEF SetsKnown
<1>3. \A i \in 1 .. n : next'[q[i]] = next[q[i]]
  BY <1>1, <1>2 DEF WalkedTo, IsList, TimersTypeOK
<1>4. WalkedTo(n, q, p)'
  BY <1>1, <1>3 DEF WalkedTo, IsList
<1>5. SetsKnown'
  BY ListSets, PTL
<1>6. QED
  BY <1>2, <1>4, <1>5 DEF ListKept, SetsKnown
-----------------------------------------------------------------------------
(* Every action keeps the invariant. *)

LEMMA InitHolds == TimersInit => TimersInv
<1> SUFFICES ASSUME TimersInit PROVE TimersInv
  OBVIOUS
<1>1. WalkedTo(0, [i \in 1 .. 0 |-> NULL], 1)
  BY DEF TimersInit, WalkedTo, IsList, At
<1>2. Linked = {}
  BY <1>1, ListSets DEF SetsKnown
<1>3. TimersTypeOK
  <2>1. Blank \in Record
    BY TimerAssumption DEF Blank, Record
  <2>2. QED
    BY <2>1, BoundAssumption DEF TimersInit, TimersTypeOK, Pointer
<1>4. ListKept
  BY <1>1 DEF ListKept
<1>5. LocalsKept /\ FreedRanOut
  BY <1>2 DEF TimersInit, LocalsKept, FreedRanOut
<1>6. FoundAlone /\ NeverLate
  BY <1>2 DEF FoundAlone, NeverLate
<1>7. QED
  BY <1>3, <1>4, <1>5, <1>6 DEF TimersInv

\* A call of the timer interface, of the thread or of an interrupt.
Called(tm, timeout, reload) ==
    /\ Call
    /\ Start(tm, timeout, reload) \/ Stop(tm)
    /\ UNCHANGED <<raised, lag, walkVars>>

LEMMA RestartKeeps ==
    ASSUME TimersInv, NEW tm \in Timer, NEW timeout \in Nat, NEW reload \in BOOLEAN,
           Call, Restart(tm, timeout, reload), UNCHANGED <<raised, lag, walkVars>>
    PROVE  TimersInv'
<1>1. PICK r \in Found(tm) :
        rec' = [rec EXCEPT ![r].timeout = timeout, ![r].due = timeout,
                           ![r].reload = IF reload THEN timeout ELSE @]
  BY DEF Restart
<1>2. r \in Linked /\ r \in Rec
  BY AheadLinked DEF Found, TimersInv
<1>3. \A s \in Rec : /\ rec'[s].id = rec[s].id /\ rec'[s].flag = rec[s].flag
                     /\ s # r => rec'[s] = rec[s]
  BY <1>1, <1>2 DEF TimersInv, TimersTypeOK, Record
<1>4. rec'[r].timeout = timeout /\ rec'[r].due = timeout /\ rec' \in [Rec -> Record]
  <2> DEFINE reloaded == IF reload THEN timeout ELSE rec[r].reload
             changed == [rec[r] EXCEPT !.timeout = timeout, !.due = timeout, !.reload = reloaded]
  <2>1. rec \in [Rec -> Record] /\ rec[r] \in Record
    BY <1>2 DEF TimersInv, TimersTypeOK
  <2>2. reloaded \in Nat
    BY <2>1 DEF Record
  <2>3. rec' = [rec EXCEPT ![r] = changed]
    BY <1>1, <1>2, <2>1
  <2> HIDE DEF reloaded
  <2>4. changed \in Record /\ changed.timeout = timeout /\ changed.due = timeout
    BY <2>1, <2>2 DEF Record
  <2> HIDE DEF changed
  <2> QED
    BY <1>2, <2>1, <2>3, <2>4
<1>5. TimersTypeOK'
  <2>1. UNCHANGED <<timerHead, next, raised, lag, walkVars>> /\ calls > 0 /\ calls' = calls - 1
    BY DEF Call, Restart, listVars
  <2>2. rec' \in [Rec -> Record]
    BY <1>4
  <2> QED
    BY <2>1, <2>2 DEF TimersInv, TimersTypeOK, walkVars
<1>6. ListKept' /\ Linked' = Linked /\ Ahead' = Ahead /\ Linked \subseteq Rec
  BY ListStays, AheadLinked DEF TimersInv, Restart, listVars, walkVars
<1>7. LocalsKept'
  BY <1>6 DEF TimersInv, LocalsKept, walkVars
<1>8. FoundAlone'
  BY <1>3, <1>6 DEF TimersInv, FoundAlone
<1>9. FreedRanOut'
  <2>1. walkPc = "notify" => freeTimer \in Rec /\ freeTimer # r
    BY <1>2 DEF TimersInv, LocalsKept, TimersTypeOK, Pointer
  <2>2. QED
    BY <1>3, <2>1 DEF TimersInv, FreedRanOut, walkVars
<1>10. NeverLate'
  <2>1. ASSUME NEW s \in Linked
        PROVE  rec'[s].timeout <= rec'[s].due + lag + (IF s \in Ahead THEN updateTime ELSE 0)
    <3>1. CASE s = r
      BY <1>4, <3>1 DEF TimersInv, TimersTypeOK
    <3>2. CASE s # r
      BY <1>3, <1>6, <3>2 DEF TimersInv, NeverLate
    <3>3. QED
      BY <3>1, <3>2
  <2>2. QED
    BY <1>6, <2>1 DEF NeverLate, walkVars
<1>11. QED
  BY <1>5, <1>6, <1>7, <1>8, <1>9, <1>10 DEF TimersInv

LEMMA AddKeeps ==
    ASSUME TimersInv, NEW tm \in Timer, NEW timeout \in Nat, NEW reload \in BOOLEAN,
           Call, Add(tm, timeout, reload), UNCHANGED <<raised, lag, walkVars>>
    PROVE  TimersInv'
<1>1. PICK r \in Rec \ Used :
        /\ rec' = [rec EXCEPT ![r] = NewRecord(tm, timeout, reload)]
        /\ IF timerHead = NULL
           THEN timerHead' = r /\ next' = [next EXCEPT ![r] = NULL]
           ELSE \E last \in Linked :
                  /\ next[last] = NULL
                  /\ next' = [next EXCEPT ![last] = r, ![r] = NULL]
                  /\ UNCHANGED timerHead
  BY DEF Add
<1>2. r \in Rec /\ r \notin Linked /\ r # freeTimer /\ r # NULL
  BY RecAssumption DEF Used
<1>3. /\ \A s \in Rec : s # r => rec'[s] = rec[s]
      /\ rec'[r] = NewRecord(tm, timeout, reload)
  BY <1>1 DEF TimersInv, TimersTypeOK
<1>4. ListKept' /\ Linked' = Linked \cup {r} /\ Ahead \subseteq Ahead'
  BY <1>1, <1>2, RecordAdded DEF TimersInv, walkVars
<1>5. Linked \subseteq Rec
  BY AheadLinked DEF TimersInv
<1>6. TimersTypeOK'
  <2>1. NewRecord(tm, timeout, reload) \in Record
    BY DEF NewRecord, Record
  <2>2. next' \in [Rec -> Pointer] /\ timerHead' \in Pointer
    BY <1>1, <1>2, <1>5 DEF TimersInv, TimersTypeOK, Pointer
  <2>3. QED
    BY <1>1, <2>1, <2>2 DEF TimersInv, TimersTypeOK, Call, walkVars
<1>7. LocalsKept'
  BY <1>2, <1>4 DEF TimersInv, LocalsKept, walkVars
<1>8. FoundAlone'
  <2>1. \A s \in Linked : ~ (rec[s].flag /\ rec[s].id = tm)
    BY DEF Add, Found
  <2>2. rec'[r].id = tm
    BY <1>3 DEF NewRecord
  <2>3. QED
    BY <1>2, <1>3, <1>4, <1>5, <2>1, <2>2 DEF TimersInv, FoundAlone
<1>9. FreedRanOut'
  <2>1. walkPc = "notify" => freeTimer \in Rec /\ freeTimer # r
    BY <1>2 DEF TimersInv, LocalsKept, TimersTypeOK, Pointer
  <2>2. QED
    BY <1>3, <2>1 DEF TimersInv, FreedRanOut, walkVars
<1>10. NeverLate'
  <2>1. ASSUME NEW s \in Linked'
        PROVE  rec'[s].timeout <= rec'[s].due + lag + (IF s \in Ahead' THEN updateTime ELSE 0)
    <3>1. CASE s = r
      BY <1>3, <3>1 DEF TimersInv, TimersTypeOK, NewRecord
    <3>2. CASE s # r
      <4>1. s \in Linked /\ s \in Rec /\ rec'[s] = rec[s]
        BY <1>3, <1>4, <1>5, <3>2
      <4>2. rec[s].timeout \in Nat /\ rec[s].due \in Nat /\ lag \in Nat /\ updateTime \in Nat
        BY <4>1 DEF TimersInv, TimersTypeOK, Record
      <4>3. QED
        BY <1>4, <4>1, <4>2 DEF TimersInv, NeverLate
    <3>3. QED
      BY <3>1, <3>2
  <2>2. QED
    BY <2>1 DEF NeverLate, walkVars
<1>11. QED
  BY <1>4, <1>6, <1>7, <1>8, <1>9, <1>10 DEF TimersInv

LEMMA StopKeeps ==
    ASSUME TimersInv, NEW tm \in Timer, Call, Stop(tm), UNCHANGED <<raised, lag, walkVars>>
    PROVE  TimersInv'
<1>1. \A s \in Rec : /\ rec'[s] = IF s \in Found(tm) THEN [rec[s] EXCEPT !.flag = FALSE] ELSE rec[s]
                     /\ rec[s] \in Record
  BY DEF Stop, TimersInv, TimersTypeOK
<1>2. \A s \in Rec : /\ rec'[s].id = rec[s].id /\ (rec'[s].flag => rec[s].flag)
                     /\ rec'[s].timeout = rec[s].timeout /\ rec'[s].due = rec[s].due
                     /\ rec'[s] \in Record
  <2> SUFFICES ASSUME NEW s \in Rec
               PROVE  /\ rec'[s].id = rec[s].id /\ (rec'[s].flag => rec[s].flag)
                      /\ rec'[s].timeout = rec[s].timeout /\ rec'[s].due = rec[s].due
                      /\ rec'[s] \in Record
    OBVIOUS
  <2>1. rec[s] \in Record
    BY <1>1
  <2>2. rec'[s] = [rec[s] EXCEPT !.flag = FALSE] \/ rec'[s] = rec[s]
    BY <1>1
  <2> QED
    BY <2>1, <2>2 DEF Record
<1>3. TimersTypeOK'
  <2>1. UNCHANGED <<timerHead, next, raised, lag, walkVars>> /\ calls > 0 /\ calls' = calls - 1
    BY DEF Call, Stop, listVars
  <2>2. rec' \in [Rec -> Record]
    BY <1>2 DEF Stop
  <2> QED
    BY <2>1, <2>2 DEF TimersInv, TimersTypeOK, walkVars
<1>4. ListKept' /\ Linked' = Linked /\ Ahead' = Ahead /\ Linked \subseteq Rec
  BY ListStays, AheadLinked DEF TimersInv, Stop, listVars, walkVars
<1>5. LocalsKept'
  BY <1>4 DEF TimersInv, LocalsKept, walkVars
<1>6. FoundAlone'
  BY <1>2, <1>4 DEF TimersInv, FoundAlone
<1>7. FreedRanOut'
  <2>1. walkPc = "notify" => freeTimer \in Rec
    BY DEF TimersInv, LocalsKept, TimersTypeOK, Pointer
  <2>2. QED
    BY <1>2, <2>1 DEF TimersInv, FreedRanOut, walkVars
<1>8. NeverLate'
  BY <1>2, <1>4 DEF TimersInv, NeverLate, walkVars
<1>9. QED
  BY <1>3, <1>4, <1>5, <1>6, <1>7, <1>8 DEF TimersInv

LEMMA CallKeeps ==
    ASSUME TimersInv, NEW tm \in Timer, NEW timeout \in Nat, NEW reload \in BOOLEAN,
           Called(tm, timeout, reload)
    PROVE  TimersInv'
<1>1. CASE Restart(tm, timeout, reload)
  BY <1>1, RestartKeeps DEF Called
<1>2. CASE Add(tm, timeout, reload)
  BY <1>2, AddKeeps DEF Called
<1>3. CASE AddFails(tm)
  <2>1. UNCHANGED <<listVars, rec, raised, lag, walkVars>> /\ Call
    BY <1>3 DEF AddFails, Called
  <2>2. ListKept' /\ Linked' = Linked /\ Ahead' = Ahead
    BY <2>1, ListStays DEF TimersInv, listVars, walkVars
  <2>3. TimersTypeOK'
    BY <2>1 DEF TimersInv, TimersTypeOK, Call, listVars, walkVars
  <2>4. (LocalsKept /\ FoundAlone /\ FreedRanOut)'
    BY <2>1, <2>2 DEF TimersInv, LocalsKept, FoundAlone, FreedRanOut, walkVars
  <2>5. NeverLate'
    BY <2>1, <2>2 DEF TimersInv, NeverLate, walkVars
  <2>6. QED
    BY <2>2, <2>3, <2>4, <2>5 DEF TimersInv
<1>4. CASE Stop(tm)
  BY <1>4, StopKeeps DEF Called
<1>5. QED
  BY <1>1, <1>2, <1>3, <1>4 DEF Called, Start

LEMMA UpdateKeeps == ASSUME TimersInv, TimerUpdate PROVE TimersInv'
<1>1. ListKept' /\ Linked' = Linked /\ Ahead' = Linked /\ Ahead = {}
  <2>1. srchTimer = NULL
    BY DEF TimerUpdate, TimersInv, LocalsKept
  <2>2. QED
    BY <2>1, NothingAhead, WalkBegins DEF TimersInv
<1>2. TimersTypeOK'
  <2>1. timerHead \in Pointer /\ NULL \in Pointer /\ lag \in Nat
    BY DEF TimersInv, TimersTypeOK, Pointer
  <2>2. /\ walkPc' \in {"idle", "visit", "notify"}
        /\ srchTimer' \in Pointer /\ prevTimer' \in Pointer
    BY <2>1 DEF TimerUpdate, TimersInv, TimersTypeOK
  <2>3. QED
    BY <2>1, <2>2 DEF TimerUpdate, TimersInv, TimersTypeOK, callVars, listVars
<1>3. LocalsKept'
  <2>1. timerHead # NULL => walkPc' = "visit"
    BY DEF TimerUpdate
  <2>2. timerHead = NULL => walkPc' = "idle" /\ srchTimer' = NULL
    BY DEF TimerUpdate, TimersInv, LocalsKept
  <2>3. QED
    BY <1>1, <2>1, <2>2 DEF TimerUpdate, TimersInv, LocalsKept
<1>4. FoundAlone' /\ FreedRanOut'
  <2>1. walkPc' # "notify"
    BY DEF TimerUpdate
  <2>2. QED
    BY <1>1, <2>1 DEF TimerUpdate, TimersInv, FoundAlone, FreedRanOut, callVars
<1>5. NeverLate'
  <2>1. ASSUME NEW s \in Linked PROVE rec[s].timeout <= rec[s].due + 0 + lag
    <3>1. rec[s].due \in Nat /\ lag \in Nat /\ rec[s].timeout <= rec[s].due + lag + 0
      <4>1. s \in Rec
        BY AheadLinked DEF TimersInv
      <4>2. QED
        BY <1>1, <4>1 DEF TimersInv, NeverLate, TimersTypeOK, Record
    <3>2. QED
      BY <3>1
  <2>2. QED
    BY <1>1, <2>1 DEF TimerUpdate, NeverLate, callVars
<1>6. QED
  BY <1>1, <1>2, <1>3, <1>4, <1>5 DEF TimersInv

LEMMA VisitKeeps == ASSUME TimersInv, Visit PROVE TimersInv'
<1> DEFINE r == srchTimer
           new == IF Reloads(r) THEN rec[r].reload ELSE Left(r)
<1>1. /\ ListKept' /\ r \in Ahead /\ r \in Linked /\ r \in Rec /\ Linked \subseteq Rec
      /\ Linked' = IF Drops(r) THEN Linked \ {r} ELSE Linked
      /\ Ahead' = Ahead \ {r}
  BY OneVisited, AheadLinked DEF TimersInv
<1>2. Left(r) \in Nat /\ new \in Nat /\ rec[r] \in Record /\ updateTime \in Nat /\ lag \in Nat
  BY <1>1 DEF TimersInv, TimersTypeOK, Record, Left
<1>3. rec' = [rec EXCEPT ![r].timeout = new, ![r].due = IF Reloads(r) THEN rec[r].reload ELSE @]
  BY DEF Visit
<1>4. /\ rec'[r].id = rec[r].id /\ rec'[r].flag = rec[r].flag /\ rec'[r].timeout = new
      /\ rec'[r].due = IF Reloads(r) THEN rec[r].reload ELSE rec[r].due
      /\ rec'[r].reload = rec[r].reload
      /\ \A s \in Rec : s # r => rec'[s] = rec[s]
      /\ rec' \in [Rec -> Record]
  <2> HIDE DEF new
  <2>1. QED
    BY <1>1, <1>2, <1>3 DEF TimersInv, TimersTypeOK, Record
<1>5. TimersTypeOK'
  <2>1. raised' \in SUBSET Timer
    BY <1>2 DEF Visit, RaisedByReload, TimersInv, TimersTypeOK, Record
  <2>2. next[r] \in Pointer
    BY <1>1 DEF TimersInv, TimersTypeOK
  <2>3. timerHead' \in Pointer /\ next' \in [Rec -> Pointer] /\ srchTimer' \in Pointer
    BY <2>2 DEF Visit, listVars, TimersInv, TimersTypeOK
  <2>4. /\ prevTimer' \in Pointer /\ freeTimer' \in Pointer
        /\ walkPc' \in {"idle", "visit", "notify"}
    BY <1>1 DEF Visit, TimersInv, TimersTypeOK, Pointer
  <2>5. lag' \in Nat /\ updateTime' \in Nat /\ calls' \in Nat
    BY DEF Visit, TimersInv, TimersTypeOK
  <2>6. QED
    BY <1>4, <2>1, <2>3, <2>4, <2>5 DEF TimersTypeOK
<1>6. LocalsKept'
  <2>1. freeTimer = NULL /\ r # NULL /\ NULL \notin Linked
    BY RecAssumption, <1>1 DEF Visit, TimersInv, LocalsKept
  <2>2. CASE Drops(r)
    BY <1>1, <2>1, <2>2 DEF Visit, LocalsKept
  <2>3. CASE ~ Drops(r)
    BY <1>1, <2>1, <2>3 DEF Visit, LocalsKept
  <2>4. QED
    BY <2>2, <2>3
<1>7. FoundAlone'
  <2>1. \A s \in Rec : rec'[s].id = rec[s].id /\ rec'[s].flag = rec[s].flag
    BY <1>4
  <2>2. \A s \in Linked' : s \in Linked /\ s \in Rec
    BY <1>1
  <2>3. QED
    BY <2>1, <2>2 DEF TimersInv, FoundAlone
<1>8. FreedRanOut'
  <2>1. CASE Drops(r)
    <3>1. rec[r].flag => new = 0
      BY <2>1 DEF Drops
    <3>2. QED
      BY <1>4, <2>1, <3>1 DEF Visit, FreedRanOut
  <2>2. CASE ~ Drops(r)
    BY <2>2 DEF Visit, FreedRanOut
  <2>3. QED
    BY <2>1, <2>2
<1>9. NeverLate'
  <2>1. lag' = lag /\ updateTime' = updateTime
    BY DEF Visit
  <2>2. ASSUME NEW s \in Linked'
        PROVE  rec'[s].timeout <= rec'[s].due + lag + (IF s \in Ahead' THEN updateTime ELSE 0)
    <3>1. s \in Linked /\ s \in Rec
      BY <1>1
    <3>2. rec[s].timeout \in Nat /\ rec[s].due \in Nat /\ rec[s].reload \in Nat
      BY <3>1 DEF TimersInv, TimersTypeOK, Record
    <3>3. rec[s].timeout <= rec[s].due + lag + (IF s \in Ahead THEN updateTime ELSE 0)
      BY <3>1 DEF TimersInv, NeverLate
    <3>4. CASE s # r
      BY <1>1, <1>4, <3>1, <3>3, <3>4
    <3>5. CASE s = r
      <4>1. Left(r) <= rec[r].due + lag
        BY <1>1, <1>2, <3>2, <3>3, <3>5 DEF Left
      <4>2. new <= rec'[r].due + lag
        BY <1>2, <1>4, <3>2, <3>5, <4>1
      <4>3. s \notin Ahead'
        BY <1>1, <3>5
      <4>4. rec'[r].due \in Nat
        BY <1>4, <3>2, <3>5
      <4>5. QED
        BY <1>2, <1>4, <3>5, <4>2, <4>3, <4>4
    <3>6. QED
      BY <3>4, <3>5
  <2>3. QED
    BY <2>1, <2>2 DEF NeverLate
<1>10. QED
  BY <1>1, <1>5, <1>6, <1>7, <1>8, <1>9 DEF TimersInv

LEMMA NotifyKeeps == ASSUME TimersInv, Notify PROVE TimersInv'
<1>1. freeTimer \in Rec /\ freeTimer \notin Linked /\ freeTimer # NULL
  BY DEF Notify, TimersInv, LocalsKept, TimersTypeOK, Pointer
<1>2. ListKept' /\ Linked' = Linked /\ Ahead' = Ahead /\ Linked \subseteq Rec
  BY <1>1, RecordFreed, AheadLinked DEF Notify, TimersInv
<1>3. \A s \in Linked : rec'[s] = rec[s]
  BY <1>1, <1>2 DEF Notify, TimersInv, TimersTypeOK
<1>4. TimersTypeOK'
  <2>1. Blank \in Record
    BY TimerAssumption DEF Blank, Record
  <2>2. raised' \in SUBSET Timer
    BY <1>1 DEF Notify, RaisedByExpiry, TimersInv, TimersTypeOK, Record
  <2>3. QED
    BY <2>1, <2>2 DEF Notify, TimersInv, TimersTypeOK, Pointer
<1>5. LocalsKept'
  <2>1. NULL \notin Linked
    BY <1>2, RecAssumption
  <2>2. QED
    BY <1>2, <2>1 DEF Notify, LocalsKept
<1>6. FoundAlone' /\ FreedRanOut'
  BY <1>2, <1>3 DEF Notify, TimersInv, FoundAlone, FreedRanOut
<1>7. NeverLate'
  BY <1>2, <1>3 DEF Notify, TimersInv, NeverLate
<1>8. QED
  BY <1>2, <1>4, <1>5, <1>6, <1>7 DEF TimersInv

LEMMA WalkDoneKeeps == ASSUME TimersInv, WalkDone PROVE TimersInv'
<1>1. ListKept' /\ Linked' = Linked /\ Ahead' = Ahead /\ Ahead = {}
  BY ListStays, NothingAhead DEF WalkDone, TimersInv, callVars, listVars
<1>2. TimersTypeOK'
  BY DEF WalkDone, TimersInv, TimersTypeOK, callVars, listVars, Pointer
<1>3. LocalsKept'
  BY <1>1 DEF WalkDone, TimersInv, LocalsKept
<1>4. FoundAlone' /\ FreedRanOut'
  BY <1>1 DEF WalkDone, TimersInv, FoundAlone, FreedRanOut, callVars
<1>5. NeverLate'
  BY <1>1 DEF WalkDone, TimersInv, NeverLate, callVars
<1>6. QED
  BY <1>1, <1>2, <1>3, <1>4, <1>5 DEF TimersInv

LEMMA TickKeeps == ASSUME TimersInv, Tick PROVE TimersInv'
<1>1. ListKept' /\ Linked' = Linked /\ Ahead' = Ahead /\ Linked \subseteq Rec
  BY ListStays, AheadLinked DEF Tick, TimersInv, listVars, walkVars
<1>2. \A s \in Rec : rec'[s] = [rec[s] EXCEPT !.due = IF @ = 0 THEN 0 ELSE @ - 1]
  BY DEF Tick
<1>3. \A s \in Rec : /\ rec'[s].id = rec[s].id /\ rec'[s].flag = rec[s].flag
                     /\ rec'[s].timeout = rec[s].timeout
                     /\ rec'[s].due = IF rec[s].due = 0 THEN 0 ELSE rec[s].due - 1
                     /\ rec[s].due \in Nat /\ rec[s].timeout \in Nat
                     /\ rec'[s] \in Record
  <2> TAKE s \in Rec
  <2>1. rec[s] \in Record /\ rec[s].due \in Nat
    <3>1. rec[s] \in Record
      BY DEF TimersInv, TimersTypeOK
    <3>2. QED
      BY <3>1 DEF Record
  <2>2. rec'[s] = [rec[s] EXCEPT !.due = IF rec[s].due = 0 THEN 0 ELSE rec[s].due - 1]
    BY <1>2
  <2>3. QED
    BY <2>1, <2>2 DEF Record
<1>4. TimersTypeOK'
  <2>1. rec' \in [Rec -> Record]
    BY <1>3 DEF Tick
  <2>2. QED
    BY <2>1 DEF Tick, TimersInv, TimersTypeOK, listVars, walkVars
<1>5. LocalsKept'
  BY <1>1 DEF Tick, TimersInv, LocalsKept, walkVars
<1>6. FoundAlone' /\ FreedRanOut'
  <2>1. walkPc = "notify" => freeTimer \in Rec
    BY DEF TimersInv, LocalsKept, TimersTypeOK, Pointer
  <2>2. FoundAlone'
    BY <1>1, <1>3 DEF TimersInv, FoundAlone
  <2>3. QED
    BY <1>3, <2>1, <2>2 DEF Tick, TimersInv, FreedRanOut, walkVars
<1>7. NeverLate'
  <2>1. ASSUME NEW s \in Linked
        PROVE  rec'[s].timeout <= rec'[s].due + (lag + 1) + (IF s \in Ahead THEN updateTime ELSE 0)
    <3>1. s \in Rec /\ lag \in Nat /\ updateTime \in Nat
      BY <1>1 DEF TimersInv, TimersTypeOK
    <3>2. rec[s].timeout <= rec[s].due + lag + (IF s \in Ahead THEN updateTime ELSE 0)
      BY DEF TimersInv, NeverLate
    <3>3. QED
      BY <1>3, <3>1, <3>2
  <2>2. QED
    BY <1>1, <2>1 DEF Tick, NeverLate, walkVars
<1>8. QED
  BY <1>1, <1>4, <1>5, <1>6, <1>7 DEF TimersInv

\* Nothing of the timers changes but the events.
LEMMA RestKeeps ==
    ASSUME TimersInv, UNCHANGED <<callVars, lag, walkVars>>, raised' \subseteq raised
    PROVE  TimersInv'
<1>1. ListKept' /\ Linked' = Linked /\ Ahead' = Ahead
  BY ListStays DEF TimersInv, callVars, listVars, walkVars
<1>2. TimersTypeOK'
  BY DEF TimersInv, TimersTypeOK, callVars, listVars, walkVars
<1>3. (LocalsKept /\ FoundAlone /\ FreedRanOut)'
  BY <1>1 DEF TimersInv, LocalsKept, FoundAlone, FreedRanOut, callVars, walkVars
<1>4. NeverLate'
  BY <1>1 DEF TimersInv, NeverLate, callVars, walkVars
<1>5. QED
  BY <1>1, <1>2, <1>3, <1>4 DEF TimersInv

\* The calls of the thread and of the interrupts are calls.
LEMMA CallsAreCalls ==
    ASSUME ThreadCall \/ IsrCall
    PROVE  \E tm \in Timer, timeout \in Nat, reload \in BOOLEAN : Called(tm, timeout, reload)
<1>1. CASE IsrCall
  <2>1. PICK tm \in Timer, n \in 1 .. MaxTimeout : Start(tm, n, FALSE)
    BY <1>1 DEF IsrCall
  <2>2. n \in Nat
    BY BoundAssumption
  <2>3. Called(tm, n, FALSE)
    BY <1>1, <2>1 DEF IsrCall, Called
  <2>4. QED
    BY <2>2, <2>3
<1>2. CASE ThreadCall
  <2>1. PICK tm \in Timer : \/ \E n \in 0 .. MaxTimeout, reload \in BOOLEAN : Start(tm, n, reload)
                            \/ Stop(tm)
    BY <1>2 DEF ThreadCall
  <2>2. CASE \E n \in 0 .. MaxTimeout, reload \in BOOLEAN : Start(tm, n, reload)
    BY <1>2, <2>2, BoundAssumption DEF ThreadCall, Called
  <2>3. CASE Stop(tm)
    <3>1. Called(tm, 0, FALSE)
      BY <1>2, <2>3 DEF ThreadCall, Called
    <3>2. QED
      BY <3>1
  <2>4. QED
    BY <2>1, <2>2, <2>3
<1>3. QED
  BY <1>1, <1>2

LEMMA StepKeeps == ASSUME TimersInv, [TimersNext]_timersVars PROVE TimersInv'
<1>1. CASE ThreadCall \/ IsrCall
  BY <1>1, CallsAreCalls, CallKeeps
<1>2. CASE TimerUpdate
  BY <1>2, UpdateKeeps
<1>3. CASE Visit
  BY <1>3, VisitKeeps
<1>4. CASE Notify
  BY <1>4, NotifyKeeps
<1>5. CASE WalkDone
  BY <1>5, WalkDoneKeeps
<1>6. CASE Tick
  BY <1>6, TickKeeps
<1>7. CASE Handle
  <2>1. UNCHANGED <<callVars, lag, walkVars>> /\ raised' \subseteq raised
    BY <1>7 DEF Handle
  <2>2. QED
    BY <2>1, RestKeeps
<1>8. CASE UNCHANGED timersVars
  <2>1. UNCHANGED <<callVars, lag, walkVars>> /\ raised' \subseteq raised
    BY <1>8 DEF timersVars
  <2>2. QED
    BY <2>1, RestKeeps
<1>9. QED
  BY <1>1, <1>2, <1>3, <1>4, <1>5, <1>6, <1>7, <1>8 DEF TimersNext, Walk

LEMMA TimersInvKept == TimersSpec => []TimersInv
<1>1. TimersInit => TimersInv
  BY InitHolds
<1>2. TimersInv /\ [TimersNext]_timersVars => TimersInv'
  BY StepKeeps
<1>3. QED
  BY <1>1, <1>2, PTL DEF TimersSpec

\* The walk of osalTimerUpdate meets no freed record and no wrong neighbour
\* whatever interrupts append meanwhile, osalFindTimer has at most one record
\* to find, and no timer is late by more than the main loop is.
THEOREM TimersAreSound == TimersSpec => []TimersSound
<1>1. TimersInv => TimersSound
  <2> SUFFICES ASSUME TimersInv PROVE TimersSound
    OBVIOUS
  <2>1. WalkSafe
    BY ListIsSafe DEF TimersInv
  <2>2. OneRecordPerTimer
    <3>1. ASSUME NEW tm \in Timer PROVE Cardinality(Found(tm)) <= 1
      <4>1. CASE Found(tm) = {}
        BY <4>1, FS_EmptySet
      <4>2. CASE Found(tm) # {}
        <5>1. PICK r \in Found(tm) : TRUE
          BY <4>2
        <5>2. Found(tm) = {r}
          <6>1. r \in Linked /\ rec[r].flag /\ rec[r].id = tm
            BY <5>1 DEF Found
          <6>2. \A s \in Found(tm) : s = r
            BY <6>1 DEF Found, TimersInv, FoundAlone
          <6> QED
            BY <5>1, <6>2
        <5>3. Cardinality({r}) = 1
          BY FS_Singleton
        <5>4. QED
          BY <5>2, <5>3
      <4>3. QED
        BY <4>1, <4>2
    <3>2. QED
      BY <3>1 DEF OneRecordPerTimer
  <2>3. QED
    BY <2>1, <2>2 DEF TimersInv, TimersSound
<1>2. QED
  BY <1>1, TimersInvKept, PTL

-----------------------------------------------------------------------------
(* The list does what OsalTimerService promises. *)

modeNow    == [tm \in Timer |-> Mode(tm)]
expiredNow == {tm \in Timer : /\ walkPc = "notify" /\ rec[freeTimer].flag
                              /\ rec[freeTimer].id = tm}

\* A timer that is found with the reload it had is in the mode it was in.
LEMMA ModeStays ==
    ASSUME NEW tm \in Timer, Found(tm)' = Found(tm),
           \A r \in Found(tm) : rec'[r].reload = rec[r].reload
    PROVE  Mode(tm)' = Mode(tm)
<1>1. Found(tm)' = {} <=> Found(tm) = {}
  OBVIOUS
<1>2. (\E r \in Found(tm)' : rec'[r].reload > 0) <=> (\E r \in Found(tm) : rec[r].reload > 0)
  <2> HIDE DEF Found
  <2>1. QED
    OBVIOUS
<1>3. QED
  BY <1>1, <1>2 DEF Mode

LEMMA ModesStay ==
    ASSUME \A tm \in Timer : Mode(tm)' = Mode(tm)
    PROVE  modeNow' = modeNow
BY DEF modeNow

LEMMA OneModeChanges ==
    ASSUME NEW tm \in Timer, \A t \in Timer : t # tm => Mode(t)' = Mode(t)
    PROVE  modeNow' = [modeNow EXCEPT ![tm] = Mode(tm)']
BY DEF modeNow

\* The one record that carries the event flag of a timer tells its mode.
LEMMA FoundIsMode ==
    ASSUME TimersInv, NEW tm \in Timer, NEW r \in Found(tm)
    PROVE  Found(tm) = {r} /\ Mode(tm) = IF rec[r].reload > 0 THEN "periodic" ELSE "once"
<1>1. Found(tm) = {r}
  BY DEF Found, TimersInv, FoundAlone
<1>2. QED
  BY <1>1 DEF Mode

\* The records that are found are linked; the one to be freed is not.
LEMMA FoundIsKnown ==
    ASSUME TimersInv
    PROVE  /\ \A tm \in Timer : Found(tm) \subseteq Linked
           /\ Linked \subseteq Rec
           /\ walkPc = "notify" => freeTimer \in Rec /\ freeTimer \notin Linked
<1>1. Linked \subseteq Rec
  BY AheadLinked DEF TimersInv
<1>2. walkPc = "notify" => freeTimer \in Rec /\ freeTimer \notin Linked
  BY DEF TimersInv, LocalsKept, TimersTypeOK, Pointer
<1>3. QED
  BY <1>1, <1>2 DEF Found

\* Records that keep their identity leave every timer in its mode.
LEMMA RecordsSameModes ==
    ASSUME Linked' = Linked,
           \A s \in Linked : /\ rec'[s].id = rec[s].id /\ rec'[s].flag = rec[s].flag
                             /\ rec'[s].reload = rec[s].reload
    PROVE  modeNow' = modeNow
<1>1. ASSUME NEW tm \in Timer PROVE Mode(tm)' = Mode(tm)
  <2>1. Found(tm)' = Found(tm)
    BY DEF Found
  <2>2. \A r \in Found(tm) : rec'[r].reload = rec[r].reload
    BY DEF Found
  <2>3. QED
    BY <2>1, <2>2, ModeStays
<1>2. QED
  BY <1>1, ModesStay

LEMMA ExpiredStay ==
    ASSUME UNCHANGED <<walkPc, freeTimer>>,
           walkPc = "notify" => /\ rec'[freeTimer].flag = rec[freeTimer].flag
                                /\ rec'[freeTimer].id = rec[freeTimer].id
    PROVE  expiredNow' = expiredNow
BY DEF expiredNow

\* osal_start_timerEx and osal_start_reload_timer.
LEMMA RestartServes ==
    ASSUME TimersInv, NEW tm \in Timer, NEW timeout \in Nat, NEW reload \in BOOLEAN,
           Restart(tm, timeout, reload), UNCHANGED <<raised, lag, walkVars>>
    PROVE  Service!Start(tm) \/ Service!StartReload(tm)
<1>1. PICK r \in Found(tm) :
        rec' = [rec EXCEPT ![r].timeout = timeout, ![r].due = timeout,
                           ![r].reload = IF reload THEN timeout ELSE @]
  BY DEF Restart
<1>2. /\ r \in Linked /\ r \in Rec /\ Found(tm) = {r}
      /\ Mode(tm) = IF rec[r].reload > 0 THEN "periodic" ELSE "once"
  BY FoundIsMode, FoundIsKnown
<1>3. Linked' = Linked /\ Linked \subseteq Rec
  BY ListStays, AheadLinked DEF TimersInv, Restart, listVars, walkVars
<1>4. /\ \A s \in Rec : /\ rec'[s].id = rec[s].id /\ rec'[s].flag = rec[s].flag
                        /\ s # r => rec'[s] = rec[s]
      /\ rec'[r].reload = IF reload THEN timeout ELSE rec[r].reload
  BY <1>1, <1>2 DEF TimersInv, TimersTypeOK, Record
<1>5. \A t \in Timer : Found(t)' = Found(t)
  BY <1>3, <1>4 DEF Found
<1>6. \A t \in Timer : t # tm => Mode(t)' = Mode(t)
  <2>1. ASSUME NEW t \in Timer, t # tm PROVE Mode(t)' = Mode(t)
    <3>1. \A s \in Found(t) : s \in Rec /\ s # r
      BY <1>2, <1>3, <2>1 DEF Found
    <3>2. QED
      BY <1>4, <1>5, <3>1, ModeStays
  <2>2. QED
    BY <2>1
<1>7. Mode(tm)' = IF (IF reload THEN timeout ELSE rec[r].reload) > 0 THEN "periodic" ELSE "once"
  BY <1>2, <1>4, <1>5 DEF Mode
<1>8. modeNow' = [modeNow EXCEPT ![tm] = Mode(tm)'] /\ modeNow[tm] = Mode(tm)
  BY <1>6, OneModeChanges DEF modeNow
<1>9. expiredNow' = expiredNow
  <2>1. walkPc = "notify" => freeTimer \in Rec
    BY FoundIsKnown
  <2>2. QED
    BY <1>4, <2>1, ExpiredStay DEF walkVars
<1>10. CASE reload
  <2>1. Mode(tm)' \in {"once", "periodic"}
    BY <1>7
  <2>2. QED
    BY <1>8, <1>9, <2>1 DEF Service!StartReload, modeNow, expiredNow
<1>11. CASE ~ reload
  <2>1. Mode(tm)' = IF modeNow[tm] = "periodic" THEN modeNow[tm] ELSE "once"
    BY <1>2, <1>7, <1>8, <1>11
  <2>2. modeNow' = [modeNow EXCEPT ![tm] = IF @ = "periodic" THEN @ ELSE "once"]
    BY <1>8, <2>1
  <2>3. QED
    BY <1>9, <2>2 DEF Service!Start, modeNow, expiredNow
<1>12. QED
  BY <1>10, <1>11

LEMMA AddServes ==
    ASSUME TimersInv, NEW tm \in Timer, NEW timeout \in Nat, NEW reload \in BOOLEAN,
           Add(tm, timeout, reload), UNCHANGED <<raised, lag, walkVars>>
    PROVE  Service!Start(tm) \/ Service!StartReload(tm)
<1>1. PICK r \in Rec \ Used :
        /\ rec' = [rec EXCEPT ![r] = NewRecord(tm, timeout, reload)]
        /\ IF timerHead = NULL
           THEN timerHead' = r /\ next' = [next EXCEPT ![r] = NULL]
           ELSE \E last \in Linked :
                  /\ next[last] = NULL
                  /\ next' = [next EXCEPT ![last] = r, ![r] = NULL]
                  /\ UNCHANGED timerHead
  BY DEF Add
<1>2. r \in Rec /\ r \notin Linked /\ r # freeTimer /\ Linked \subseteq Rec
  BY RecAssumption, AheadLinked DEF Used, TimersInv
<1>3. /\ \A s \in Rec : s # r => rec'[s] = rec[s]
      /\ rec'[r] = NewRecord(tm, timeout, reload)
  BY <1>1 DEF TimersInv, TimersTypeOK
<1>4. rec'[r].id = tm /\ rec'[r].flag /\ rec'[r].reload = IF reload THEN timeout ELSE 0
  BY <1>3 DEF NewRecord
<1>5. Linked' = Linked \cup {r}
  BY <1>1, <1>2, RecordAdded DEF TimersInv, walkVars
<1>6. Found(tm) = {} /\ Found(tm)' = {r} /\ \A t \in Timer : t # tm => Found(t)' = Found(t)
  <2>1. Found(tm) = {}
    BY DEF Add
  <2>2. \A s \in Linked : rec'[s] = rec[s] /\ s # r
    BY <1>2, <1>3
  <2>3. Found(tm)' = {r}
    BY <1>4, <1>5, <2>1, <2>2 DEF Found
  <2>4. ASSUME NEW t \in Timer, t # tm PROVE Found(t)' = Found(t)
    BY <1>4, <1>5, <2>2, <2>4 DEF Found
  <2>5. QED
    BY <2>1, <2>3, <2>4
<1>7. \A t \in Timer : t # tm => Mode(t)' = Mode(t)
  <2>1. ASSUME NEW t \in Timer, t # tm PROVE Mode(t)' = Mode(t)
    <3>1. \A s \in Found(t) : rec'[s] = rec[s]
      BY <1>2, <1>3 DEF Found
    <3>2. QED
      BY <1>6, <2>1, <3>1, ModeStays
  <2>2. QED
    BY <2>1
<1>8. Mode(tm) = "off" /\ Mode(tm)' = IF (IF reload THEN timeout ELSE 0) > 0 THEN "periodic" ELSE "once"
  BY <1>4, <1>6 DEF Mode
<1>9. modeNow' = [modeNow EXCEPT ![tm] = Mode(tm)'] /\ modeNow[tm] = Mode(tm)
  BY <1>7, OneModeChanges DEF modeNow
<1>10. expiredNow' = expiredNow
  <2>1. walkPc = "notify" => freeTimer \in Rec
    BY FoundIsKnown
  <2>2. QED
    BY <1>2, <1>3, <2>1, ExpiredStay DEF walkVars
<1>11. CASE reload
  <2>1. Mode(tm)' \in {"once", "periodic"}
    BY <1>8
  <2>2. QED
    BY <1>9, <1>10, <2>1 DEF Service!StartReload, modeNow, expiredNow
<1>12. CASE ~ reload
  <2>1. modeNow' = [modeNow EXCEPT ![tm] = IF @ = "periodic" THEN @ ELSE "once"]
    BY <1>8, <1>9, <1>12
  <2>2. QED
    BY <1>10, <2>1 DEF Service!Start, modeNow, expiredNow
<1>13. QED
  BY <1>11, <1>12

LEMMA StopServes ==
    ASSUME TimersInv, NEW tm \in Timer, walkPc = "idle", Stop(tm), UNCHANGED <<raised, lag, walkVars>>
    PROVE  Service!Stop(tm)
<1>1. Linked' = Linked /\ Linked \subseteq Rec
  BY ListStays, AheadLinked DEF TimersInv, Stop, listVars, walkVars
<1>2. /\ \A s \in Rec \ Found(tm) : rec'[s] = rec[s]
      /\ \A s \in Found(tm) : rec'[s].flag = FALSE
  BY <1>1 DEF Stop, Found, TimersInv, TimersTypeOK, Record
<1>3. Found(tm)' = {}
  BY <1>1, <1>2 DEF Found
<1>4. ASSUME NEW t \in Timer, t # tm PROVE Mode(t)' = Mode(t)
  <2>1. \A s \in Linked : /\ rec[s].id = t /\ rec[s].flag => s \notin Found(tm)
                          /\ s \notin Found(tm) => rec'[s] = rec[s]
    BY <1>1, <1>2, <1>4 DEF Found
  <2>2. Found(t)' = Found(t)
    <3>1. \A s \in Linked : s \in Found(tm) => ~ rec'[s].flag
      BY <1>2
    <3>2. QED
      BY <1>1, <2>1, <3>1 DEF Found
  <2>3. \A s \in Found(t) : rec'[s] = rec[s]
    BY <2>1 DEF Found
  <2>4. QED
    BY <2>2, <2>3, ModeStays
<1>5. modeNow' = [modeNow EXCEPT ![tm] = "off"]
  <2>1. Mode(tm)' = "off"
    BY <1>3 DEF Mode
  <2>2. QED
    BY <1>4, <2>1, OneModeChanges
<1>6. expiredNow = {} /\ expiredNow' = {}
  BY DEF expiredNow, walkVars
<1>7. QED
  BY <1>5, <1>6 DEF Service!Stop, modeNow, expiredNow

LEMMA VisitServes ==
    ASSUME TimersInv, Visit
    PROVE  [Service!Next]_(Service!serviceVars)
<1>1. PICK r \in Rec : r = srchTimer /\ r \in Linked
  BY OneVisited, AheadLinked DEF TimersInv
<1>2. PICK tm \in Timer : tm = rec[r].id
  BY DEF TimersInv, TimersTypeOK, Record
<1>3. /\ r \in Linked /\ Linked \subseteq Rec /\ rec[r] \in Record
      /\ tm = rec[r].id
      /\ Linked' = IF Drops(r) THEN Linked \ {r} ELSE Linked
  BY <1>1, <1>2, OneVisited, AheadLinked DEF TimersInv, TimersTypeOK
<1>4. \A s \in Rec : /\ rec'[s].id = rec[s].id /\ rec'[s].flag = rec[s].flag
                     /\ rec'[s].reload = rec[s].reload
  <2>1. \A s \in Rec : s # r => rec'[s] = rec[s]
    BY <1>1 DEF Visit, TimersInv, TimersTypeOK
  <2>2. rec'[r].id = rec[r].id /\ rec'[r].flag = rec[r].flag /\ rec'[r].reload = rec[r].reload
    BY <1>1, <1>3 DEF Visit, TimersInv, TimersTypeOK, Record
  <2>3. QED
    BY <2>1, <2>2
<1>5. expiredNow = {}
  BY <1>1 DEF Visit, expiredNow
<1>6. CASE ~ Drops(r)
  <2>1. modeNow' = modeNow
    BY <1>3, <1>4, <1>6, RecordsSameModes
  <2>2. expiredNow' = {}
    BY <1>1, <1>6 DEF Visit, expiredNow
  <2>3. CASE Reloads(r)
    <3>1. rec[r].flag /\ rec[r].reload > 0 /\ raised' = raised \cup {tm}
      BY <1>1, <1>2, <2>3 DEF Visit, Reloads, RaisedByReload
    <3>2. modeNow[tm] = "periodic"
      <4>1. r \in Found(tm)
        BY <1>3, <3>1 DEF Found
      <4>2. QED
        BY <1>3, <3>1, <4>1, FoundIsMode DEF modeNow
    <3>3. Service!Fire(tm)
      BY <1>5, <2>1, <2>2, <3>1, <3>2 DEF Service!Fire, modeNow, expiredNow
    <3>4. QED
      BY <1>3, <3>3 DEF Service!Next
  <2>4. CASE ~ Reloads(r)
    <3>1. raised' = raised
      BY <1>1, <2>4 DEF Visit, RaisedByReload
    <3>2. QED
      BY <1>5, <2>1, <2>2, <3>1 DEF Service!serviceVars, modeNow, expiredNow
  <2>5. QED
    BY <2>3, <2>4
<1>7. CASE Drops(r)
  <2>1. /\ ~ Reloads(r) /\ raised' = raised
        /\ walkPc' = "notify" /\ freeTimer' = r
        /\ rec[r].flag => ~ (rec[r].reload > 0)
    BY <1>1, <1>7 DEF Visit, RaisedByReload, Drops, Reloads
  <2>2. expiredNow' = IF rec[r].flag THEN {tm} ELSE {}
    <3>1. rec'[r].flag = rec[r].flag /\ rec'[r].id = tm
      BY <1>3, <1>4
    <3>2. QED
      BY <1>3, <2>1, <3>1 DEF expiredNow
  <2>3. \A t \in Timer : Found(t)' = Found(t) \ {r}
    BY <1>3, <1>4, <1>7 DEF Found
  <2>4. CASE rec[r].flag
    <3>1. Found(tm) = {r} /\ Mode(tm) = "once"
      <4>1. r \in Found(tm)
        BY <1>3, <2>4 DEF Found
      <4>2. QED
        BY <1>3, <2>1, <2>4, <4>1, FoundIsMode
    <3>2. Mode(tm)' = "off"
      BY <1>3, <2>3, <3>1 DEF Mode
    <3>3. ASSUME NEW t \in Timer, t # tm PROVE Mode(t)' = Mode(t)
      <4>1. r \notin Found(t) /\ \A s \in Found(t) : rec'[s].reload = rec[s].reload
        BY <1>3, <1>4, <3>3 DEF Found
      <4>2. QED
        BY <2>3, <4>1, ModeStays
    <3>4. modeNow' = [modeNow EXCEPT ![tm] = "off"] /\ modeNow[tm] = "once"
      BY <1>3, <3>1, <3>2, <3>3, OneModeChanges DEF modeNow
    <3>5. Service!RunOut(tm)
      BY <1>5, <2>1, <2>2, <2>4, <3>4 DEF Service!RunOut, modeNow, expiredNow
    <3>6. QED
      BY <1>3, <3>5 DEF Service!Next
  <2>5. CASE ~ rec[r].flag
    <3>1. ASSUME NEW t \in Timer PROVE Mode(t)' = Mode(t)
      <4>1. r \notin Found(t) /\ \A s \in Found(t) : rec'[s].reload = rec[s].reload
        BY <1>3, <1>4, <2>5 DEF Found
      <4>2. QED
        BY <2>3, <4>1, ModeStays
    <3>2. modeNow' = modeNow
      BY <3>1, ModesStay
    <3>3. QED
      BY <1>5, <2>1, <2>2, <2>5, <3>2 DEF Service!serviceVars, modeNow, expiredNow
  <2>6. QED
    BY <2>4, <2>5
<1>8. QED
  BY <1>6, <1>7

LEMMA NotifyServes ==
    ASSUME TimersInv, Notify
    PROVE  [Service!Next]_(Service!serviceVars)
<1>1. freeTimer \in Rec /\ freeTimer \notin Linked /\ Linked \subseteq Rec
  BY FoundIsKnown DEF Notify
<1>2. modeNow' = modeNow
  <2>1. Linked' = Linked
    BY <1>1, RecordFreed DEF Notify, TimersInv
  <2>2. \A s \in Linked : rec'[s] = rec[s]
    BY <1>1 DEF Notify, TimersInv, TimersTypeOK
  <2>3. QED
    BY <2>1, <2>2, RecordsSameModes
<1>3. expiredNow' = {}
  BY DEF Notify, expiredNow
<1>4. PICK tm \in Timer : tm = rec[freeTimer].id
  BY <1>1 DEF TimersInv, TimersTypeOK, Record
<1>5. CASE rec[freeTimer].flag
  <2>1. expiredNow = {tm}
    BY <1>4, <1>5 DEF Notify, expiredNow
  <2>2. raised' = raised \cup {tm}
    BY <1>4, <1>5 DEF Notify, RaisedByExpiry, TimersInv, FreedRanOut
  <2>3. Service!Raise(tm)
    BY <1>2, <1>3, <2>1, <2>2 DEF Service!Raise, modeNow, expiredNow
  <2>4. QED
    BY <1>4, <2>3 DEF Service!Next
<1>6. CASE ~ rec[freeTimer].flag
  <2>1. expiredNow = {} /\ raised' = raised
    BY <1>6 DEF Notify, RaisedByExpiry, expiredNow
  <2>2. QED
    BY <1>2, <1>3, <2>1 DEF Service!serviceVars, modeNow, expiredNow
<1>7. QED
  BY <1>5, <1>6

\* The steps that the service does not see.
LEMMA Unseen ==
    ASSUME TimersInv, UNCHANGED <<timerHead, next, freeTimer>>,
           (walkPc = "notify") = (walkPc' = "notify"),
           \A s \in Rec : /\ rec'[s].id = rec[s].id /\ rec'[s].flag = rec[s].flag
                          /\ rec'[s].reload = rec[s].reload
    PROVE  modeNow' = modeNow /\ expiredNow' = expiredNow
<1>1. Linked' = Linked
  BY DEF Linked, Nth
<1>2. Linked \subseteq Rec /\ (walkPc = "notify" => freeTimer \in Rec)
  BY FoundIsKnown
<1>3. modeNow' = modeNow
  BY <1>1, <1>2, RecordsSameModes
<1>4. expiredNow' = expiredNow
  BY <1>2 DEF expiredNow
<1>5. QED
  BY <1>3, <1>4

LEMMA ThreadOrIsrServes ==
    ASSUME TimersInv, ThreadCall \/ IsrCall
    PROVE  [Service!Next]_(Service!serviceVars)
<1>1. UNCHANGED <<raised, lag, walkVars>>
  BY DEF ThreadCall, IsrCall
<1>2. PICK tm \in Timer, timeout \in Nat, reload \in BOOLEAN :
        Start(tm, timeout, reload) \/ (walkPc = "idle" /\ Stop(tm))
  <2>1. CASE IsrCall
    <3>1. PICK tm \in Timer, n \in 1 .. MaxTimeout : Start(tm, n, FALSE)
      BY <2>1 DEF IsrCall
    <3>2. n \in Nat
      BY BoundAssumption
    <3>3. QED
      BY <3>1, <3>2
  <2>2. CASE ThreadCall
    <3>1. PICK tm \in Timer : \/ \E n \in 0 .. MaxTimeout, reload \in BOOLEAN : Start(tm, n, reload)
                              \/ Stop(tm)
      BY <2>2 DEF ThreadCall
    <3>2. CASE Stop(tm)
      <4>1. walkPc = "idle" /\ 0 \in Nat /\ FALSE \in BOOLEAN
        BY <2>2 DEF ThreadCall
      <4>2. QED
        BY <3>2, <4>1
    <3>3. CASE \E n \in 0 .. MaxTimeout, reload \in BOOLEAN : Start(tm, n, reload)
      BY <3>3, BoundAssumption
    <3>4. QED
      BY <3>1, <3>2, <3>3
  <2>3. QED
    BY <2>1, <2>2
<1>3. CASE Restart(tm, timeout, reload)
  BY <1>1, <1>3, RestartServes DEF Service!Next
<1>4. CASE Add(tm, timeout, reload)
  BY <1>1, <1>4, AddServes DEF Service!Next
<1>5. CASE AddFails(tm)
  <2>1. modeNow' = modeNow /\ expiredNow' = expiredNow
    BY <1>1, <1>5, Unseen DEF AddFails, listVars, walkVars
  <2>2. QED
    BY <1>1, <2>1 DEF Service!serviceVars, modeNow, expiredNow
<1>6. CASE walkPc = "idle" /\ Stop(tm)
  BY <1>1, <1>6, StopServes DEF Service!Next
<1>7. QED
  BY <1>2, <1>3, <1>4, <1>5, <1>6 DEF Start

\* The list of records, walked in pieces with interrupts between them, does
\* what OsalTimerService promises: an event is raised only for a timer that
\* was started and not stopped before it ran out, one that runs once raises
\* it once per start, and a periodic one stays so until it is stopped.
THEOREM TimersImplementService == TimersSpec => ServiceSpec
<1>1. TimersInit => Service!Init
  <2> SUFFICES ASSUME TimersInit PROVE Service!Init
    OBVIOUS
  <2>1. WalkedTo(0, [i \in 1 .. 0 |-> NULL], 1)
    BY DEF TimersInit, WalkedTo, IsList, At
  <2>2. Linked = {}
    BY <2>1, ListSets DEF SetsKnown
  <2>3. \A tm \in Timer : Mode(tm) = "off"
    BY <2>2 DEF Mode, Found
  <2>4. QED
    BY <2>3 DEF TimersInit, Service!Init
<1>2. TimersInv /\ [TimersNext]_timersVars => [Service!Next]_(Service!serviceVars)
  <2> SUFFICES ASSUME TimersInv, [TimersNext]_timersVars PROVE [Service!Next]_(Service!serviceVars)
    OBVIOUS
  <2>1. ASSUME modeNow' = modeNow, expiredNow' = expiredNow, raised' = raised
        PROVE  Service!serviceVars' = Service!serviceVars
    BY <2>1 DEF Service!serviceVars, modeNow, expiredNow
  <2>2. CASE ThreadCall \/ IsrCall
    BY <2>2, ThreadOrIsrServes
  <2>3. CASE Visit
    BY <2>3, VisitServes
  <2>4. CASE Notify
    BY <2>4, NotifyServes
  <2>5. CASE TimerUpdate \/ WalkDone
    <3>1. /\ UNCHANGED <<callVars, raised, freeTimer>>
          /\ walkPc # "notify" /\ walkPc' # "notify"
      BY <2>5 DEF TimerUpdate, WalkDone
    <3>2. modeNow' = modeNow /\ expiredNow' = expiredNow
      BY <3>1, Unseen DEF callVars, listVars
    <3>3. QED
      BY <2>1, <3>1, <3>2
  <2>6. CASE Tick
    <3>1. UNCHANGED <<listVars, raised, walkVars>>
      BY <2>6 DEF Tick
    <3>2. \A s \in Rec : /\ rec'[s].id = rec[s].id /\ rec'[s].flag = rec[s].flag
                         /\ rec'[s].reload = rec[s].reload
      <4> TAKE s \in Rec
      <4>1. rec'[s] = [rec[s] EXCEPT !.due = IF rec[s].due = 0 THEN 0 ELSE rec[s].due - 1]
        BY <2>6 DEF Tick
      <4>2. rec[s] \in Record
        BY DEF TimersInv, TimersTypeOK
      <4>3. QED
        BY <4>1, <4>2 DEF Record
    <3>3. modeNow' = modeNow /\ expiredNow' = expiredNow
      BY <3>1, <3>2, Unseen DEF listVars, walkVars
    <3>4. QED
      BY <2>1, <3>1, <3>3
  <2>7. CASE Handle
    <3>1. UNCHANGED <<callVars, walkVars>>
      BY <2>7 DEF Handle
    <3>2. modeNow' = modeNow /\ expiredNow' = expiredNow
      BY <3>1, Unseen DEF callVars, listVars, walkVars
    <3>3. PICK tm \in raised : raised' = raised \ {tm}
      BY <2>7 DEF Handle
    <3>4. tm \in Timer /\ Service!Handle(tm)
      BY <3>2, <3>3 DEF Service!Handle, modeNow, expiredNow, TimersInv, TimersTypeOK
    <3>5. QED
      BY <3>4 DEF Service!Next
  <2>8. CASE UNCHANGED timersVars
    <3>1. UNCHANGED <<callVars, raised, walkVars>>
      BY <2>8 DEF timersVars
    <3>2. modeNow' = modeNow /\ expiredNow' = expiredNow
      BY <3>1, Unseen DEF callVars, listVars, walkVars
    <3>3. QED
      BY <2>1, <3>1, <3>2
  <2>9. QED
    BY <2>2, <2>3, <2>4, <2>5, <2>6, <2>7, <2>8 DEF TimersNext, Walk
<1>3. QED
  BY <1>1, <1>2, TimersInvKept, PTL DEF TimersSpec, ServiceSpec, Service!Spec
=============================================================================
