# A verification project for the ZStack-sensor firmware

TLA+ modules, TLC configurations and TLAPS proofs about the firmware in this
repository: TI's Z-Stack for the CC2530 (`src/Components`, about 63 000 lines
of C) and the sensor application built on it (`src/Projects/GenericApp/Source`,
9 500 lines). Three programs are built from it: a coordinator, a router
(`SENSOR_TYPE=0X31`) and a sleeping end device (`POWER_SAVING`,
`SENSOR_TYPE=0X37`); other values of `SENSOR_TYPE` build some sixty other nodes.
The cluster library, SAPI and the inter-PAN stub are in the tree and in no
project file; they are modelled as the tree's users build them.

The firmware runs on one 8051 core without an operating system underneath:
one endless loop (`osal_start_system`), the tasks it calls, and interrupt
service routines (ISRs) that run to completion between any two instructions
outside a critical section. So most of what is hard here is the same question
in many places: *what if an ISR, the DMA controller, the next byte or a loss of
power comes exactly now?* A test bench seldom hits that instant; a model
checker tries them all.

The closed parts (the NWK, APS and high-level MAC libraries, the hardware) are
not modelled from anybody's description: they appear only as free choices, or
as small external actions taken from how the code here uses them.

## 1. Inventory

| Component | State | Operations | Interacts with | Hard |
|---|---|---|---|---|
| OSAL kernel, `OSAL.c` | `tasksEvents[]`, `osal_qHead`, a header per buffer | allocate, deallocate, send, receive, set event, the loop | tasks by call; ISRs by events and messages | interrupts between mark, queue and signal; events taken and put back |
| OSAL timers, `OSAL_Timers.c` | `timerHead` list, timeouts, reloads | start, reload, stop, `osalTimerUpdate` | clock by call; tasks by events; ISRs start timers | the list changes during its traversal; time taken off too early |
| OSAL clock, `OSAL_Clock.c` | last tick, remainder, milliseconds, seconds | `osalTimeUpdate`, `osalClockUpdate`, UTC conversion | MAC timer, timers | 16-bit wraps, remainders |
| OSAL heap, `OSAL_Memory.c` | block headers, `ff1`, `ff2` | alloc, free, kick | everything | joining of blocks long after they are freed |
| OSAL NV, `OSAL_Nv.c` | flash pages of items; `pgOff`, `pgLost`, `pgRes`, hot items in RAM | init, item init, read, write, compaction | start-up, ZDO, application | loss of power between any two flash writes |
| Power manager and sleep, `OSAL_PwrMgr.c`, `hal_sleep.c` | tasks' vote, `halSleepPconValue`, sleep timer | power conserve, power mode, idle mode | loop, ISRs, radio, timers | an ISR on the way to sleep |
| HAL UART by DMA, `_hal_uart_dma.c` | double transmit buffer, receive ring, shadow times | write, poll, DMA-done ISR, read | loop, host | buffer exchange against the ISR; byte timer that wraps |
| Serial bridge and resend queue, `MT_UART.c`, `GenericApp.c` | parser state, `Send_data`, `AF_RF`, slots `chnnd`, retry counters | frame reception, `GenericAppCoordEB` | host, AF | one shared buffer; several counters that must agree |
| Node application, `GenericApp.c` | buffer, switch, timing bits, motor counters, pins | commands, the tick EB, timer 3, buttons, serial sensors | AF, HAL | one set of flags for commands, ticks, buttons and answers |
| Sensor parsers, `MT_UART.c` | state, window or count, length | one callback per kind of sensor | UART driver | pieces; being in step again after noise |
| MAC low level, `mac_tx.c`, `mac_rx.c`, `mac_rx_onoff.c`, ... | transmit and receive states, what is queued, receiver on by whom | transmit, receive ISRs, CSP exits, on and off, channel, sleep, reset | radio ISRs, MAC library | interlock of transmit, receive and sleep |
| AF and the inter-PAN stub, `AF.c`, `stub_aps.c` | endpoint list, requests under way, channel | register, request, confirm, incoming, change of channel | APS and MAC libraries | confirms under reused numbers; half-done moves |
| ZDO device application, `ZDApp.c` | `devState`, start mode, `nwkStatus`, timers, NV state | start, discovery, join, rejoin, authentication, leave, restart | NWK library, timers, NV | confirmations out of turn, dropped messages |
| ZDO services and pairing, `ZDObject.c`, `ZDProfile.c` | tables read in pages; `matchED` | every request, answer and end device bind | other devices | layouts written twice by hand; crossing requests |
| ZDO network manager, `ZDNwkMgr.c` | failure counts, channel change state | interference report, energy scan, channel and PAN id change | NWK library | reports and updates that cross |
| Security manager, `ZDSecMgr.c` | entries, control records, key table, NV keys, frame counters | join, SKKE, key transport, removal, restart | APS library, NV | an exchange that outlives its device's joining |
| ZCL, `zcl*.c` | attribute lists, scenes, alarms, zones, key establishment records | foundation commands, cluster commands, key establishment | AF, application callbacks, NV | writer and reader apart; exactly one answer on each path |
| SAPI, `sapi.c` | request under way, timers | start, bind, allow bind, find, send | ZDO, AF | answers that name no request |
| Monitor and test, `MT*.c` | store of long messages | a command per function of the stack, reports | host, all of the stack | 130 handlers, each with its own answer and lengths |
| Drivers, globals, ZMAC | settings | marshalling, lookups | all | little control state |

What makes each correct: *kernel* -- an announced message or event is never
lost, buffers belong to one holder at a time, each task gets its messages in
order; *timers* -- a timer fires if and only if it was started and not stopped,
never late, once; *clock* -- exact to the tick; *heap* -- blocks never overlap and
room that exists is found; *NV* -- an item is never lost, whatever is cut
short; *sleep* -- never with work waiting; *UART* -- bytes leave once, in order;
*bridge* -- a frame the radio refused is sent again, as it was, within bounds;
*nodes* -- what a node tells is so, and what a command started ends; *MAC* -- the
receiver is on when wanted and each request is completed once; *ZDO* -- a device
ends in its network with the key, or starts again; *security* -- no key goes to
a device of an earlier joining, no frame counter is used twice; *messages* (ZDO,
ZCL, MT) -- what one side writes the other reads, and each request is answered
once.

The components of the tree that are not modelled are listed with their reasons
in section 8 and in `PROJECT.json`, where the hazards are listed line by line.

## 2. Modules

| Module | What it is |
|---|---|
| `OsalKernel` | the loop, events and messages, with ISRs at every point |
| `OsalMailbox` | abstract: what the message calls promise |
| `OsalTimers` | the timer list and its interruptible traversal |
| `OsalTimerService` | abstract: what the timer calls promise |
| `OsalProofs` | theorems about `OsalKernel`, and about `OsalTimers`: the list is sound, and implements the service |
| `OsalClock` | tick conversion |
| `OsalMemory` | the heap |
| `OsalNv` | the NV file system, one flash operation per step |
| `NvStore` | abstract: a store whose calls are atomic even if power fails |
| `OsalSleep` | the loop's way to sleep; a small composition of loop, timers, power manager and `halSleep` |
| `HalUartTx` | the UART's transmit side |
| `HalUartRx` | the receive ring between the DMA controller and the reader |
| `HalProofs` | theorems about both, and about `OsalSleep` |
| `CoordBridge` | serial parser, shared frame buffer and resend queue |
| `NodeApp` | the nodes: commands, ticks, buttons, answers, for each kind |
| `SensorLink` | the sensors' serial parsers, one record per kind |
| `MacRadio`, `MacRadioProofs` | the low level of the MAC with the radio and its CSP, and its theorem |
| `ZdApp` | the device application, from start to network and back |
| `ZdSecTables`, `ZdSecMgr` | the trust centre: its tables, and the joining of devices |
| `ZdProofs` | theorems about both sides of joining, `ZdApp` and `ZdSecMgr` |
| `ZdLinkKeys` | link keys, master keys and frame counters over restarts |
| `Layouts` | messages as lists of fields, written and read |
| `ZdpFrames`, `ZdoServices` | the ZDO's messages, and requests served from the tables |
| `ZdBindMatch` | pairing two devices by their buttons |
| `ZdNwkMgr` | the network manager and the other routers |
| `AfData` | endpoints, data, confirms; the inter-PAN stub |
| `ServicesProofs` | theorems about `CoordBridge`, `ZdBindMatch`, `AfData` and `NodeApp` |
| `ZclFoundation` | the foundation's commands between a client and a server |
| `ZclClusters`, `ZclHome` | the clusters' commands from writer to callback and answer |
| `ZclScenes` | scenes, groups and alarms, with their NV items |
| `ZclKeyEstablish` | two or more devices agreeing on keys |
| `ProtocolProofs` | theorems about `ZdNwkMgr`, `ZclKeyEstablish` and `ZclScenes` |
| `Sapi` | the simple API and its binding table |
| `StoresProofs` | theorems about `OsalClock`, `OsalMemory`, `Sapi` and `ZdLinkKeys` |
| `MtRpc`, `MtTask`, `MtData`, `MtStack` | monitor and test: dispatcher, its task, system commands and host, AF and SAPI commands, MAC, NWK and ZDO commands |
| `MCCore`, `MCHal`, `MCDevice`, `MCStores`, `MCZcl`, `MCServices` | values for TLC, see section 3 |

Definitions carry the names of the C functions and variables they model
(`osal_mem_alloc`, `chnnd`, `txShdwValid`, ...); `map` in `PROJECT.json` gives the
lines of each. An operator whose comment says *Mutant* is a deliberately wrong
variant of the definition after it, used by no specification. Put in its place
it must break the property it is listed with: this shows that the property
depends on the code it is about.

### OsalKernel

A step is one critical section or one unprotected access to shared data. The
loop's position is `pc` with its locals `idx` and `events`. `osal_msg_send` marks the buffer
(`OSAL.c:508`), queues it (511) and signals the receiver (514), with interrupts possible in between.
`CallSend` is the first two together: a buffer marked and not yet queued is known to its sender alone, so
an ISR there finds nothing else than before or after. `Signal` is apart, with any ISR
in between (`signal` holds the receiver meanwhile; an ISR's own send is whole, since ISRs
do not nest). The handler of a task
is the usual Z-Stack handler: it takes `SYS_EVENT_MSG` first and receives until
there is no message, then one bit per call, and drops bits it does not know; its calls
are free (`Calls`). `osal_msg_receive` sets or clears the message event by whether a second message is
waiting.
`EventsNotLost` is about the hazard of line 1077: the bits a handler gives back are
or-ed into a word ISRs have changed since. `MailboxSpec` is the refinement: `box[t]` is the
subsequence of the queue that is addressed to `t` (`EntriesAt`, by the ranks of its places, so that it can be proved about), `held` are the allocated buffers outside it.
`osal_msg_push`, `osal_msg_enqueue_max`, `osal_msg_dequeue` and `osal_clear_event` have no
callers outside this file and are not actions of their own.

### OsalTimers

Records are blocks with a `next`; traversal (`srchTimer`, `prevTimer`, `freeTimer`) is in the steps its
critical sections cut it into: `Visit`, then `Notify`, where the task is told and the record freed
with interrupts on. Threads call between traversals; ISRs (`IsrCall`; the key interrupt is one)
at any time. `due` is a history field: the earliest time by the caller's own clock at which the timer may
fire. `NeverLate` relates it to what the record still shows. The converse is not claimed: a timer expires early by the
time that had passed between the last update and its start (`lag`).
`ServiceSpec`: the list implements a set of timers in three modes, and stopping a timer that
has not run out keeps it from firing.

### OsalClock

`elapsedMSec` is the code's arithmetic, 16-bit wrap included, at its real constants
(8188, 25, 65536). Only the gap between two calls varies. `ClockExact` says that 25 ticks
of 320 us are 8 ms to the last remainder.

### OsalMemory

A header is a pair of a length (`len`) and membership in `inUse`. The scan of `osal_mem_alloc` is one
critical section, and the model gives its effect: the free blocks at which it begins to join
(`Heads`), how far each is joined (`Joined`), and which of them it comes by before one fits (`Visited`).
`live` and `parked` are history: what callers hold, and what was free at the kick.
Alignment is to one byte, as on this target; the profiler and the metrics are not built.

### OsalNv

Pages hold equal slots; a slot is erased, a copy of an item, a zeroed header or a torn one.
A call computes the sequence of flash writes the code makes (`todo`) and
each step does one; `Call` is a write or item init at the interface, `Return` its end.
Reads change nothing the model keeps. `giveUp` holds what the code does when a new copy does not verify.
Power can fail at every step; then RAM is gone and `osal_nv_init` runs in its steps:
scan, page by page erase or repair, the interrupted compaction, the reserve. A page erase that
is cut short leaves any subset of its slots, and clears the two words of its header together or (a failure of
kind `"tear"`) one by one. `Fault` is a flash write without effect (`FaultOps`, at most
`MaxFaults`). `failed` remembers the kind of failure: a behaviour has power failures or flash writes that fail, not
both, and after a torn header only `osal_nv_init` is followed. What a property says of each kind is in its
premise: `OneCopy`, `CountersAgree` and `NvStore` are not claimed for torn headers (they do not hold; neither does
the comment at `OSAL_Nv.c:294`, on the lost count of the page `initNV` then erases), `ReserveReady` is, and
`ReserveReady` is not claimed when the mark of a page in use was not written. `call` and `before` are history. Not modelled: item lengths, checksum collisions and writes at
an offset, which all go through the same sequence of operations.
`StoreSpec` is the property that matters: seen through `osal_nv_read` the store is `NvStore`, whose calls
happen entirely or not at all.

### OsalSleep

The loop with `POWER_SAVING` in one dimension of interest: between the moment it looks for
events and the moment the processor stops. Events are a set of tasks, timers a function to timeouts
(list and traversal are `OsalTimers`' matter), `lag` the time not yet taken off them. A stretch with interrupts off is
one step; `pmWindow` and `idleWindow` are the places just before PCON is written, with
interrupts on again. Writing PCON is one instruction that reads `halSleepPconValue` as it
executes. In a power mode only the key and the sleep timer
are left enabled. Whether the radio agrees and what
`MAC_PwrNextTimeout` answers are free choices; so are the device's and the application's consent in
`PowerConserve`. `zgPollRate` decides whether a sleep without a timeout is a power mode (`hal_sleep.c:287`); joining, leaving and key
establishment set it, so each call of `halSleep` finds any of `PollRates`: none, or one as in the device as built (`POLL_RATE`, 1000).
With one, and no timeout, the processor idles without an alarm, whatever an ISR has raised meanwhile. `Rollover` is what ends that at the latest:
the compare interrupt of the MAC timer, which always has a compare value set (`macBackoffTimerSetRollover`, at first 15 728 640 backoffs, 84 minutes).
`GenericAppEndDeviceEB`, called in some rounds and after a sleep, may raise events.
Unit conversion, the correction for the time halSleep takes itself and the cap at 510 s are left out.

### HalUartTx

The builds use UART 0 by DMA. Bytes are numbered as they are accepted, so `NothingLost` (the bytes not yet on
the wire are exactly the accepted ones, in order) sees loss, duplication and exchange.
`HalUARTWriteDMA` reads the index in one critical section, copies with interrupts on and stores the index
in another: `WriteCopy` and `WriteCommit`. Its second copy, for a buffer exchanged meanwhile, cannot run,
since only `HalUARTPollDMA`, on the same thread, exchanges buffers. `txShdw`, the sleep timer's low
byte at the end of a transfer, is compared modulo `SleepTimer` (256 in the hardware). `age` is history: the time since the last byte went out.

### CoordBridge

The coordinator's parser state (`0X00` to `0X02`), the shared `Send_data`, the flag `AF_RF` and
`GenericAppCoordEB` with its slots and counters. A frame is its number, and parts of it are tracked one by one so that
a torn frame shows. Whether AF accepts is a free choice. `GenericAppCoordEB` is called
every thousandth round; each call is one action, in four cases (`CoordIdle`, `CoordPause`, `CoordAccepted`,
`CoordRefused`) that all end with the choice of the next slot and the storing of a failed frame, as in the code.
When all slots are taken a frame is dropped on purpose (the comment says so); a frame completed while
`AF_RF` is set is not offered.

### HalUartRx

An octet is its number; a slot of the ring holds an octet and whether its pad says it is new. The DMA controller
writes (`DmaOctet`) between any two accesses of the driver: `PollTail` finds the tail, `PollCount` counts what is new and tells the application,
`ReadGet` takes an octet, `ReadMark` marks its place as read and moves the head on. `overrun`, `misread`, `came` and `got` are history. The idle timer's shadow wraps as the
transmitter's does. `RingInStep` is claimed as long as no octet was written over an unread one.

### MacRadio

The receive ISRs (start, address, payload, FCS, discard, threshold, overflow), the CSP's two interrupts, and the upper
MAC's calls in as many steps as they have stretches an interrupt can fall between. The air carries right, wrong and
broken acknowledgements, beacons, commands and data, which the filter of a scan tells apart; frames too short for their addresses, and those
a chip of revision A garbles. An interrupt may be held off for any time (the processor stands still while a page of flash is erased, `HalFlashErase`), so `AckTimeout` may come with the ACK
unread in the FIFO, and the CSP's interrupt be served before or after that of the receiver. The FIFO holds one frame; `Overflow` is another on top of it,
flushed in `RxDone` or by the overflow's own interrupt, whichever is first. `acked` and `missed` are history. An ACK with the right number comes only while it is
awaited (within `ackWaitDuration`, as the standard has it). `AssertsHold` are the `MAC_ASSERT`s of the code. `macLowLevelReset` is called with nothing being sent only.

### NodeApp, SensorLink

`NodeApp` is the big `switch` of `GenericApp_MessageMSGCB` and its companions with the kind of node as a
parameter: a node is a record of the program's variables, and each branch a function of it. `SensorLink` is the other half, from sensor to
node: `framed`, `window` and `counted` parsers, whose differences are table entries.

### ZdApp, ZdSecTables, ZdSecMgr, ZdLinkKeys

`ZdApp` keeps what the callbacks write (`nwkStatus`, events, messages, at most `MaxQueue`) apart from what the task reads later.
Any library call may be refused and any message dropped, `MaxTrouble` times together. History marks (`dropped`,
`unnoticed`, `stale`, `lost`, `crossed`, `leftover`, `shifted`, `lapsed`) name a loss the code does not repair, so that
a property can say "or that happened", and section 6 can name it. In `ZdSecMgr` devices join, leave and join again while their key
establishment is under way; `ZdLinkKeys` restarts at any point.

### ZdpFrames, ZdoServices, ZdBindMatch, ZdNwkMgr, AfData

`ZdpFrames` keeps builders and parsers apart, octet by octet for the fields whose order matters. `ZdoServices` runs a
client against four routers' tables; a page's start index is carried by the messages. `ZdBindMatch` is the coordinator between two
devices that also answer. `ZdNwkMgr` is a manager and a router at once, broadcasts between them may be lost. `AfData` has APS as a
free partner that confirms what it took once.

### Zcl...

`Layouts` describes a command's fields; `ZclClusters` takes a command from its sender through dispatch, the file's
search for the cluster, its callback and the answer. The tables of layouts are there for the general clusters and in `ZclHome` for the others; where writer and reader differ
in the code they differ in the model. `ZclScenes` writes its NV items one by one. In `ZclKeyEstablish` keys are sets of tokens, so two sides agree
exactly when they hashed the same.

### Sapi, Mt...

`Sapi`'s answers carry no name, in any order. In `Mt...` a handler is the sequence of its calls and frames under every circumstance
(`m.room`, `m.memory`, `m.returns`); `WholeAnswers` compares the octets announced with those written and names the handlers that fail it.

## 3. Runs

Six runs hold all that passes. Each is a *sum*: the components it lists share no variable, the variable `part` says which of
them runs, and the others keep the values they were initialised with. The state space is that of the components side by side; a
property of one component speaks of it alone, and fairness is given to the component that runs (an action of the others is never
enabled, so one `WF` covers the corresponding actions of all). The components are specified and proved about separately;
putting them into one run saves nothing but start-up.

| Run | Components | Properties | Bounds | States |
|---|---|---|---|---|
| `core` | `OsalKernel`, `OsalTimers`, `MacRadio` | `KernelSound`, `EventsNotLost`, `MailboxSpec`, `StimuliServed`; `TimersSound`, `TimersServe`; `RadioSound`, `Completes` | 2 tasks, 3 buffers, 2 bits, 4 stimuli; 2 timers, 3 records, timeouts to 2, 3 calls; 2 sends, 2 frames heard, 1 retry, 2 further calls, 1 overflow or failed allocation | 1.2 M |
| `hal` | `HalUartTx`, `HalUartRx`, `OsalSleep` | `TxSound`, `DataRegisterFree`, `SentIfUnhurried`; `RingInStep`, `WaitingIsTold`; `PowerSound`, `PowerWakes` | buffers of 3, 6 octets, timer of 6; ring of 4, 6 octets, timer of 5; 2 tasks with a timer each, 3 stimuli, timeouts of 2 and 3, with and without a poll rate | 1.5 M |
| `device` | `CoordBridge`, `NodeApp`, `ZdApp`, `ZdSecMgr` | `BridgeSound`, `KeptUntilServed`, `QueueDrains`; `NodeSound`, `Ends`; `JoinerSound`, `JoinsInTheEnd`; `TrustSound`, `Settles` | 3 slots, 5 frames in two pieces, 3 retries; every kind of node, 3 inputs; 3 frames, 2 troubles; 3 devices, 2 joinings, 1 trouble | 1.1 M |
| `stores` | `OsalClock`, `OsalMemory`, `OsalNv`, `ZdLinkKeys`, `SensorLink`, `Sapi` | `ClockExact`; `HeapSound`; `NvStores`; `LinkKeysSound`; `LinkSound`; `SapiSound` | 72 000 ticks in gaps at the thresholds; 21 bytes, sizes 1, 2, 5; 3 pages of 2 slots, 2 items, 2 values, 2 faults; 3 devices, 3 calls and 2 frames, or more frames for fewer calls; every kind of sensor; 2 calls, 3 requests | 2.4 M |
| `zcl` | `ZclClusters`, `ZclScenes`, `ZclKeyEstablish`, `MtTask` | `ClustersSound`; `ScenesSound`; `CbkeSound`, `AloneSucceeds`; `MtSound` | every command in three styles of values; 2 scenes, 2 alarms, 1 power failure; 4 devices, three plans of exchanges; every request, or 4 of the store | 0.8 M |
| `services` | `ZdoServices`, `ZdBindMatch`, `AfData`, `ZclFoundation`, `ZdNwkMgr` | `MessagesSound`; `PressesAnswered`, `SuccessToggles`; `DataSound`; `ManagerSound` | 4 routers; 3 presses, 1 trouble; 2 requests, 1 shortage; 2 requests; 2 channels, 2 PAN ids, 3 inputs | 3.0 M |
| `nv_fault`, `bridge_torn`, `uart_tx_stall`, `sleep_idle` | | findings, section 6 | smaller | |

A name like `TimersSound` is the conjunction of the properties of one component that a reader would ask for in one breath; the
parts are defined, named and commented in the component's module. What they say:

- `KernelSound`: types, `QueueWellFormed` (each live buffer linked once at most, `dest_id` says which), `NoLostWakeup`. `MailboxSpec`: the queue
  implements one mailbox per task. `StimuliServed`: events are handled, messages delivered.
- `TimersSound`: the walk meets no freed record, a timer has one record, none is late by more than the loop. `TimersServe`: the list implements
  `OsalTimerService`; timers expire, reloading ones go on.
- `RadioSound`: the code's assertions, the receiver on exactly as wanted, sleep only at rest, statuses true: SUCCESS only if an ACK came, NO_ACK
  only if none came or one was not read in time. `Completes`: the transmitter is at rest again and again, so no transmission lasts for ever; that each request of the upper MAC is answered is not part of it.
- `TxSound`: nothing lost, buffers never overrun, channel known. `RingInStep`: the ring holds what was received and not read, and the head is at its oldest.
  `WaitingIsTold`: octets that wait are announced. `PowerSound`: no power mode on an event. `PowerWakes`: the alarm in time, events handled, timers expire -- in idle mode
  perhaps not before the MAC timer rolls over.
- `BridgeSound`: the current slot holds a frame while it has tries left, and no frame is in two places. `NodeSound`: answers true, the
  motor where the node says, the period kept. `Ends`: what a command started stops.
- `JoinerSound`: never waiting for nothing, key or reset, applications told the truth, the frame counter ahead of the saved one.
  `TrustSound`: tables consistent, something to come wherever a record waits, the key only after this joining's exchange, no child forgotten.
- `HeapSound`: blocks tile the heap, NULL only if nothing fits, no free room out of reach. `NvStores`: one copy of each item, a reserve page, counters
  that agree with the flash, and the refinement of `NvStore` through every power failure.
- `LinkKeysSound`: entries apart, keys kept, no counter used twice unless power went while two frames waited for one save. `LinkSound`: heard as sent; in step again after noise, for the parsers that can be.
  `SapiSound`: each request answered once; a changed table saved.
- `ClustersSound`: heard as said, the registered callback, one answer of the right sort, zones kept. `ScenesSound`: RAM and NV agree, all
  comes back, answers true, alarms in order. `CbkeSound`: records apart, never different keys. `MtSound`: one answer, whole, carried out as meant; long messages in order and not kept for ever.
- `MessagesSound`: the ZDO's and the foundation's messages are understood, their lengths right, the pages put together the table, writes truly told, and data heard by all
  they are meant for. `PressesAnswered`: each press is answered once, and until then waits with the timer running. `SuccessToggles`: success only if the
  bindings were changed. `DataSound`: what was taken is confirmed once, and the network layer rests while the device is on a foreign channel.
  `ManagerSound`: a change of channel that nothing was lost of reaches every device, results of scans go to who asked and are no more than asked for,
  changes a whole period apart.

Why the bounds are enough. *Kernel*: a race needs a sender, a receiver and one ISR; four
stimuli allow two messages and two events to cross. *Timers*: three records for two timers
leave room for a stopped record that is still linked while its timer is started again; the lag covers
an update that takes two timers at once. *Radio*: a send, its retry and a reception in between; a second send queued behind. *Heap*: three blocks are joined, split and handed out again on either
side of the wall; a longer heap repeats that. *NV*: with two slots a page every third write
compacts, its own page or the other one; there is no bound on calls or failures, the state
space is finite. *Sleep*: timeouts of 2 and 3 run down to 1, at or below `MinSleep`, and the MAC may answer any timeout, so both
paths are taken, with the debounce above it as in the code (25 ms against 14 ms); the poll rate is zero or not at each decision, which is all the code asks of it. *UART*: the timer wraps
within a transfer's wait, and within the receiver's idle time. *Bridge*: two frames more than the slots hold, and slots enough for a current, a preferred and a free one at once.
*Joining*: two troubles break a start and its repair. *Trust centre*: a device joins again while its first exchange is under way, beside another one. *Tables*
of the ZDO lie below, at and over the size of a page.
`CHECK_DEADLOCK FALSE` stands in all: where inputs are bounded, a device that has done its work rests; that it has done it is what the liveness properties say.

## 4. Fairness

- `OsalKernel`: `WF(Loop)`. The loop never ends and its handlers return. ISRs have none.
- `OsalTimers`: `WF(Tick)`, `WF(Walk)`. Time passes, and the loop calls `osalTimeUpdate` in every round.
- `OsalSleep`: `WF(Loop)`, `WF(halSleepTimerIsr)`, `WF(Tick)`. An awake processor executes, an enabled alarm rings, time passes.
  The key and the MAC are not relied on, with one exception, `WF(Rollover)`: the MAC timer runs in idle mode, and its compare interrupt is enabled by
  `macBackoffTimerInit` and set again by each `macBackoffTimerCompareIsr`. Without it `PowerWakes` fails as soon as there is a poll rate. `MinTimeout` keeps a task from restarting a timer that runs out within
  one round of the loop, which would starve the tasks after it.
- `HalUartTx`: `WF` on the second half of a write, the poll, the DMA controller, its ISR and time. New writes have none.
  `LongestRound` bounds how far apart polls are. How close they may be is not bounded: `SentIfUnhurried` names the polls
  it relies on, and `uart_tx_stall` shows that it has to.
- `HalUartRx`: `WF` on the driver's steps and on time; none on arriving octets.
- `MacRadio`: the radio finishes what it does, interrupts that are pending are served in the end, and a call of the upper MAC goes on: weak fairness over the
  three groups as one, in any order, written with the condition of being due in place of `ENABLED`. No frame need ever arrive.
- `NodeApp`: `WF(Tick)`, `WF(Collect)`: the loop's counter, and the collector's thread. Commands and presses have none.
- `ZdApp`: `WF` on the task, the library's answers, each running timer, and the arrival of the key; `ZdSecMgr`: the task, its timers, and the library's end of a
  key establishment, in success or failure. Devices need not join.
- `ZclKeyEstablish`: `WF` on receiving, the event and ageing. `MtTask`: the task, its timers, and what the stack tells.
- `CoordBridge`: `WF(GenericAppCoordEB)`, since the loop counts its rounds. The host has none, nor need AF ever accept.

## 5. Proofs

`OsalProofs`, first for `OsalKernel` with every number of tasks below 255, any set of buffers and bits, and every number of stimuli:

- `KernelIsSound` (`KernelTypeOK`, `KernelQueueWellFormed`, `KernelNoLostWakeup`) from the inductive
  `KernelInv == TypeOK /\ QueueWellFormed /\ NoLostWakeup /\ CopyInUse`. `CopyInUse` is the strengthening: the loop's copy of an event
  word is empty unless a handler runs or its result is being put back. Without it `Take` could overwrite bits.
  The queue lemmas say what unlinking and appending do to entries, order and absence of repetition.
  `NoLostWakeup` is the delicate part: `osal_msg_receive` may clear the message event only because
  the scan that found no second message and the clearing are in one critical section.
- `KernelEventsNotLost`: the action property, from the same invariant.
- `MessagesImplementMailbox`: `Spec => MailboxSpec`, step by step, from the same invariant. `Enumerates(e, n, W)` says that `e` lists a set of places in
  increasing order; `PlacesListed` that each set has such a list, `EntriesListed` that any such list gives the entries there, because the
  rank of a place is where it stands in the list (`RanksListed`, by a bijection in place of an induction). A change of the queue is then a change of lists: `EntriesLinked` (a message
  linked goes behind those of its receiver and moves nothing of another), `EntriesUnlinked` (the first one unlinked is the head of its receiver's mailbox, and the tail
  is left), `EntriesElsewhere` (although every later place moves up, another's mailbox stays). That a message marked for one task is not read
  as another's meanwhile is `QueueWellFormed`: what is unlinked is linked nowhere else, so taking its `dest_id` away changes no other place.

then for `OsalTimers` with any timers, any finite supply of records and any times:

- `TimersAreSound` (`TimersTypeOK`, `WalkSafe`, `OneRecordPerTimer`, `NeverLate`) from `TimersInv`, which says what the pointers cannot say by
  themselves. `ListKept`: there are a number `n` and distinct records `q[1] .. q[n]` that the next pointers lead through, and a position `p` of the
  walk among them; `ListIsReached` shows that `Nth`, the recursive function `Linked` and `Ahead` are made of, agrees with `q`, by the least number
  where it would not. `ListAppended` and `ListUnlinked` say what the two kinds of change leave of such a list, `RecordAdded` and `OneVisited` what they do to
  the records linked and ahead. Behind the end of the list `prevTimer` may be any: an interrupt may have appended to its record, but the walk is over.
  `FoundAlone` and `FreedRanOut` are the other parts.
- `TimersImplementService`: `TimersSpec => ServiceSpec`, step by step, from the same invariant. A visit is a `Fire`, a `RunOut` or nothing, according to what it finds;
  what it unlinks stays "expired" until `Notify` raises it, which is why a stop, possible only between walks, cannot come too late.

`ServicesProofs`, first for `CoordBridge` with any number of slots, tries, pieces and frames:

- `BridgeResendsAFrame` from `IInv == TypeOK /\ ResendsAFrame /\ TriesCounted`. `TriesCounted` relates the
  counter that goes down (`AF_RFn`) to the refusals of the current slot; the next theorem needs it.
  The lemmas follow `GenericAppCoordEB`: what selecting, storing and ending a call leave of a queue that is in order.
- `BridgeKeptUntilServed`: the action property, from the same invariant.
- `BridgeIsSound`: no stored frame is in two places. That alone is not inductive, since a buffer may hold pieces of several frames. `Lasts`
  strengthens it: the last piece of a buffer names the frame the buffer was completed for, no two of `Send_data` (while
  `AF_RF` is set) and the taken slots name the same one, and none names a frame the parser has still to complete.

then for `ZdBindMatch` with any devices, cluster lists, tables to begin with, and numbers of presses and troubles:

- `PressesAreAnswered` from `BInv`. `PlacesApart` follows each press: it is on its way, in the queue, or in `matchED`, in one of them at a time, and is answered when it leaves the last;
  what is unanswered and in none of them is in `dropped`. Presses are told apart by their messages (`PressMsgIs`), of which the queue has each once. `PairOK` gives the
  two forms of a pair: one device waits, or two different presses do while the requests go out; so the two answers of a pair never go to one press. `PairAnswered` and `PairGone`
  are how a pair ends, `GoesKeeps` what `ZDMatchSendState` makes of a pair that is in order, for its three callers. `MemoryOK`: without a failed allocation no pointer to a freed block is left.
  It was model-checked with three presses and two troubles first. Whether success is told truly (`SuccessToggles`) compares lists by counting and stays with TLC.

and for `AfData` with any endpoints, groups, addresses, requests and shortages:

- `DataIsSound` from `AfInv`. `TokensOK` says of each confirmation to come which request it is for and how often that one was told already. `NumbersOK` is needed for the transaction numbers,
  which have eight bits: of the requests of one endpoint that were taken, each number is at least 1 and at most as many further on as there are requests between. So two numbers
  are equal only from 256 requests on; the property says so, and the run, with fewer requests, could not have told. `StubOK`: while the channel is changed the network layer rests,
  which `RestsWhileAway` needs when a second try succeeds.

and for `NodeApp` with any of its kinds of node, any commands and any number of inputs:

- `NodeIsSound` from `NodeInv == Rested /\ AnswersTellTheTruth /\ Paced /\ ShadeInv /\ RelayInv`, parts that speak of different fields of the node. `Rested`: between two steps nothing
  is left to be told, and the answer has the length its kind fills. Under it every branch of the switch keeps `Carried`, one lemma for each kind: what it may leave of the flags, and that a branch
  that tells has set the flag by which `GenericApp_SendTheMessage` writes BB, unless it changed nothing. `FillIsFilled` is the other end of the same flags: an answer so marked does not say AA, and its
  last octet is the sum of the others (`FilledBySum`). `Paced` ties the timing that runs to the one told last. `ShadeInv` is what `WhereItSays` needs: `Ahead`, the place the shade will have when the count
  `BX` has run out, is the place its last command named. A step of the motor moves the shade and lowers the count, and keeps `Ahead`; of the commands only those that count from rest do, or a full
  run, whose count exceeds the whole way, so that it ends at the stop from wherever it began. The proof showed that AA was excused for too few kinds: the scale ('Q') answers
  with the sum of its type and its factor, and that sum is AA for the factor 89, a factor the run's few commands do not hold.

`HalProofs`, for any buffer size, character time, width of the timer byte, distance of the polls and number of bytes:

- `UartTxIsSound` (`UartTypeOK`, `UartChannelKnown`, `UartNothingLost`) and the action property `UartDataRegisterFree` from `TxInv`, an invariant of seven
  parts. `ChannelSends` and `PendingFinds` say what a running and a requested transfer find; `InOrder` says of each byte where it is, of which `NothingLost`
  is the sum; `WaitKnown` says what the difference of two timer bytes tells of the true time: it may be too small after a wrap, so the wait
  may be too long, and never too large.

and for a ring of any size, any thresholds and timer:

- `RingStaysInStep`. Its invariant, `RxInv`, holds until the first overrun and has three parts: types, `InTurn` (the ring holds exactly the octets not read, one after
  the other from the head on), and `HoldsOldest`: between `HalUARTReadDMA`'s access to the octet and its access to the pad, where the controller may write,
  the octet held is still the oldest. `RoundTheRing` and `TailFound` are the arithmetic of the ring and of `findTail`.

and for any tasks, timers, timeouts and number of stimuli:

- `PowerIsSound`, `PowerAlarmInTime` from `PowerInv == PowerTypeOK /\ LookedAt /\ InTime`. The two parts are what `halSleepPconValue` carries from the place
  where the loop allows sleep to the place where PCON is written: while it is not cleared, no task the loop has looked at has an event, the timeout
  gone by is the lowest that runs, and then the alarm is set for it. `LowestTimeout`: a set of timeouts has a lowest, without which the `CHOOSE` of
  `osal_next_timeout` says nothing.

`StoresProofs`, first for `OsalClock` with every set of gaps below `3 * 8188` ticks (7.86 s) -- the assumption `ShortGaps`:

- `ClockIsExact` from `ClockInv == TypeOK /\ Synchronised /\ ClockExact`. The lemmas compute the conversion: the sum stays below
  65536, its quotient and remainder by 25 are exact, and the carry into seconds is.
- `SumFitsBelowThreeRounds`: under the same assumption the sum never wraps, as the comment at `OSAL_Clock.c:56` asks.
- `SumWrapsAtThreeRounds`: the assumption is needed. The comment leaves out the 4 that each round of the loop adds to the remainder; with the remainder 24, which a call 3 ticks
  after start-up leaves, a gap of exactly three rounds makes the sum 65536, and the clock is 2.6 s behind from then on.

then for a heap of any size, divided anywhere, and any sizes asked for:

- `HeapIsSound` from `HeapInv == HeapTypeOK /\ BlocksApart /\ NothingStranded /\ WallKept`. `NullMeansFull` follows from that invariant and need not be
  carried: `PlaceInBlock` finds the block that holds a place, `StretchHasHead` the header at which the scan begins to join the free stretch around it, and
  `JoinedEnds` says that joining goes far enough if the stretch does. `WallKept` keeps the start of a scan a
  header: the wall is a header without room, held by nobody and so never freed, and no join that begins before it can swallow the block at `ff2` behind it;
  every `ff1` lies at or before `ff2`. `Tiled` is the same of any table of headers: `ScanTiles` and `SplitTiles` keep it
  through the joining and the splitting of one call, because what is joined to one head ends before the next (`HeadsApart`) and only headers inside are dropped (`InnerAbsorbed`).

and for the simple API with any commands, offers, size of the table and number of calls:

- `SapiIsSound` from `SapiInv == SapiTypeInv /\ TimerInv /\ OwedInv /\ TableSaved`. `OwedInv` counts: what is owed on a command is what waits in the queue for it, what was
  lost, and one for the request under way. `WaitingAppend` and `WaitingTail` say what the queue's two operations do to that count, by cardinalities and a bijection rather than
  by recursion. `TimerInv` is why the one answer too many can only come from a timer's event that outlived its request: without a request under way, or with the
  timer and its event both there, the mark `stale` has been set.

and for the link keys with any devices, addresses, size of the table, distance of the saves, and numbers of keys that come and go, frames, failed allocations and restarts:

- `LinkKeysAreSound` from `KeysInv == KeysTypeOK /\ TableOK(t) /\ NvApart /\ LateIsPending /\ Counted /\ FreeHasNone /\ OwnSlots /\ MineKept`. Three tables are updated apart --
  the entries, their copy in NV and the keys in NV -- and meet again after a restart. `Kept` says of a partner's entry that its slot is its own and that the copy has it
  with that slot; a restart that closes a gap breaks this just when it sets `shifted`. `WriteNVIs` is what the copy holds, by ranks: the numbers of the entries
  before each one in use run from 1 to their number without a gap. `NeverReused` needs the saved counter as well: `Covered` says that a restart, which skips `MaxChanges + 1`,
  passes all that was used; `Ahead` says why: between the saved counter and the present one lies no multiple of `MaxChanges` unless a save is pending, and
  of so many numbers in a row one is a multiple (`MultipleNear`), so that without one pending they are less than `MaxChanges` apart. The proof showed that an earlier form of
  the excuse, which forgot the late frames at the next save, was right only for the small bounds of the run: after a restart that does not skip far enough the counter stays
  behind what was used through any number of saves, hence `lapsed`. The invariant was checked on three devices with two faults and four frames first.

`ProtocolProofs`, first for `ZdNwkMgr` with any routers, channels, PAN ids, numbers of scans and reports, lengths of the period and size of the update id:

- `ManagerIsSound` from `NwkMgrInv == NwkTypeInv /\ PeriodInv /\ (~missed => AirInv /\ DoneInv)`. `NwkTypeInv` holds of each device alone: `Counts`
  relates the scans still to do, the one under way and the device they are for, which the code keeps in three places, and is given up when a request crosses a
  confirmation. `PeriodInv` makes the manager's changes one at a time: a change is through before the first minute of its period has passed. `AirInv` and `DoneInv` then divide the devices into
  those a copy is on its way to, which are one update behind, and the others, which have the new channel or the timer that will take it. `ChangesApart` is the
  action property that `PeriodInv` yields. It was model-checked on three devices before it was proved.

then for `ZclKeyEstablish` with any devices, links asked for, sizes of the table, and numbers of frames lost, repeated or late:

- `CbkeIsSound` from `CbkeInv`. `RecOK` and `Apart` are `RecordsSound` with what it needs to be inductive: an initiator has its own key pair before it sends it. `FrameOK`
  is what a frame says of its sender, however late it comes: a key pair is the sender's own, a status of a Terminate is not success, and
  a responder that confirmed has added the key its MAC was made with. So an initiator that finds the MAC right has the key its partner added, even when
  frames of an exchange given up are still under way; nothing need be said of which attempt a frame belongs to. `KeyTokens`: both ends can
  be read off a key, so different pairs of devices never have the same one. `LeastOfSome`, by the well-foundedness of finite sets, is what the
  lookups (`FirstFrame`) rest on. It was model-checked with three devices whose exchanges cross, a loss or a restart among them, before it was proved.

and for `ZclScenes` with any groups, scenes, sizes of the table, alarms, and numbers of power failures:

- `ScenesAreSound` from `ScenesInv`. While a save is under way `WritesOK` says which records are still to be written and `SavingOK` that the others are the new table's,
  those from the next write on the old one's, and the number in the header the old one's too. `Follows` is what every command makes of the table: one record changed, one more at the end, or fewer;
  `WhatNvHolds` derives from it that a power failure finds one of the two tables whole, unless there are fewer: the removal that `CutShort` excepts. `RestoringOK` says the same of
  a restore, which rewrites each record it has read with itself, so only the number in the header is ever wrong, and that is why a failure before its first step harms nothing.
  `OtherGroups` is written with ranks instead of `SelectSeq` so that `OtherGroupsIs` can be proved. It was model-checked with two groups, two data of a scene and two power failures first.

`MacRadioProofs`, for any frames that may arrive, any numbers of backoffs and retries, and any number of calls, frames and troubles:

- `RadioIsSound` from `IInv`, which holds between any two steps. `Channel` says, for each state of the transmission and each place inside `macTxFrame`, what
  the command strobe processor does and what its stop interrupt may find; `Tries` and `Counted` bound the counters; `Machine` ties the receive state to the buffer
  and to the FIFO. `Due`, `Acked` and `Told` are what `StatusTrue` needs: the right ACK is in the FIFO only while it is awaited or when it is `missed`, and one that has
  come is there, ready, until the upper MAC is told of it or it is missed. So if the stop interrupt of the wait is served first the ACK is marked, and an answer in time is never told as none. `Wanted` is what `ReceiverAsWanted` needs: whoever keeps the receiver on lets it go later, and a frame waits only behind a receive.
  `Tuned` is the least obvious part: a new channel waits only for the end of a transmission; without it the change could turn on a sleeping radio.
  The handlers call each other several deep, so there is a lemma per handler: what it may change (`Same`), and what it keeps, within the receive interrupt
  (`CompleteIsr`, `ChannelIsr`) or away from it (`CompleteOut`, `ChannelOut`): within it, a channel change leaves its cleaning up to the interrupt's end. `Served` is what a
  receive state owes by then, and `EndKeeps` that it is enough. It was model-checked on the instance of run `core` before it was proved.

`ZdProofs`, first for `ZdApp` with any builds, any lengths of the queue and of the discovery count, and any number of troubles and frames:

- `JoinerIsSound` from an `IInv` of which `Waits` is `NeverStranded` said over `Mail`, the set of messages in the queue: a message taken may have been there twice,
  so taking one says only what it may have removed. Each waiting state is ended by a request under way, by its answer in the queue, or by an event or a timer;
  the lemma of a step shows which of them replaces the one it uses up. `Roles` keeps the two kinds of device apart, in particular the start modes, without which the alternatives of
  `ZDO_StartDevice` would overlap. `Held` makes a release from hold as clean as a restart (`Initialised` serves both). `Lost`: the message that the parent is lost always
  finds the device in the network it lost, so `ParentLost` may resume without a check, as the code does. `Knows`: `nwkStatus` is written by answers to joins and
  to starts alike, so a join's answer may be read with a start's status; that a device then never resumes without a network to resume in hangs on
  `"start" \in nwk => known`. `KeyKept` says what a device that resumes has in place of a key, `Counts` how far the frame counter can be from the saved one; `KeyRestored`
  is the arithmetic of skipping ahead. It was model-checked for all 24 builds before it was proved.

`ZdProofs`, then for `ZdSecMgr` with any devices, addresses, routers, sizes of the tables, contents of NV, and numbers of joinings and troubles:

- `TrustIsSound` from `SecIInv`. `TablesSound` needs two facts about `DeviceEntryAdd`: because the address manager gives an address to one device only, the entry found
  by the address is the joining device's own (`DeviceEntered`), and a record found for a reused entry is the only one for it. `KeyAfterSkke` is not inductive alone: `OutcomeKnown`
  says that a confirmation in the queue, should its device's record wait for one, is that of this joining, or marked as `crossed`; it is marked when the
  device is taken in again, which is the only moment at which the order of the two messages can still be seen. `Accounted` needs `GivenUp` (a record given up is that of a device whose
  key establishment is known to have failed) and the second half of `Placed`: a device announced by a router is not a child that has been looked at,
  so a refusal that nevertheless made an entry forgets nobody. It holds because messages are served before the event for new children. `Joined` reduces
  `ZDSecMgrDeviceJoin` to three outcomes, and `MovedOn` every step of a record to one record and its states. It was model-checked with three devices, two entries and three joinings first.

Assumed are only the `ASSUME`s of the modules, which TLC evaluates in the runs. What stays with TLC:

- all liveness (`StimuliServed`, the second half of `TimersServe`, `Completes`, `SentIfUnhurried`, `WaitingIsTold`, the second half of `PowerWakes`, `QueueDrains`, `Ends`,
  `JoinsInTheEnd`, `Settles`, `AloneSucceeds`) -- fairness and `ENABLED` are beyond the prover;
- `NvStores`, the refinement of the NV store: its mapping folds over pages and searches slots with `SelectSeq`, and what those give for a changed page needs an
  induction over a recursive function of an operator, which the provers cannot instantiate;
- what is computed from tables and layouts (`MessagesSound`, `ClustersSound`, `MtSound`, `LinkSound`): the constants are the code's own,
  so the runs already range over all of them;
- `SuccessToggles`, which counts in lists made by `SelectSeq`.

## 6. Findings

Each of the first four is a run that must end in a violation; `PROJECT.json` quotes the line of the repository that says otherwise.

1. `nv_fault`: when the new copy of an item does not verify, it stays the current copy, and the item reads as the failed data.
2. `bridge_torn`: a frame waiting in `Send_data` is overwritten by the next one before it is stored.
3. `uart_tx_stall`: the recovery for a missed DMA interrupt restarts the wait; fast polls put a transfer off for ever.
4. `sleep_idle`: idle mode is entered although an ISR objected. The event waits for the alarm or, with a poll rate and no timeout, for the next interrupt:
   without a key press or a frame, until the MAC timer rolls over.

Five more properties state what a comment promises and the code does not keep; they stand in their modules and belong to no run, so that the
number of runs stays small: `UndividedAllOrNone` (`zcl.c:3174`, an undivided write with a value the application refuses), `IdleMeansIdle`
(`_hal_uart_dma.c:646`, the idle timer counts from the first octet of a burst), `ZoneIdsUnique` (`zcl_ss.c:895`), `ListHoldsLiveBlocks`
(`MT_AF.c:806`, a freed message stays linked) and `ParsedFreed` (`sapi.c:893`).

What else was met while modelling, by component. A property that would fail for such a reason says so in its premise or by a history mark.

- *Timers, clock, NV.* `osalTimerUpdate` takes elapsed time off a timer started after that time had passed; it expires early. The clock's
  16-bit sum exceeds the bound of the comment at `OSAL_Clock.c:56` at a gap of three rounds (7.86 s; `SumWrapsAtThreeRounds`), and a sleep of 65 536 ticks (21 s)
  or more is counted modulo 65 536. A power failure together with a flash write that fails loses updates.
- *UART, parsers.* After an overrun the receive head stays out of step with the DMA; flow control is off by default. The counting parsers
  ('G', 0x79, RFID) stay shifted for ever after one lost octet; 0x72 goes deaf after 25 octets that do not match; 0x86 does not complete with the next frame behind it; a
  length octet near 255 wraps in the coordinator's parser, and a length above 118 writes behind `Send_data`.
- *Bridge, nodes.* A freed low slot is taken by a younger frame, which overtakes, though the comment at `GenericApp.c:381` says that frames are sent in
  order. 0x07 takes the sleep lock and never gives it back; what a command started runs on when "openoff" puts the node off; the default timing is lost
  when a trigger clears `GenericApp_time` before EB starts it; the scale's answer to its factor 89 is marked AA, as if told by itself (2781); some answers grow by one octet with each trigger; 0x12's "DD" read is lost.
- *Device application.* `ZDApp.c:1896` drops a message silently without memory (`dropped`); an unauthenticated device can be
  taken back by an orphan scan without the key; the leave timer and the authentication timer share an event (1839).
- *Security manager.* A confirmation of an earlier key establishment may be taken for the present one (`crossed`); a dropped one leaves the
  record waiting (`lost`); `RestoreFromNV` compacts the table while `keyNvId` keeps the old slot (`shifted`).
- *ZDO services, pairing.* A failed link falls through to the next case (`ZDObject.c:1506`); the user descriptor's confirm writes the low octet twice
  (1822); lists announce entries they did not allocate (1150); a stray `Bind_rsp` with number 0 ends the wait with success (2240).
- *Network manager.* `nwkUpdateId` is compared without wrapping (553); a flag for a unique PAN id is never reset, so that a report that holds the first choice loops for ever (`hung`);
  no transmissions, and the failure rate is a division by zero (412).
- *AF, inter-PAN.* A failing request to the own address is confirmed under a number used again (649); group delivery ends
  at the first member not registered (303, 371); a failed move leaves the network layer active on the foreign channel (187).
- *ZCL.* A one-octet report configuration response is parsed as no records (2610); discovery needs ascending ids (405); `SceneAdd` says success without memory
  (`zcl_general.c:2033`), scenes are written before their header, removing a group leaves its scenes; `zcl_pi.c:428` never leaves its loop when the first record is another's; ageing of a key establishment
  record neither tells nor restores the poll rate (`zcl_key_establish.c:1756`).
- *SAPI, MT.* A late answer binds the command now under way; a bind timer's event outlives its answer. MT's answers are
  never sent in this tree (`MT_TASK.c:313`), several handlers leave octets of an answer unset (`WholeAnswers` names them), some
  read behind a short request.
- *MAC.* An ACK that came in time is told as NO_ACK, and the frame sent again, if the receive interrupt is held off past the end of the wait or the FIFO overflows (`missed`). The comment at `mac_rx.c:260` says that the reset cleans transmission too; it does not, so `macLowLevelReset` is modelled with nothing being sent.

## 7. Plan

Done: every component of section 1 that has control state, with its properties and runs; the refinements of the mailbox, of the timer service and of the NV store as
properties; the theorems of section 5. What remains worth doing, in this order: the step simulation of the NV store's refinement.

## 8. Not modelled, and why

- NWK, APS and high-level MAC: binary libraries; free choices or small external actions.
- ZMAC, the MAC's attribute tables, `ZGlobals`, `AddrMgr`, `AssocList`, `BindingTable`'s lookups: settings and marshalling, no control state of their own.
- Sensor and display drivers, LEDs, LCD, ADC: bit-banged buses and unit conversion; the key interrupt, the only one that reaches shared state, is in `OsalTimers` and `OsalSleep`.
- Inside modelled definitions, where no property turns on it: `Sapi`'s `Matched` tells the command's end once, where a build with both `MT_SAPI_CB_FUNC` and `SAPI_CB_FUNC` passes the same
  result on to MT and to the application (`sapi.c:917`); `ZdApp`'s `RestoreNwkKey` takes the key to be in NV when its counter is, as `ZDApp_SaveNwkKey` writes both in one item; `ZclScenes`
  orders alarms by when they came, in place of a clock; `ZdApp` leaves out the `DEV_HOLD` branch of `ZDO_JoinConfirmCB` (`ZDApp.c:2158`) and the answers to management discovery, which move no
  device that joins.
- Of `NodeApp`: 79's sampling, 12's tick, S's local keys, the counted default timing under `POWER_SAVING`, the reply bits of `CC2530_V30`.
- Starvation in the resend queue under unbounded arrivals, and allocation of sizes close to 65536: see the notes in the hazards.
