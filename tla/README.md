# A formal model of SmartHomeApp

SmartHomeApp is a home-automation program for Zigbee devices (TI CC2530). Every
device runs the same firmware: a small application
(`Projects/zstack/Samples/SmartHomeApp/Source`, 2252 lines) on the vendor's
operating system OSAL, hardware drivers and Zigbee stack (`Components`). The
name stored in its NV memory makes a device a light, a sensor or the
coordinator. Users type commands at the UART of a device; sensors send them on a
key press. Commands are addressed by device *name*; each device keeps a small
cache from names to network addresses, filled by the answers it gets.

All paths below are relative to the repository; application files are given by
their names.

## 1. Inventory

| Component | State | Operations | What is hard | What makes it correct |
|---|---|---|---|---|
| Name/address cache (`Utils.c` 78-208) | five slots, an index | put, delete by address, look-up by name | round-robin eviction that ignores free slots, deletes and puts in any order | no name or address in two slots; a binding lasts as long as promised |
| Commands and confirmations (`SmartHomeApp.c` 294-328, 424-448; `AF.c` 496-679, 245-281) | transaction byte, last address, last number | send a command, send a reply, handle a confirmation | confirmations arrive later, in any order, identified by a byte that wraps | a failure forgets the address that failed |
| Application protocol (`SmartHomeApp.c` 330-383, 398-521, 665-815) | name, role, cache, queue of messages | command, answer, announcement, rename, reset | devices move, are renamed and restart while messages are under way; answers provoke answers | caches hold truths, are put right in the end; lights obey their own name; no message storm |
| Lights (`DefaultLight.c`, `DoorLight.c`, `RestroomLight.c`) | three pins, three timers | TurnOn, TurnOff, Toggle, TurnOffLater, LightStatus, Update | commands while a timer counts, the sentinel 0xFFFF, an update timer that restarts itself and may fail to | a light goes off after exactly the time asked for |
| Sensors, coordinator, default role | a poll counter (`RestroomSensor.c` 21) | key press: one command | - | part of the protocol |
| OSAL task loop and messages (`OSAL.c`) | events per task, one message queue | set/clear event, send, receive, run | interrupts between any two critical sections, priorities | no lost wake-up, no lost event, order, progress |
| OSAL timers (`OSAL_Timers.c`) | list of timers | start, restart, reload, stop, update | interrupts change the list while it is walked; an event is set after the critical section that decided it | a started timer fires, a stopped one does not, no millisecond is lost |
| OSAL NV memory (`OSAL_Nv.c`) | flash pages of items, places of hot items in RAM | init, write, read, delete, compaction, recovery | power failures between flash writes, in the recovery too | an item has its old or its new value |
| OSAL heap (`OSAL_Memory.c`) | chain of block headers, first free place | init, kick, alloc, free | splitting and joining, two regions, exhaustion | nobody's bytes are given to another; served whenever there is room |
| OSAL power manager and clock (`OSAL_PwrMgr.c`, `hal_sleep.c`, `OSAL_Clock.c`, `mac_mcu.c`) | permissions per task, the value that stops the processor; counts, remainder; date | conserve, sleep, wake; read, poll; convert | sleeping with an event pending; a counter that rolls over unseen | no event waits for a sleeping device; no time is lost |
| HAL UART (`_hal_uart_dma.c`), keys | two transmit buffers, a receive ring | write, poll, interrupt | DMA interrupt exchanges the buffers, a byte waits in a register | bytes go out in order, once |
| ZDO start-up (`ZDApp.c`, `ZDObject.c`) | device state, start mode, retry counters, network state in NV | start, discover, join, rejoin, resume, leave | answers that come late, power failures, parents and channels that change | a device never stops trying, gets in, and tells the application |
| AF (`AF.c`) | endpoint list | register, delete, data request, incoming, confirm | list changes, multiple endpoints | every message to its endpoint |
| MAC low level (`mac_tx.c`, `mac_rx.c`, `mac_rx_onoff.c`, `mac_csp_tx.c`, `mac_radio.c`, `mac_sleep.c`, interrupts of `mac_mcu.c`) | one frame going out, one coming in, the ACK between them, receiver on or off | transmit, receive, retry, ACK, channel, sleep, reset | three interrupts and the thread share a dozen flags; an interrupt comes late, the FIFO overflows | no frame cut off, each one completed, the receiver off when nothing needs it |
| NWK, upper MAC, ZCL, MT, SAPI | the rest of the Zigbee stack | - | - | vendor code, partly binary only |
| ZNP, boot loader, OAD, sample utilities | other programs | - | - | not linked into the application |

How they interact: the task loop calls `SmartHomeApp_ProcessEvent` with the
events of the application; messages (incoming data, confirmations, key presses,
state changes) come through the OSAL queue; the UART driver calls
`SmartHomeApp_CallBack` from `Hal_ProcessPoll` on the same thread, so that a
command typed at the UART and the handling of a message exclude each other, and
one call of a handler is one step of the protocol models. Interrupts share the
queue, the events and the timers with the thread; that is what `OsalTasks`
takes apart. Devices interact through frames, of which the network confirms each
one to its sender.

Below that, `osalTimeUpdate` takes the time from the MAC timer (`OsalClock`) and
walks the timers with it (`OsalTimers`), whose events the loop of `OsalTasks`
takes; when the loop finds nothing to do it asks for the next time-out and
sleeps (`OsalSleep`). Messages and timer records come from the heap
(`OsalMemory`). The name and the network state are NV items (`OsalNv`); the
network state decides how `ZdStartup` begins, and its `ZDO_STATE_CHANGE`
message starts the application's timers (`Joined` of `DefaultLight`).

The plan (section 7) takes the application first, because it is the
repository's own logic, then the operating system it relies on, then the stack.

## 2. Modules

| Module | Models | Extends / uses |
|---|---|---|
| `NameDirectory` | abstract: a one-to-one directory whose bindings last a number of puts | - |
| `NameAddrTable` | the operations on `name_addr_cache` as operators on a table | - |
| `NameAddrCache` | the cache as a state machine, and its refinement of `NameDirectory` | `NameAddrTable`, `NameDirectory` |
| `SmartHomeSender` | what a device remembers of what it sent, as operators | `NameAddrTable` |
| `SmartHomeSend` | one device sending, with the confirmations in flight | `SmartHomeSender` |
| `SmartHomeNet` | all devices: protocol, network, renames, resets, rejoins | `SmartHomeSender` |
| `DefaultLight` | the lights of a device and the timer that drives them | - |
| `OsalTasks` | task loop, events and message queue under interrupts | - |
| `OsalTimers` | the timer list, walked between critical sections | - |
| `HeapStore`, `OsalMemory` | abstract: disjoint places, refused only if there is none; the chain of blocks and its refinement | `HeapStore` |
| `OsalClock` | the free running count made of the MAC timer, and the milliseconds made of it | - |
| `OsalCalendar` | seconds to dates and back, beside a calendar on the wall | - |
| `OsalServices` | these four side by side | `OsalTimers`, `OsalMemory`, `OsalClock`, `OsalCalendar` |
| `NvStore`, `OsalNv` | abstract: a map changed by one atomic call; flash pages, one write a step, power failures, recovery and the refinement | `NvStore` |
| `HalUartTx` | the UART's transmitter: buffers, DMA, the register before the line | - |
| `OsalSleep` | the loop's way to sleep and back under interrupts | - |
| `OsalHardware` | these three side by side | `OsalNv`, `HalUartTx`, `OsalSleep` |
| `ZdStartup` | start, join, resume, rejoin, leave; what the application is told | - |
| `MacRadio` | the radio shared by frames in, their ACKs, and one frame out | - |
| `*_proofs` | theorems and lemmas about the module in their name; `SmartHomeSend_proofs` also about `MacRadio`, the other end of sending, `OsalServices_proofs` and `OsalHardware_proofs` about their parts and about these together | the modules they prove about, TLAPS |
| `MC*` | instances for TLC; `MCSending` puts modules together that share no variable, as do `OsalServices` and `OsalHardware` (section 3) | the modules they check |

**Cache.** `name_addr_cache` is a function from slots to entries or `NoEntry`
(NULL). `Put` first frees every slot with the same name or the same address,
then overwrites the slot at the index; `NextIdx` advances the index and wraps
it. `FirstMatch` is the slot the look-up stops at. `SmartHomeNet` and
`SmartHomeSend` use the same operators on their own tables, so that what is
proved of `Put` and `Deleted` holds there too.

**Sending.** `Commanded` is `SmartHome_SendCmdWithAddr`: a unicast is remembered
*before* `AF_DataRequest`, which moves the counter only if the request is
accepted. `AfterFailure` is the confirmation handler: it deletes the last
address from the cache if the number of the confirmation is the last number.
`SmartHomeSend` adds the requests under way. Each carries, as history, its
destination and the number of requests accepted since (`age`); the model needs
both only to state what the number ought to identify. A request to the device's
own address is confirmed inside `AF_DataRequest`, even if it was refused
(`AF.c` 658-671): such a confirmation carries a number that the next request
will use again.

**Network of devices.** A frame is in `air` until `AirDone`, an action of the
environment, puts the message in the queue of the devices it reached and a
failed confirmation in the queue of its sender. Queues are sets: frames
overtake each other in the air. `MessageMSGCB` is the handler of incoming
messages, split by the kind of the message: `ProcessReportNames`,
`ProcessNameAddrMapResp`, `ProcessLightStatusResp`, `NotForMe` (the name in the
message is not mine: a unicast is answered with my name and address, a broadcast
is ignored) and `ForMe` (a broadcast is answered with my name and address, then
the role's handler runs). `bootName` is the name the role was chosen by in
`SmartHomeApp_Init`; `WriteName` changes `name` only. A role compares its own
name as a prefix (`Util_StartWith`), which `Prefix` gives as a relation on
names. The length test of `ProcessNameAddrMapResp` is the set `CachedName`; the
size of the NV item is `Fitting`.

**Lights.** `DefaultLight_Update` is the handler of
`SmartHomeApp_TIMER_UPDATE_EVT`: it counts, switches off and starts the OSAL
timer again; `Joined` is the state change that starts it first; `TimerExpires`
is OSAL. `TimeoutRead` is what the two calls of `Util_Str2Dec` make of the text:
the time is read two characters after the light number, whatever its length.

**Task loop.** `Look` is one look at `tasksEvents[idx]` outside a critical
section, `Take` and `Restore` are the two critical sections of
`osal_run_system`; `Receive` and `ReceiveNothing` are `osal_msg_receive`, one
critical section; a handler's send is two (`HandlerSend`, `HandlerSignal`),
between which an interrupt may come; an interrupt routine is one step, as the
thread cannot run during it. Handlers come in the two forms the task table
holds: `SmartHomeApp_ProcessEvent` receives until there is no message left,
`MT_ProcessEvent` once per call.

**Timers.** `Visit` is one round of `osalTimerUpdate` up to the end of its
critical section, `Fire` what follows it: freeing the record that was taken out
and setting its event. `StartTimer` is `osal_start_timerEx` with `osalAddTimer`;
an interrupt may do it between any two steps (`IsrStart`, the key interrupt), the
thread only between two walks. `lag` is the time since the last poll; `asked`,
`age` and `early` of a record are history. A deleted record stays until the next
walk, its `event` flag false.

**Heap.** `len` is the chain of headers as a function from places to lengths,
`inUse` the blocks whose in-use bit is set. `Search` is the loop of
`osal_mem_alloc` in rounds (`Round`), which joins free neighbours on its way and keeps what it
joined even if the request then fails. `ff1` moves as in the code; `kicked` is
`osalMemStat`. The refinement maps the blocks in use to the bytes they hold.

**Clock.** `macMcuPrecisionCount` is an expression over the counter and what the
last reader left behind, `Look` its assignments, `macMcuAccumulatedOverFlow` the
interrupt, which may also never be raised (`Tick`). `osalTimeUpdate` keeps the
remainder of the division in `remUsTicks`. **Calendar.** The sums that
`osal_ConvertUTCTime` takes off year by year and month by month are the functions
`DaysBeforeYear` and `DaysBeforeMonth`; `Length` is the calendar on the wall,
written down without them.

**NV memory.** `flash` is a sequence of items per page with the marks of the page
header. `pc` names the write that comes next: `MarkPage`, `CopyMark`, `CopyItem`,
`CopyChk` are `compactPage`; `WriteHeader`, `MarkOld`, `WriteData`, `SetChk`,
`ZeroOld` are `writeItem`; `PageUse` and `ErasePage` the clean-up after a
compaction. `Crash` may come before any of them; `BootUse` to `EraseMost` are
`initNV`. `EraseLeaves` is what an interrupted erase may leave. `Read` is
`osal_nv_read`: a hot item is read at the place in RAM, unseen, and before that place
is set it is `Garbage` (page 0 holds code); others are searched for. `inited` is
history: the hot items that `osal_nv_item_init` was called for since power-up, which
the code asks for before a read or a write. `pgLost` is worked out from the
flash; the code's counter in RAM may be smaller after a recovery, where `initPage`
returns early at an item marked as old (`OSAL_Nv.c` 460-462), so that the code may find
no room, or take another page, where the model compacts one.

**UART transmitter.** Bytes are numbered in the order of the writes. `BeginWrite`
and `EndWrite` are the two halves of `HalUARTWriteDMA`, around the copying;
`PollShadow`, `Fire` and `Recover` the parts of `HalUARTPollDMA` that deal with
transmitting; `HalUARTIsrDMA` the interrupt. `Transfer`, `Load` and `TxTick` are
the hardware: DMA, the register `DBUF`, and the line.

**Sleep.** `thread` goes through the loop of `osal_run_system`: poll, allow
(`ALLOW_SLEEP_MODE` in `Hal_ProcessPoll`), scan for a task, and with none
`osal_pwrmgr_powerconserve` and `halSleep` with the moments at which an interrupt
can still come. `PconValue` is `halSleepPconValue`.

**Start-up.** The ZDApp task is one of the loop's: `msgs` come before `events`,
which have the order of `ZDApp_event_loop` (`Handles`). `NetworkInit` is the
event together with `ZDO_StartDevice`; `NwkDiscCnf`, `NwkJoinInd` and `NwkJoinReq`
are the messages of `ZDApp_ProcessOSALMsg`, the second with its cases
(`JoinSucceeded`, `JoinFailed`, `RejoinFailed`); `StateChange` is
`ZDO_UpdateNwkStatus`. The callbacks (`*CB`) are called by the network layer at
any time, leave their status in the one variable `nwkStatus`, and a message or an
event. `requests` are the ones the layer has accepted and not answered. `nv` is
what a power failure leaves; `ColdStart` is `ZDOInitDevice` with the reset before
it.

**Radio.** `m` holds the flags of the low level and the registers of the radio (the
module lists them); functions of the code that call one another are operators on it.
An interrupt is a step (`RfIsr` with the command processor's and the ACK's,
`RfIsrLoop` for each round over the FIFO, `RfErrIsr` for the overflow). `macTxFrame`
is cut where an interrupt makes a difference (`TxFrame`, `Prepare`, `GoOrQueue`,
`Go`, `Arm`, `TurnOn`, `Run`), as is `macRxDisable`. A frame that comes in is cut up
into what one interrupt reads: the header, the addresses with the security header and
payload, the FCS. The radio acts by itself (`Arrive` to `AckTimeout`): frames come
in, fill the FIFO, are acknowledged; the CSMA program finds the channel busy or free
and sends.

## 3. Runs

| Run | Question | Bounds, and why they are enough |
|---|---|---|
| `cache` | `TypeOK`, `OneToOne`, `ImplementsDirectory` | 3 slots, 4 names, 4 addresses: the table fills, wraps and evicts, with free slots and without; no other bound |
| `send` | `TypeOK`, `MatchIsOwn`; `RadioSafe`, `FramesCompleted` | application: byte of 3 values, 2 requests open at once, 2 slots: the counter wraps with requests open. Radio: five kinds of frames (ACK, with and without a request for one, damaged, refused security header), a FIFO of 3 pieces, which overflows with the second frame, one flag, one backoff; interrupts as late as can be, calls without end |
| `send_id` | `DropsOnlyFailedAddress` (violated) | the application's part of `send` |
| `net` | `TypeOK`, `OnlyTruthsCached`, `LightObeysOwnName` | 3 devices, 2 commands at any time, one each of fault, rename, reset, rejoin, in every order |
| `net_settles` | `SettlesDown` | 2 commands of all kinds (`Toggle`, `LightStatus`, `ReportNames`) at any time, a rename, a transaction number of 2 values, which wraps; no faults, which only remove messages |
| `net_heals` | `LightsAnswer` | 3 rejoins: two devices swap addresses by way of a spare one, or one takes another's; commands without end, one at a time, so that 2 transaction numbers do; names that fit the cache |
| `net_long` | `LightsAnswer` (violated) | as `net_heals`, with 2 rejoins, which are more than it takes, and a device whose name is too long to be cached |
| `light` | `TypeOK`, `Punctual`, `LightsOut` | 3 lights as in the code, uint16 of 5 values, times of 0 to 2, typed times that are too long, equal to 0xFFFF, or wrap; 3 timed commands, one failed timer start |
| `osal` | `TypeOK`, `NoLostWakeup`, `NoLostEvent`, `InOrder`, `AllDone` | 3 tasks of both forms, 2 messages to each, 2 events, from handlers and interrupts |
| `services` | `WellFormed`, `Kept`, `Exact`, `ImplementsHeap`, `NothingLost`, `TellsTheDate` | timers: 2 timers in 2 records, times 0 to 2 with up to 2 ms between polls, 3 starts: a timer is restarted or stopped while its record waits, is looked at, or is just taken out. Heap: 17 bytes, so that bucket and wilderness both fill and fragment; no bound on calls. Clock: period 8, up to 7 ticks between polls, 60 ticks. Calendar: 401 days from 2000, 2100 and 2135, three times of the day |
| `hardware` | `WellFormed`, `ReadsStored`, `ImplementsStore`, `BootEnds`; `BytesInOrder`, `EverythingSent`; `NothingSleptOver`, `Served`, `GoesToSleep` | flash: 3 pages of 2 items, a hot and another item, 2 values; calls, `osal_nv_item_init` after a power-up or none, and power failures without end. UART: buffers of 3, a character time of 1 tick, a tick counter of 4 values. Sleep: every interrupt at every step; times none, long, too short, due |
| `startup` | `ZdTypeOK`, `OnItsWay`, `Told`, `StartsAnew`, `GetsIn` | coordinator, routers and end devices, with and without saved state; 2 faults of any kind (power failure, leave, lost parent, moved channel, address conflict, no memory for the message), any number of refused requests and failed answers until all goes well; limits of the retry counters lowered to 1 and 2 |

`send`, `services` and `hardware` check several modules in one run. These share no
variable, and composing them would only multiply states: `part` says which one a
behaviour is about, the others stay as they are at first. A property about one
part is either true of the others' initial state or guarded by `part`; the
fairness conditions are written over the steps of all parts together, which says
the same of each.

What they show beyond the table:

- `ImplementsDirectory`: a binding that nobody contradicts survives exactly as
  many puts as there are slots (its own included), and none less. The code
  evicts a live entry while other slots are free; the directory shows that this
  never makes a binding live shorter than that.
- `MatchIsOwn`: the match of `SmartHomeApp.c` 440 is right as long as fewer
  requests than the byte has values were accepted since the last command and
  since the request that is confirmed. `send_id` is what happens without that
  condition: the two statics are zero after a reset, and the first request of
  all has number 0, so that a failed first broadcast drops the cache entry of
  address 0, the coordinator.
- `LightObeysOwnName`: what moves a light is a command for a name that the
  device bears now and whose beginning is the name it booted with. A renamed
  light that was not reset therefore obeys nobody, unless the new name begins
  with the old one.
- `SettlesDown`: a broadcast is answered by one device or more, an answer that
  is not for its receiver by one announcement, and an announcement by nothing.
- `LightsAnswer`: two ways of repair work together, the announcement of the
  device that got a command for another name and the failed confirmation of a
  command that nobody got. `net_long` is the gap between them: a device that
  gets the command (no failure) but whose announcement is refused because of
  its length.
- `Punctual`: an Update switches off a light after as many Updates as asked for;
  in time, between n and n+1 seconds. The mutant for `TypeOK` shows that only
  the test for 3000 keeps a time of 65535 from meaning "no timer".
- `RadioSafe`: no `MAC_ASSERT` of the low level fails, of which the ones at stake are
  that a queued frame is not started in the middle of a receive, that an interrupt
  finds the piece it expects in the FIFO, and that the command processor's program is
  not replaced while its interrupt is awaited; nothing turns the receiver off under a
  frame that is going out, and it is off in the end if nothing wants it on.
- `FramesCompleted`: a frame that was queued behind a receive is started at its end,
  whether the frame was taken, filtered, damaged or thrown away with the FIFO; and
  the transmit ends by its ACK, by another frame, by the timeout or by a channel that
  is never free. One case is excepted by name: if the receive interrupt comes so late
  that the radio has already sent the ACK, the interrupt at the end of the ACK is
  cleared before it is let through (`mac_rx.c` 763), `macRxOutgoingAckFlag` stays
  set, and a queued frame waits until the next frame comes in (`AckMissed`).
- `NoLostWakeup`: `osal_msg_receive` clears `SYS_EVENT_MSG` while a sender may
  be between its two critical sections; the sender's second step sets it again.

- `Kept`: whatever interrupts do during the walk, a timer that was started and not
  stopped has exactly one record that will fire, or is firing just now.
- `Exact`: a timer is charged with every millisecond since it was started, and
  with those that were over when it was started, since the last poll (`early`): it
  fires early by less than the time between two polls, never late by more.
- `ImplementsHeap`: a request is refused only if the region it may be served from
  has no run of free bytes that is long enough, *neighbouring free blocks taken
  together*, so that joining them lazily never costs a request.
- `NothingLost`, which contains `FreeRunningAtFirst`: the count agrees with the time whether
  reader or interrupt comes first after a rollover, or no interrupt at all, as
  long as it is read at least once per period, and until it wraps for the first
  time.
- `WellFormed` of `hardware` is the type invariants of its three parts (of the flash:
  no page is written past its end) and `OneReserve`: whenever the memory is ready, one
  page is erased and all others are in use. Each conjunct is proved for its module
  (`WithinPages`, `ReserveKept`, `TransmitterTyped`, `SleepTyped`), and all of them
  for the composition (`HardwareWellFormed`).
- `ImplementsStore`: every call on an item is atomic under power failures, also
  ones during a compaction that the call causes and during the recovery. With
  items of one size: see section 6 for items of different sizes.
- `BootEnds`: the recovery ends whatever it finds, also what earlier recoveries
  left half done.
- `BytesInOrder`: the wait of a character's time before the DMA is armed again is what
  keeps the byte in `DBUF` from being overwritten; the mutants show that the wait
  may neither be one tick shorter nor wait for one exact tick.
- `EverythingSent`: each poll that finds data and an idle DMA starts the waiting
  time anew; polls that are *always* less than a character's time apart would
  never send. Its condition says that they are not.
- `NothingSleptOver`, `GoesToSleep`: clearing `halSleepPconValue` in every
  interrupt and allowing it again once per loop are both needed.
- `OnItsWay`: each branch of ZDApp that ignores an answer leaves something else
  under way. `GetsIn` is the same as liveness: once the network works, retry
  counters and start modes always lead in; a coordinator that has tried all its
  energy thresholds waits for the user, and a router that is joining for the
  first time never looks at channels other than its own.
- `Told`: several state changes before the application runs share one message,
  which is brought up to date; without memory for it the event stays set.
- `StartsAnew`: from the reset after a leave on, power failures at any time do not
  bring the old network back.

Deadlock is checked in `cache`, `send`, `light` and `osal`. The runs of
`SmartHomeNet` stop once the users' commands, renames, resets and rejoins are
used up; `services` and `hardware` contain parts that are bounded (ticks, days,
starts); and in `startup` a device that has joined, or was told to stay away, has
nothing left to do. The radio can always be called.

## 4. Fairness

- `SmartHomeNet!FairSpec`: the network is done with every frame in the end (a
  frame is sent, or given up after the MAC's retries, and confirmed), and each
  device handles its confirmations and its messages, because the task loop never
  stops (`osal_start_system`) and the handler empties its queue
  (`SmartHomeApp.c` 411-483). All weak.
- `SmartHomeNet!PersistentSpec` adds strong fairness of the users: they send a
  `Toggle` to each light again and again. It is an assumption about users, not
  about the code; without commands no light can be asked to answer. They are
  patient, sending when nothing is under way: with a second command under way,
  the failure of the first is not recognised (see the hazard at
  `SmartHomeApp.c` 440), and users who always send two at a time could keep a
  dead address in the cache. `SingleHop` assumes that a unicast nobody received
  is not confirmed as delivered. The application does not ask for end-to-end
  acknowledgements (`AF_ACK_REQUEST` is not set), so beyond one hop this does
  not hold, and neither does `LightsAnswer`.
- `DefaultLight!FairSpec`: the device joins the network once, its OSAL timer
  expires, and the task loop comes to its event. An end device never starts the
  timer (`SmartHomeApp.c` 464); its lights are not covered by `LightsOut`.
- `OsalTasks!FairSpec`: the thread goes on. Interrupts have no fairness. The
  number of messages and events is bounded: with events for a task of high
  priority without end, lower ones do starve.

- `OsalNv!FairSpec` (for all three parts, `OsalHardware!AllFairSpec`): a call, once begun, and the recovery go on
  while there is power. Power failures have no fairness, and `BootEnds` assumes
  that they end.
- `HalUartTx!TxFairSpec`: the thread finishes what it began and polls again and
  again (`Hal_ProcessPoll` in every round of the loop; strong, because a write may
  come in between each time), a pending DMA interrupt is taken, and the sleep timer
  ticks.
- `OsalSleep!SleepFairSpec`: the thread goes on unless the processor is stopped; an
  interrupt that is raised and let in again and again is taken (strong, because the
  sequence that leads to sleep disables interrupts for a moment in every round);
  the sleep timer runs.
- `MacRadio!MacFairSpec`: the thread goes on with the call it is in, the radio does
  what it was told, and an interrupt that is due is served in the end. The last is
  weak fairness of the interrupts, written out (`InterruptsServed`): either none is
  due again and again, or one is taken again and again. Frames and calls have no
  fairness; `FramesCompleted` assumes that frames stop coming in, since a receive
  always goes before a transmit.
- `ZdStartup!ZdFairSpec`: the task runs, its retry and reset timers expire
  (`OsalTimers`), and the network layer answers what it has accepted. Refused
  requests and failed answers may go on as long as `network.well` is false; `GetsIn`
  is about behaviours in which it becomes true.

## 5. Proofs

TLAPS proves, for all values of the constants:

| Theorem | Statement |
|---|---|
| `NameAddrCache_proofs!TypeCorrect` | `Spec => []TypeOK` |
| `NameAddrCache_proofs!CacheOneToOne` | `Spec => []OneToOne` |
| `NameAddrCache_proofs!CacheImplementsDirectory` | `Spec => ImplementsDirectory` |
| `SmartHomeSend_proofs!TypeCorrect` | `Spec => []TypeOK` |
| `SmartHomeSend_proofs!NumberIdentifies` | `Spec => []MatchIsOwn` |
| `SmartHomeSend_proofs!RadioIsSafe` | `MacSpec => []RadioSafe` |
| `SmartHomeNet_proofs!TypeCorrect` | `Spec => []TypeOK` |
| `SmartHomeNet_proofs!CachesTruthful` | `Spec => []OnlyTruthsCached` |
| `SmartHomeNet_proofs!LightsObeyOwnName` | `Spec => LightObeysOwnName` |
| `DefaultLight_proofs!TypeCorrect` | `Spec => []TypeOK` |
| `DefaultLight_proofs!TypeAndTime` | `Spec => [](TypeOK /\ Punctual)` |
| `OsalTasks_proofs!TypeCorrect` | `Spec => []TypeOK` |
| `OsalTasks_proofs!WakeupsKept` | `Spec => []NoLostWakeup` |
| `OsalTasks_proofs!EventsKept` | `Spec => []NoLostEvent` |
| `OsalTasks_proofs!MessagesInOrder` | `Spec => []InOrder` |
| `OsalServices_proofs!TypeCorrect` | `Spec => []TypeOK` |
| `OsalServices_proofs!TimersKept` | `Spec => []Kept` |
| `OsalServices_proofs!TimersExact` | `Spec => []Exact` |
| `OsalServices_proofs!CountRunsFree` | `PolledInTime` implies `ClockSpec => []FreeRunningAtFirst` |
| `OsalServices_proofs!ClockIsTyped` | `PolledInTime` implies `ClockSpec => []ClockTypeOK` |
| `OsalServices_proofs!NoTimeLost` | `PolledInTime` and `MaxTicks < Width` imply `ClockSpec => NothingLost` |
| `OsalServices_proofs!DatesAreTold` | `CalendarSpec => []TellsTheDate` |
| `OsalServices_proofs!BlocksInChain` | `MemSpec => []MemTypeOK` |
| `OsalServices_proofs!BlocksAreCounted` | `MemSpec => []Counted` |
| `OsalServices_proofs!HeapKeepsPromise` | `MemSpec => ImplementsHeap` |
| `OsalServices_proofs!ServicesWellFormed` | `PolledInTime` implies `AllSpec => []WellFormed` |
| `ZdStartup_proofs!TypeCorrect` | `ZdSpec => []ZdTypeOK` |
| `ZdStartup_proofs!ApplicationTold` | `ZdSpec => []Told` |
| `ZdStartup_proofs!LeaversStartAnew` | `ZdSpec => []StartsAnew` |
| `ZdStartup_proofs!AlwaysOnItsWay` | `ZdSpec => []OnItsWay` |
| `OsalHardware_proofs!ReserveKept` | `Spec => []OneReserve` |
| `OsalHardware_proofs!ReadsAreStored` | `Spec => []ReadsStored` |
| `OsalHardware_proofs!WithinPages` | `Spec => []TypeOK` |
| `OsalHardware_proofs!WritesAreAtomic` | `~TornErase \/ SameSize` implies `Spec => ImplementsStore` |
| `OsalHardware_proofs!WritesAreAtomicOnceAllLost` | `Spec /\ []AllLost => ImplementsStore` |
| `OsalHardware_proofs!SleepTyped` | `SleepSpec => []SleepTypeOK` |
| `OsalHardware_proofs!NothingIsSleptOver` | `SleepSpec => []NothingSleptOver` |
| `OsalHardware_proofs!TransmitterTyped` | `TxSpec => []TxTypeOK` |
| `OsalHardware_proofs!BytesLeaveInOrder` | `TxSpec => BytesInOrder` |
| `OsalHardware_proofs!HardwareWellFormed` | `AllSpec => []WellFormed` |

Assumptions: the number of slots and of tasks and the width of the transaction
counter are positive; `NoEntry` is no entry; the broadcast address is not a
unicast address and 0x0000 is one; the longest time is below the value that
means "no timer"; `SYS_EVENT_MSG` is not an event of a task's own; what a device
can start as is one of the kinds of device (`DevicesAssumption`); the UART's
buffers, the time of a character and the width of the tick counter are positive
(`TransmitterAssumption`); frames are cut up as `AnyFrame` says, and the number of
backoffs and the size of the FIFO are natural numbers (`RadioAssumption`); there are two flash pages or more, an item fits a page,
and the mark of a zeroed item is no item's id (`IdAssumption`); bucket and wilderness
of the heap have room for a block, and no request is for nothing (`HeapAssumption`);
the days on which the calendar starts are New Year's Days of real years, it runs
within UTCTime, and the seconds are those of a day (`FirstDaysAssumption`,
`SpanAssumption`, `SecondsAssumption`). The code's constants satisfy all of them. The
theorems about the clock, and the one about all services, have hypotheses of their
own. `PolledInTime` says that polls are
less than a rollover (83 s) apart and that the milliseconds between two of them
fit the 16 bits of `elapsedMSec`: the loop polls in every round, and longer sleeps
are left out (section 6). `MaxTicks < Width` says that the count of 32 bits has
not wrapped, which it does after 16 days; what happens then is in section 6 too.
Those of the two theorems about atomic writes are explained below.

- *One-to-one* is inductive together with `TypeOK`: what `Put` leaves in the
  slots other than the index differs from the new entry in name and in address.
- *The refinement* of the cache reads a binding off each occupied slot, its age
  being the distance from the slot to the index. `AgeSteps` says that advancing
  the index makes the slot just written age 0 and each other one a put older, and
  that the slot at the index is the one of the greatest age, which is the one that
  `Put` overwrites.
- *MatchIsOwn* is not inductive: it does not say which number an open request
  has. The strengthening `Numbered` does: the number of a request is the one the
  counter had `age` requests ago (`Drawn`), the remembered number the one
  `sinceLast` requests ago, and an open request as old as the last command has
  its address. `DrawnSteps` is the arithmetic of the wrapping counter: one more
  request moves every number one back, and numbers less than a whole round apart
  differ.
- *RadioSafe* is inductive as `RadioInv`, whose parts hold between any two steps of
  thread, interrupts and radio; k is the place of the thread in `macTxFrame`.
  `Sending` says what `macTxActive` and k tell of the command processor, of which of
  its interrupts are pending and let through, and of the number of backoffs: it is
  what makes a program that was started unable to end twice. `Dark` and `Lit` say
  when the receiver must be off and what it is on for, `Settled` that a change of the
  channel waits only for a transmit. `Fits` is about the pieces: those in the FIFO and
  those still in the air make a chain that begins with the piece the next interrupt
  expects, so that no interrupt reads a piece of another frame. A handler that
  starts a queued frame or gives up a receive does so in the middle of its own work:
  `Kept` says what may have happened to the receive then (nothing, a flush, or a
  flush put off by `rxResetFlag` to the end of the interrupt), and each lemma about a
  function of `mac_rx.c` is proved up to that. TLC checked that `RadioInv` is an
  invariant before it was proved.
- *OnlyTruthsCached* becomes inductive as `Truthful`, which says of the frames
  that tell a binding, in the air and in every queue, what the invariant says of
  the caches: a frame stays as it was sent, and bindings that were true once stay
  in the history. The lemmas `GetAddrType` and `EntriesAfter` say what a look-up
  gives, and what a put and a deletion leave in a table: facts about the operators of
  `NameAddrTable`, which the network, the sender and the cache share.
- *LightObeysOwnName* is an action property; besides type correctness it needs
  that the number of resets changes at every reset (`ResetsCounted`), which is what
  tells a light that was reset from one that was switched.
- *Punctual* is proved together with `TypeOK`: the sum of the timer and the
  Updates since the command is kept by every step.
- *NoLostWakeup* is inductive together with `TypeOK`, which says that outside a
  handler no events are held. `ExtractStep` says that after a message was taken
  out a task has messages left only if it had others, in which case
  `osal_msg_receive` has set its event again.
- *InOrder* says that the place of a message among those of its task and its
  number differ by what the task has received. It is kept by counting: `UpTo` is
  the set of places of a task's messages up to one place, `RemoveCount`,
  `ExtractCount` and `EnqueueCount` say how taking the first one out, and adding
  one at the end, change its cardinality.
- *NothingSleptOver* (and the typing, `SleepTyped`) needs `Drowsy`, the knowledge at each place of the way to
  sleep: which of the earlier tests still hold there, and that whichever interrupt
  undid one of them has cleared `halSleepPconValue`.
- *BytesInOrder* needs three conjuncts. `TxTyped`: the DMA reads only as long as
  `DBUF` is full and raises its interrupt when it is through. `BufferRoles`: the
  buffer that is written is never the one that is read, the other one is empty
  when no DMA is at work, and a byte still in `DBUF` by then reaches the line
  before the wait of a character's time is over. `BytesOrdered`: the line, the shift
  register, `DBUF`, what the DMA still reads and the buffer being filled make one
  run of successive numbers that ends in the byte accepted last. `TransmitterTyped`
  follows from the first two.
- *Kept* of the timers is inductive with `FiresNow`: the record that a walk took
  out fires now, or was stopped. `WithoutStep` says what
  taking a record out leaves of the list, `StartStep` what a start does to it, in the
  thread or in an interrupt, and `SameRecords` that nothing else matters.
- *Exact* needs `LagBounded` and an account of each record, `Balanced`: what is
  left of it and what it was charged make up what was asked for and what it still
  owes for the walk. A start opens the account balanced (`NewBalanced`), the walk
  pays what a record owes (`ChargePays`), and a tick makes all owe more
  (`TickCounts`).
- *The clock* has the invariant `Running`: the software's part of the count is
  right or one period behind, and in the second case the last reader left what
  shows it to the next one. `CountIsTime` turns it into the count, `Conversion` is
  the division by 25 with its remainder, in the width of `elapsedMSec`.
  *ClockIsTyped* adds `Turned`, that the time of the last rollover is a number of
  periods; `ClockTyped`, the widths of the counts, holds also when the count has
  wrapped.
- *TellsTheDate* compares sums that the code takes off year by year and month by
  month with a calendar that goes on day by day. `YearsBegin` and `MonthsBegin` are
  closed forms of the sums. They are statements about recursive functions, and
  are proved without induction: of the years for which the closed form fails
  `LeastOf` gives the first, and the sum of that year follows from the one before
  (`CountedUp` packs this argument for the uses of it). `YearsInOrder` and
  `MonthsInOrder` say that the sums grow, so that one year and one month only fit a
  number of days, and `CalendarInv` that the calendar on the wall is in both.
- *The heap* has the invariant `HeapInv`: the headers make a `Chain`, all blocks are
  longer than a header, all blocks below `ff1` are in use, and `ff1` is at the front
  until the heap is kicked. `JoinedChain` and `SplitChain` say that a join and a
  split leave a chain. A search is a function of the number of rounds
  (`SearchIsRounds`), and `Searched` is what holds after each of them: no block in
  use was touched, and each free block that was passed is too small and has a block
  in use behind it, or is the one that is being joined. That every round passes a
  byte or more is why the search is over in the end (`SearchEnds`). A request is
  refused rightly (`RefusedRightly`) since every byte of the region lies in a block
  in use or in one that was passed, and two of the latter are never neighbours. For
  that `ff1` must not have passed a free block: the reason for the second and
  third conjuncts, as `osal_mem_kick` sets `ff1` to the first block that has room
  for a byte.
- *Counted* is inductive with `HeapInv`, in terms of cardinalities (`Metrics`). The
  bytes in use are a sum over a set that is taken in an order nobody knows
  (CHOOSE): `AnyFirst` says that any element may be taken first, whence `SumAdded`.
- *ServicesWellFormed* and *HardwareWellFormed* put the invariants of the parts
  together: a step of one part is one of its own specification, and leaves the others
  as they are.
- *Told* is inductive together with type correctness, of which `Typed` is the
  inductive form: it bounds the scans, and a device that resumes has retries left.
- *StartsAnew* is carried through power failures by `Anew`: nothing is left, in RAM
  or NV memory, that a device which left for good could resume from.
- *OnItsWay* rests on who starts networks (`Roles`) and on `DiscoversOnce`: a device
  that discovers although it should resume has a start waiting.
- *OneReserve* is the last line of `Reserve`, which says before each write to the
  flash which page is in reserve, filled or under compaction. `PlacesOfItems`,
  `FirstOfIn`, `OneErased`, `HighestIn` and `MostLostPage` show that what the code
  looks for by a walk over pages or items (a CHOOSE in the model) exists; they rest on
  `LeastOf`, a set of numbers has a least one, which also takes the place of
  induction: `TotalIsSum` unfolds the recursive sum of `initPage` by way of the least
  number for which it would fail.
- *ReadsStored* speaks of a memory at rest, and of hot items that
  `osal_nv_item_init` was called for (`OSAL_Nv.c` 1204); `Placed` says that these have
  a place, which only a power failure takes away. The property is not inductive: a call takes up
  to a dozen writes, and a power failure may leave the pages after any of them.
  `Sound` says for each place between two writes what the items that are not zeroed
  are like: `Clean` (good, no id twice) or `Paired` (of two good copies one is marked
  as old), which page may bear the mark of a compaction (`Marked`), how far the
  copies in the reserve page agree with the page they come from (`To`), and where
  the places in RAM point (`HotIn`, `HotCopies`). `AtBoot` is its heart: whatever
  write the power failed in leaves a `Recoverable` flash, and from it `initNV` gets
  back to `Clean`. One lemma for each action shows that the action keeps `Sound`, on
  top of `ItemReplaced`, `ItemAdded` and `PageReplaced`, which say what one write
  does to the items. `CopiesComplete` is the moment at which the reserve page takes
  over, and `SoundCrash` with `EraseInterrupted` and `ErasedInPart` the power failure,
  in a torn erasure too. That `Sound` is inductive was checked by TLC on two and
  three pages before it was proved.
- *WithinPages*, the type invariant of the flash: no item is written past the end of
  its page, and the offsets in RAM are those of places that exist. Each write is
  preceded by a test for room, but the test was made several writes earlier, and
  `compactPage` copies without any: `Rooms` says at each place what room is left.
  There it is that what has been copied so far is no larger than the items of the
  old page that have been passed, so that the rest fits as it did before. The
  lemmas from `CountedUp` to `TakenStays` are about sums of sizes (one more item, none,
  the sum of a part); `OneWrite` says that a step writes one item, or a mark, or
  erases one page.
- *WritesAreAtomic* shows that `OsalNv` implements `NvStore`, with the value that a
  start would find as the refinement mapping. `Held` says at which write a call
  takes effect: in most places the store is what the item that is not zeroed says,
  and only the step that sets the checksum of a new item (`SetChk`), or that zeroes
  the last good copy, changes what would be found. For each action a lemma says that
  it changes nothing, or does what the call asks for; `StoreStep` puts them together
  with `Sound`. The mapping fails at one place only: `initNV` may have to erase the
  page with most lost bytes because it finds neither a reserve page nor a mark of
  compaction, which is right only if that page has no items left that count
  (`AllLost`). `WritesAreAtomicOnceAllLost` is the theorem for all memories in which
  that holds; the other theorem gives two conditions, each of them enough. Without
  torn erasures the page under compaction still bears its mark (`Resumable`). With
  items of one size the page that was under compaction was full and all of it is
  lost, so that no page has more lost bytes (`AtFull`). With torn erasures *and*
  different sizes the property is false, as section 6 says.

Only model-checked: all liveness (`SettlesDown`, `LightsAnswer`,
`LightsOut`, `AllDone`, `BootEnds`, `EverythingSent`, `Served`, `GoesToSleep`,
`GetsIn`, `FramesCompleted`), which is out of the proof system's reach. Every
invariant that a run checks is stated by a theorem.

## 6. Not modelled

- The Zigbee network layer, the upper level of the MAC, ZCL and the vendor's other programs: external
  to the application, partly without source. The stack appears as the
  environment (`AirDone`, `Rejoin`, `Joined`; the answers of `ZdStartup`).
- `user_printf.c`: formatting of the log. One of its limits was noticed while
  reading: its buffer for one number (line 83) is one character short for
  negative numbers of five digits, which nothing in the application prints.
- Exhaustion of the heap, except where its effect is a lost confirmation
  (`SmartHomeSend`), a stopped clock (`DefaultLight`), a timer that is not started
  (`OsalTimers`) or a state message that waits (`ZdStartup`). `NameAddrCache_put`
  does not test the result of `osal_mem_alloc`; `ZDApp_NetworkInit` and
  `ZDApp_SendMsg` do not look whether their timer or message was had.
- Text: names and commands are model values and records. What the text decides
  (which name a command bears, which name begins with which, which are too long,
  what a number reads as) is kept.

What the newer modules leave out:

- `OsalTimers`: `osal_next_timeout` and `osal_adjust_timers` (power manager), more
  than one event in one call.
- `OsalClock`: `macMcuOverflowSetCount`, polls more than a period (83 s) apart;
  `elapsedMSec` of 16 bits would drop time beyond 65 s between polls
  (`OSAL_Clock.c` 158).
- `OsalNv`: a header and the data copied behind it are one step; a flash write that
  fails; deletion of a hot item; writes at an offset, which copy the rest.
- `HalUartTx`: polls 256 ticks apart or more; the receiver, whose code shares no
  state with it.
- `OsalSleep`: the conversion of milliseconds to ticks of the sleep timer.
- `ZdStartup`: the choice among several beacons (one is found or none), poll rates,
  LEDs, the device announcement, security (the program is built with SECURE=0), and
  the entry points of MT, `StartJoiningCycle` and `StopJoiningCycle`. That a
  coordinator's `NLME_StartRouterRequest` is answered by
  `ZDO_NetworkFormationConfirmCB` is an assumption about the library.
- `MacRadio`: slotted transmits and slotted CSMA (the networks of the program have no
  beacons), scans and promiscuous mode, power levels, retransmissions (a frame sent
  again is one more frame), the contents of frames. That the upper level sends one frame at a
  time, and wakes the radio before it uses it, is an assumption about the library.

Noticed while reading or checking, and not stated as findings, because no text
of the repository is contradicted in a run, or because the models leave the case
out:

- A timer fires early by up to the time since the last poll (`OSAL_Timers.c` 170),
  although line 241 says "to expire in n mSecs".
- `osal_start_timerEx` on a reload timer keeps its `reloadTimeout`
  (`OSAL_Timers.c` 139): it will fire again and again.
- The wrap of the 32-bit count after 16 days is taken for a rollover
  (`mac_mcu.c` 798); the clock leaps by 251 s.
- With items of different sizes and an erase whose interruption clears the mark of
  compaction alone, the page with most lost bytes need not be the one that was
  being erased (`OSAL_Nv.c` 323), and live items are erased with it.
- `findItem` does not look at the checksum (`OSAL_Nv.c` 430): an item whose write
  failed hides the good old copy until the next power-up. `osal_nv_delete` leaves
  the place of a hot item in RAM (line 1485). Before `osal_nv_item_init` a hot item
  is read, with SUCCESS, at offset 0 of page 0 (line 1433): the comment at line 1204
  asks for that call.
- Between a leave with rejoin and the reset `LEAVE_RESET_DELAY` later a power failure
  brings the old network back (`ZDApp.c` 1787-1789).
- `zdoDiscCounter` is a byte and wraps (`ZDApp.c` 1131): after 256 fruitless scans
  the next networks are ignored for a while.
- The end of an ACK can be missed (`mac_rx.c` 763, see `FramesCompleted`); and
  `txGo` takes any ACK to have "long since completed" (`mac_tx.c` 323), although a
  receiver turned off by a late interrupt can cut one short.
- `mac_rx.c` 279 says that `macTxHaltCleanup` is called at a reset; nothing calls it.
- `TurnOn` does not stop a running switch-off timer (`DefaultLight.c` 47).

## 7. Plan

Done: the modules of section 2. Next, in this order:

1. `HalUartRx`: the ring that the DMA fills and the poll empties, with flow control;
   the keys with their debounce timer.
2. `AfEndpoints`: the endpoint list and the delivery of incoming data.
3. String helpers (`Util_*`) as functions checked against reference
   definitions over bounded texts, joining `SmartHomeNet`'s `Prefix` and
   `CachedName` to the code; `Util_ReadName` and `Util_WriteName` over `OsalNv`.
