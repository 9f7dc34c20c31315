# A TLA+ verification of the Telink B80 2.4 GHz SDK

This project models the parts of the SDK that keep state across interrupts,
packets and power failures, checks them with TLC on small instances, and proves
what matters most with TLAPS for every instance. The two firmware updaters come
first (over the air, `src/ota/`, and by UART, `src/fw_update/`): they are what can leave
a device without firmware. Then the frequency hopping link
(`src/vendor/freq_hopping_le_{master,slave}/`), the part with the most protocol, and the
structures of `src/common/` and the demonstrations in which an interrupt works on what a
main loop works on, or which lose their place when the power fails.

## 1. Inventory of the system

| Part | Source | State it keeps | Operations |
|---|---|---|---|
| OTA master | `src/ota/ota.c:158-363`, `src/vendor/ota_master/` | `MasterCtrl`, `TxFrame`, `RxFrame`, the static `Len` | `OTA_MasterInit`, `OTA_MasterStart` |
| OTA slave | `src/ota/ota.c:365-701`, `src/vendor/ota_slave/`, `ota_slave2/` | `SlaveCtrl`, `TxFrame`, `RxFrame`, `Len`; flash | `OTA_SlaveInit`, `OTA_SlaveStart` |
| OTA MAC | `src/ota/mac.c`, `interrupt.c` of both applications | `mac_TxBuf`, receive buffers, radio | `MAC_SendData`, `MAC_RecvData`, `irq_handler` and the three `MAC_Rx...Handler` |
| Message queues | `src/ota/ota.c:65-134`, `src/fw_update/fw_update.c:46-102` | `MsgQueue` with `Cnt` and `ReadPtr` | push (interrupt, timer callback), pop (main loop) |
| Flash banks | `src/ota/ota.c:383-391, 652-663`, `main.c:159-167` | two banks, a boot flag in each | program, erase, boot |
| UART update | `src/fw_update/`, `src/vendor/uart_fw_update_*` | the two controls, a timer handle, `PHY_RxBuf`, `PHY_TxFinished` | `FW_UPDATE_MasterStart`, `FW_UPDATE_SlaveStart`, the `PHY_*`, `irq_handler` |
| Software timers | `src/common/timer_event.c` | ten slots | `ev_on_timer`, `ev_unon_timer`, `ev_process_timer` |
| Frequency hopping | `src/vendor/freq_hopping_le_{master,slave}/main.c` | connection, SN/NESN, channel map | SYNC/CONN handshake, `ll_flow_process`, channel map update |
| Ring buffer | `src/common/ringbuffer.h` | array, two pointers, a count | insert, remove, peek |
| UART receiver in software | `src/vendor/uart_soft_rx/main.c` | two frame buffers, a timer with two uses | pin and timer interrupts, `soft_uart_rx_data_process` |
| USB control endpoint | `src/vendor/usb_demo/` | the response pointer, the length left, class settings | SETUP, DATA and STATUS interrupts, bus reset |
| Linked lists | `src/common/list.c`, `tn_list.c` | links inside the items | add, push, pop, insert, remove, ... |
| Managed memory | `src/common/mmem.c` | one array, a list of blocks | allocate, free (which moves blocks) |
| Quicksort | `src/common/qsort.c` | array, stack of 32 frames | `qsort` |
| Radio demonstrations | `src/vendor/gen_fsk_*`, `tpsll_*`, `tpll_*`, `src/drivers/rf_pa.c` | flags of the interrupt, the radio's mode, the amplifier | `irq_handler`, the main loops, `rf_pa_handler` |
| Flash driver and its test | `src/drivers/flash.c`, `flash/flash_*.c`, `src/vendor/flash_operation/` | cells, status and configure register | erase, program, lock, unlock, the test's checks |
| USB keyboard and mouse | `src/vendor/usb_demo/application/usb_app/usbkb.c`, `usbmouse.c`, `keyboard/keyboard.c` | the report fifo, the mask of keys to release; the matrix as read last, the buffer of changes | `usbkb_hid_report`, `usbkb_release_check`, `usb_hid_report_fifo_proc`; `kb_scan_key` |
| Macro lists and hash tables | `src/common/utlist.h`, `hash.h` | links; buckets, two chains per item | the `LL_`, `DL_`, `CDL_` and `HASH_` macros |
| UART driver and demonstrations | `src/drivers/uart.c`, `src/vendor/uart_ndma/`, `uart_dma/` | divider and bit width; flags and buffer between interrupt and loop | `uart_init_baudrate`, `irq_handler`, the main loops |
| Pins, hardware timers, watchdog | `src/drivers/gpio.c`, `gpio.h`, `gpio_default.h`, `timer.c`, `watchdog.h` | registers that pins and timers share | the setting functions, `gpio_init`, interrupts, `timer_*`, `wd_*` |
| Other drivers, pools, boot, libraries, demos | `src/drivers`, `src/boot`, `src/genfsk_ll`, ... | registers | not modelled, section 8 |

How the OTA parts interact. The main loop of each node calls
`OTA_MasterStart` or `OTA_SlaveStart` for ever. A call pops at most one message
and, depending on `State`, starts the radio at most once: to send and then
receive (`gen_fsk_stx2rx_start`), or to receive. The radio is single-shot and
ends in one interrupt (packet, bad CRC, or timeout), whose handler pushes one
message. The slave writes each block to the bank that it does not run from.
After the END request it checks the CRC, sets the boot flag of the new bank,
clears that of the old one, and reboots.

How the UART parts interact. The session is the same, the transport is not: the UART
listens all the time, into a ring of three DMA buffers, and a timer of
`timer_event.c` stands for the radio's timeout. So several messages can wait in the queue,
among them a TIMEOUT whose answer came after all, and the sender spins until an interrupt
says that its frame is out.

How the frequency hopping nodes interact. The master sends LL_SYNC_REQ on the
broadcast channels until the slave answers, then LL_CONN_REQ with sync word,
channel map and hop; LL_CONN_RSP ends the handshake. From then on, every 500 ms,
the master sends a packet on the next channel of its table and listens 350 us for
the answer. SN and NESN acknowledge packets, ten failed events flush one. The
slave rates channels in its interrupt, and `proc_user_task` reports the bad ones.

The others stand alone: a caller, or a main loop and an interrupt, on one structure.

What is hard: packets and acknowledgements are lost, corrupted or come after the
timeout; each node retries on its own; either node can restart inside a session;
the power can fail inside an erasure or between the two flag writes; flash can
only clear bits and only the first 15 sectors are erased; queues, rings and
receive buffers are shared with an interrupt without any protection; one static
`Len` serves both what is received and what is sent again; a timer's handle outlives
the timer. In the hopping link both nodes count hops on their own and must agree without a
clock in common, one `tx_buffer` serves every packet and is patched at fixed offsets, and the
opcode and the acknowledgement bits are read off packets with a wrong CRC, too. Clocks wrap
around; blocks of memory move under their owners; a USB host may give a transfer up
at any stage; reports wait for an endpoint that is busy; contacts open and close at any moment; pins and timers share
registers.

What makes the components correct:

* flash: there is always a bank to boot, the one that runs is not touched, and
  an update happens entirely or not at all;
* update protocols: both nodes count blocks in step, only whole blocks go out, the slave
  collects a prefix of one image, END at the master means that the slave had it all, and
  every session ends;
* queue and MAC over the air: never two messages, nor a message while the radio runs;
* UART: a waiting node has a timer or a message and never a second timer;
* hopping link: no packet is taken twice or let go untaken, the nodes hop together, the
  maps agree once a report was taken, neither radio rests for ever;
* timers: none is early and none is missed, whatever the clock does;
* queue and ring buffer: a FIFO whatever interrupts what; lists: the sequence that the calls ask
  for; memory: blocks keep their bytes, wherever they are moved; the frame that a callback
  gets is the one that was on the line; a USB answer is that to the request asked last;
  sorted output is the input, sorted;
* radio demonstrations: but in four cases none of them stops, whatever is received or lost, and the amplifier
  does not stay on; flash test: it reports an error only if there is one;
* keyboard: a key that goes up is up at the host; macro lists and tables: they hold what was put in, in
  its order; UART: two nodes with one baud rate understand each other, and no block is mixed up;
  pins: what a call made of a pin stays so until another says otherwise;
* version check: an update never goes back to an older firmware (it can: run 3).

All the hazards, with their lines and the properties that cover them, are in
`PROJECT.json`.

## 2. Modules

| Module | Models |
|---|---|
| `OtaImage` | firmware images: their blocks, size, version, trailer (the CRC appended to the binary); shared by both updaters |
| `BootFlash` | the slave's two banks and their flags: programming, erasing, torn erasures, choice of the bank that boots; shared by both updaters, with the lemmas that the proofs of both need |
| `AtomicUpdate` | the abstract specification of both updaters: firmware is received, and installed in one step |
| `OtaMac` | frames, the radio of each node, the interrupt, the message queue, `TxFrame`, `RxFrame`, `Len` |
| `OtaMaster`, `OtaSlave` | one action per thing that a call of `OTA_MasterStart`, `OTA_SlaveStart` can do |
| `OtaUpdate` | the composition, its properties, fairness |
| `FwUart` | the UART updater's frames, PHY and DMA ring, interrupt handlers, message queue, response timer |
| `FwMaster`, `FwSlave` | one action per thing that a call of `FW_UPDATE_MasterStart`, `FW_UPDATE_SlaveStart` can do |
| `FwUpdate` | the composition, its properties, fairness |
| `HopAir` | what both hopping nodes share: packets, the channel table, `ll_flow_process`, receive timeouts, arrivals and garbled packets |
| `HopMaster`, `HopSlave` | one action per branch of `app_sync_task`, `app_cycle_send_task` and `app_low_energy_task`, `proc_user_task` of the slave |
| `HopLink` | the two and the air between them, properties, fairness |
| `TimerEvent` | the slots of `timer_event.c` over a clock that wraps around, and `ev_process_timer` slot by slot |
| `Fifo` | the abstract specification of a bounded queue |
| `UpdateMsgQueue` | push and pop of both updaters in their single reads and writes, interrupted where the code can be |
| `RingBuffer` | insertion and removal in their steps, each in a thread of its own |
| `SoftUart` | the UART receiver in software: bits, bytes, frames, and the main loop's steps |
| `PtrList`, `LinkedList`, `SeqList` | links between items, the operations of `list.c` and `tn_list.c` on them, and the sequence that they stand for |
| `ManagedMemory` | `mmem.c` over `PtrList`: allocation, release with compaction, the owners' writes |
| `UsbControl` | the control endpoint's stages against a host that may give up |
| `QuickSort` | `qsort` split by split, with its stack |
| `RadioDemos` | seventeen demonstrations of the radio, as one main loop and one interrupt handler with a record for what tells them apart, and the amplifier |
| `FlashTest` | five flash chips, the driver's loops over pages, the locks, and the demonstration that tests them |
| `HidReport` | the reports of `usbkb.c` and `usbmouse.c`, their fifo, and a host that fetches them when it likes |
| `Keyboard` | the scan of a key matrix, its filter and its buffer of changes, beside `HidReport`, for what a keyboard made of the two promises |
| `UtList` | the macros of `utlist.h` for the three flavours of list, over `PtrList` |
| `UtHash` | the tables of `hash.h`, over `UtList`: two chains per item, buckets that double, sort and selection |
| `UartDemos` | the baud rate of `uart.c`, and the interrupt and main loop of `uart_ndma` and `uart_dma` in their steps |
| `GpioPins` | the functions of `gpio.c`, `timer.c` and `watchdog.h` as the bits of registers that they change |
| `MCOtaUpdate`, `MCFwUpdate` | instances for TLC; `HopLink` needs none, its configurations give every constant a value |
| `MCCommon` | the stand-alone parts in one instance: `part` says which of them runs |
| `OtaUpdateProofs`, `FwUpdateProofs`, `HopLinkProofs`, `KeyboardProofs` | theorems about the modules of these names |
| `ListSortProofs` | theorems about `LinkedList`, `ManagedMemory` and `QuickSort` |
| `CommonProofs` | theorems about `RingBuffer`, `UpdateMsgQueue`, `TimerEvent`, `GpioPins`, `FlashTest` and `RadioDemos` |
| `SerialProofs` | theorems about `SoftUart`, `UartDemos` and `UsbControl` |

`OtaMac` extends `OtaImage`; `OtaMaster` and `OtaSlave` extend `OtaMac` (the
slave `BootFlash` too); `OtaUpdate` extends both and instantiates
`AtomicUpdate` with the image that boots for `installed`. `FwUart`, `FwMaster`, `FwSlave` and
`FwUpdate` are related in the same way, and use the same `OtaImage`, `BootFlash` and
`AtomicUpdate`, since the flash code is the same line for line. `HopMaster` and `HopSlave`
extend `HopAir`, and `HopLink` extends both. `UpdateMsgQueue` and `RingBuffer` instantiate
`Fifo`, `LinkedList` instantiates `SeqList`, `ManagedMemory` uses `PtrList` as `mmem.c` uses `list.c`, and `UtHash`
extends `UtList`, whose merge sort is that of `HASH_SRT`, too.

### How state and actions correspond to the code

* `MasterCtrl` and `SlaveCtrl` are the records of `OTA_CtrlTypeDef`; `State` has
  the enumerators' names without their prefix, and two more: `APP`, the loop of
  `main()` before the button is pressed, and `LOW_BATT`, its endless loop after a
  failed battery check. In the master `Bin` stands for the four fields read off
  the binary. In the slave `FLAG_SET` and `FLAG_CLEARED` are points within the END
  state, so that the power can fail between the flag writes.
* A call that finds no message while it waits returns at once: a stuttering step.
* Bytes become blocks. A cell of flash holds one block, `Erased`, or `Garbage`
  (overwritten, or written short). A CRC over bytes becomes the sequence of
  blocks it was computed over, so two CRCs agree only if the bytes do: that a
  16-bit CRC can collide is not modelled. `TrailerCRC` is what the last two bytes of
  the image say its CRC is; an image that is not `Sealed` says something else.
* `Len` is kept, since the code overwrites it: `RxLen` is its value after a packet
  was copied to `RxFrame`, and `Received` keeps the bytes that a shorter frame
  leaves behind.
* Radio: `Heard` needs the peer to be receiving at the time; `Lost`, `Corrupted`
  and `RxTimeout` may happen instead at any moment. There is no clock, so the
  model allows every order of timeouts and answers that the windows of 200 ms and
  1 s allow, and more.
* Interrupts: `Irq` pushes a message, or, at most `MaxHeld` times, loses it
  because `irq_handler` spins on the held button and then clears everything.
* A reset (`MacReset`) clears RAM: radio, queue, frames and `Len`. Flash stays.

`delivered` and `pressed` are history: the images that the slave had whole when
it answered the END request, and how often each button was pressed (bounded).

In the UART update:

* `uart` has what PHY and queue keep, DMA included: `tx` while the transmitter is at work, `irq` the
  channels whose interrupt was not served. A message is a pointer to a receive buffer, and
  `RxFrame` is what is in it when the main loop copies it, as in the code.
* `sending` is the spin on `PHY_TxFinished` (`fw_update_phy.c:113`): the node does nothing else until its
  interrupt has been served. `Sent` ends it and starts the timer.
* A held button (`MaxHeld`) does not lose the channel's status, only the interrupt: the status
  waits for the next one (`irq_handler` of `uart_fw_update_*/main.c`).
* `timer_list` is the set of busy slots. `Unon` is called with the handle as it is, which may be that of a
  timer that has fired. Time is only what `Silent` says: a timer that fires while
  an answer is on its way or a message waits counts against `MaxLate`.
* Push and pop are atomic here; `UpdateMsgQueue` has their parts. What an interruption does to a
  session is that a message is lost, which a lost frame does, too.
* Deep sleep ends in `cstartup_flash.S`, which clears `.bss`: it is a reset.

In the hopping modules the state that both `main.c` declare is a function of the node
(`tx_buffer["master"]`), the rest has a variable of its own.

* An action of a node is one pass of its main loop that finds a flag set; `event` is
  that flag (the radio is single-shot, so at most one is set, but for `tx_done_flag`,
  which the master's model sees before the answer can come).
* A packet has a command, its two bits, and the payload that something depends on: the map, the sync
  word, the first data byte. `Word` tells apart the word of the handshake, that of the
  connection, the latter with its first byte zeroed, and any other.
* No clock. Two consequences of the intervals are assumed: the slave reads a packet while
  the master still listens, and it listens again before the master's next packet. A
  receive window of the slave either contains the master's next packet or misses it;
  window widening and the calibration of the 32 kHz clock are not modelled.
* `Arrives` sets the flag whatever the CRC, as `irq_handler` does. A packet with a wrong
  CRC looks like itself or, at most `MaxMisled` times, like another (`Garblings`).
  None becomes a packet of the handshake but LL_SYNC_RSP; of the opcodes that a connected node looks at
  whatever the CRC, all are among them.
* `chn_table_calc` is a function of the map and the hop; an empty map, with which the code
  never returns, stops the node.
* `taken`, `flushed`, `reportLost` and `lag` are history: how often the packet in `tx_buffer` was
  taken by the peer, whether auto flush put it there, whether a report was flushed, and how far
  ahead the master was when the slave heard its first data packet.

In the stand-alone parts:

* `TimerEvent`: arithmetic is modulo `Wrap`. `at` is the slot that `ev_process_timer` comes to next and `now` the clock
  it read once, before the first callback; `Tick` may come in between. A callback may start and cancel
  others. `ev_on_timer` with no free slot, which spins in the code, is not enabled. `age` is history.
* `UpdateMsgQueue`: `pc` of the main loop and of the handler; a handler runs to its end. In the OTA updater
  no interrupt is outstanding while a message waits (`OneOutstanding` of `OtaUpdate`), and the interrupts of
  this module keep to that; in the UART updater they come at any step.
* `RingBuffer`: the count changes under its lock in one step; the pointers and the array do not.
* `SoftUart`: `SampleBit` and `LastBit` are the timer's interrupt, `FrameEnds` the same interrupt in its other use, and
  each store of `soft_uart_rx_data_process` a step. A byte is the set of its bits. `Behind` says how many frames the
  main loop may still have to process when the first byte of another one is in.
* `PtrList`: a list is the pointer to its first item and the `next` field of every item, in a list or not: a link is
  kept by an item that has left its list, as in the code. `Chain` is the loop of `list_length`, which all others over a list
  repeat; its walk is a recursive function of the number of turns, cut off after one turn more than there are items. A comment in `list.c:64-72`
  speaks of the element before the last; the code returns the last, and so does the model.
* `ManagedMemory`: a block's owner writes a value to all of its cells; `Compact` moves the bytes
  of the blocks above the freed one down and their pointers with them. The `memmove` of `string.c`
  copies forwards only, which is right for moves down, the only ones made.
* `UsbControl`: a byte of a descriptor is its place in it. The response is what is left of a descriptor; a DATA interrupt
  moves it on whichever transfer it belongs to. The settings of the three demonstrations are
  combined; `UsbInit` is the state after the first bus reset.
* `QuickSort`: one step per split or short side; the array is one of keys. Item size is a power of two, as
  the pivot's mask needs, and the array is not empty.
* `RadioDemos`: a demonstration is a record of what its loop does for each flag (`on`), which interrupt raises
  which flag (`raises`), and how its handler clears interrupts (`all`, `if_ok`). The handler is two steps, `IrqRead` and
  `IrqHandle`, because the radio may raise another interrupt between the reading of the status and the two clearings at the
  end, of the status (`rf_irq_clr_src`, in some demonstrations of all of it) and of the request to the core
  (`irq_clr_src2`): `requested` is that request, and an interrupt that comes up in between may lose it. The main loop does
  not run meanwhile. `written` is what `TPLL_WriteTxPayload` returned; `tpll_ptx` triggers nothing when it
  failed. What the radio does after a start (`Ahead`) is external.
* `FlashTest`: a cell is half a page, since the test programs a page's length from the middle of one. The test is the
  sequence of its operations and checks; `PowerFails` starts it again, with the status register as it is. What
  a chip does with a locked sector is external: it ignores erasing and programming.
* `HidReport`: one key stands for all of its kind, and an endpoint has room for one report. `caller` says who makes the
  calls: a keyboard that uses the fifo and the release check, or one of the two demonstrations, which do not.
* `Keyboard`: nothing in the repository joins `usbkb.c` and `keyboard.c`, so each makes its steps on its own.
  A pass of the scan is two steps, since a contact may open or close between the test of the pins and the reading
  of the matrix, which reads all the pins that are remembered again (`keyboard.c:328-336`). `contact` and `stray` are history: what the
  test saw, and for how long the filter may hold on to what only a reading saw. Pointers are taken modulo twice the places of the
  buffer, as in the code.
* `UtList` and `UtHash`: a macro is an operator from list to list. Calls are those that the macros allow: an item
  is put where it is not, and named as a place only where it is. `order` and `added` are history. A bucket's chain is the sequence that
  its links make, with `hh_prev` and `count` beside it as in the code.
* `UartDemos`: the line numbers its bytes. `late` is history: a byte came in before the first of the block was read.
* `GpioPins`: `on` is the set of bits that are set, `told` and `timed` are history: what calls have promised and
  nothing took back. `OneCall` counts the calls.

## 3. Abstract specifications

`AtomicUpdate` has two variables. `Receive` adds an image to those received;
`Install` replaces the installed image by one that was received whole and whose
trailer is its CRC. `OtaUpdate` and `FwUpdate` implement it (`UpdateIsAtomic`): `installed` is
the image in the bank that the boot ROM would start *now*, so a loss of power at
any point is covered by the refinement itself. Depending on which bank is the
new one, the installing step is the setting of the new flag or the clearing of
the old one.

`Fifo` is a queue of bounded length and what was taken from it last. `RingBuffer` implements it with
what lies in the array between the pointers, corrected by the byte that is half inserted or half
removed; so does the OTA updater's queue.

`SeqList` has a sequence of items. `LinkedList` implements it with the items that a loop over the links
comes by.

## 4. Properties

| Property | Says |
|---|---|
| `TypeOK` | types, and the bounds of retries and queues |
| `BootSafe` | the bank that boots has its flag set and holds one whole image |
| `RunningBankUntouched` | no step changes a cell of the bank that boots |
| `UpdateIsAtomic` | refinement of `AtomicUpdate` |
| `OneOutstanding` | over the air: per node, messages waiting plus started radios is at most one |
| `BlockSync` | while blocks are exchanged the counts differ by at most one; over the air also: a DATA packet, sent again or not, has all of its block (`WholeBlocksSent`) |
| `ReceivedIsSent` | the slave has a beginning of one image, even across the master's restarts with another binary (`PrefixReceived`), and END at the master means that the slave had all of this binary in this session (`EndMeansDelivered`) |
| `SessionsEnd` | a session always ends in a reboot, on either side |
| `WaitIsTimed` | by UART: a node that waits has a message or a running timer whose handle it knows |
| `OneTimer` | by UART: no node has two timers, so `ev_on_timer` never spins for want of a slot |
| `NeverOlder` | violated, run 3 |
| `TakenOnce` | no packet of the hopping link is taken twice |
| `AckedOnlyIfTaken` | a packet is acknowledged only if it was taken, but for auto flush and garbled bits |
| `HopTogether` | the distance of the two nodes' indices never changes once the slave has heard a data packet |
| `StrandedForGood` | a slave whose LL_CONN_RSP was lost stays out of reach |
| `MapsKept` | when nothing is left to report the two maps are equal, if no report was flushed (`MapsAgree`); `chnl_used` counts the master's map, and no channel is in neither map nor FIFO (`ChannelsKept`) |
| `RadiosGoOn` | no loss stops a radio of the hopping link |
| `SyncSuccess`, `ReportDealtWith` | violated, runs 6 and 7 |
| `NotEarly`, `NotLate` | no timer is called before its interval has passed, none is overdue by more than two turns of the loop |
| `QueueIsFifo` | over the air the interrupted message queue is a FIFO |
| `CntIsCurrent` | `Cnt` is the number of messages pushed and not popped; violated by UART, run 11 |
| `RingIsFifo` | refinement of `Fifo`, two threads without a lock on the pointers |
| `FrameIntact` | the callback gets the frame that was on the line; violated if the main loop is late, run 12 |
| `ListIsSequence` | refinement of `SeqList`, for both list modules |
| `BlocksKept` | a block holds what its owner wrote, wherever it was moved; the blocks leave no holes and do not overlap; no memory is lost |
| `AnswerIsAsked` | a USB transfer that ends well gave what was asked, whatever was given up before |
| `SortsWell` | quicksort's output, and the bound of its stack |
| `DemoGoesOn` | a radio demonstration never waits for a flag that nothing can raise, but in four cases (run 10) |
| `PaOffAtRest` | the amplifier is off when the radio rests, with three exceptions |
| `TestIsRight` | the flash test finds an error exactly if the power failed while the sector was locked |
| `KeysAsPressed` | the host sees the keys asked for while no endpoint was busy, and later no key that nobody will release, unless its press was queued (`HostSeesKeys`); the scan sees every key go up, but for a contact that closes for one of the last two readings only, and whoever reads all changes has the keys as they are (`KeysGoUp`) |
| `ListsAndTables` | a loop over a macro list comes by the items that the calls put there, both ways (`UtListIsOrder`); a table finds its items and no others, and keeps their order, but after `HASH_SELECT` (`HashIsMap`) |
| `UartSound` | no block is mixed up but for its first byte, no transmission is started over another, and two nodes with one baud rate stay within half a bit |
| `PinsAsTold` | what a call made of a pin, a timer or the watchdog stays so until another call takes it back |

Each property of a passing run is also checked against a mutant of the code
(definitions marked "Mutant" in the modules, listed in `PROJECT.json`), which
breaks it.

## 5. Runs

**The update over the air.** Blocks of 48 bytes as the code has, and the images `old` (two blocks,
the second short), `new` (three full blocks) and `bad` (two full blocks, wrong
trailer): sizes of both kinds, a longer image over a shorter one and the
reverse. Deadlock is not checked: after `MaxPress` presses, or in the low-battery
loop, the system rightly stops.

1. **`ota_safety`** (`MCOtaSafety.cfg`, 1.09 million states). Flash of three cells of
   which the erasure reaches two, arbitrary leftovers in the bank that does not
   boot, binaries `new` and `bad`, two presses per node, one swallowed interrupt: enough for an update to one
   bank and a second session, a failed one and a second, or a session with one binary that meets a peer
   still in a session with the other.
2. **`ota_liveness`** (`MCOtaLiveness.cfg`, 0.21 million states). Under `FairSpec`, one
   binary, two presses.
3. **`ota_downgrade`** (`MCOtaDowngrade.cfg`, a violation). The slave runs version 2 and
   the master offers version 1. The first version response is lost, the slave
   answers the repeated request with `TxFrame` again, but with the length 2 of
   that request (`ota.c:446`, `ota.c:454`), so the version is cut off. The master
   reads its `RxFrame` (`ota.c:229-231`), zero since the reset, finds 0 < 1 and starts
   the update: the older firmware is installed.

**The hopping link.** Tables of one to three channels instead of 79, one
or two broadcast channels, a flush threshold of 1 or 2 instead of 10 and a quality
threshold of 1 instead of 3: long enough to wrap around, to use a channel twice in a
table and to flush before and after a retry. Deadlock is not checked, as a garbled
opcode in the handshake does stop the code (`main.c:469` of the slave).

4. **`hop_flow`** (`MCHopFlow.cfg`, 2.70 million states). One channel, one
   misleading packet at any moment, and any number of packets lost or with a wrong CRC.
   In `TakenOnce` the slave is excused once a packet misled it: after a garbled command that
   reads LL_ACCEPTED `proc_rx_data_1` flips SN and keeps its packet.
5. **`hop_channels`** (`MCHopChannels.cfg`, 0.48 million states). Under `FairSpec`, three indices for two channels,
   one of them twice in the table, so that the slave may hear a later packet than the first
   and `lag` differs from 0; both channels may go bad, one after the other or at once. No misleading
   packets: one in the handshake does stop a node.
6. **`hop_sync`** (`MCHopSync.cfg`, a violation). The LL_CONN_REQ is lost. By then
   `app_sync_task` has written `sync_chnn_idx`, 0, to `tx_buffer[5]` (`main.c:527`), the first byte of the
   sync word in that packet, which is then sent again. The slave connects to that word and the
   master to `conn_sync_word`; the LED that says "sync success" blinks (`main.c:574`).
7. **`hop_report`** (`MCHopReport.cfg`, a violation). The slave reports a bad channel, and
   `need_afh_flag` becomes 2, "wait until TIMER0 next expires" (`main.c:390`). Nothing calls `proc_user_task`,
   so it stays 2, and no new map is ever requested.

**The update by UART.** Blocks of 64 bytes, `old` and `bad` with a short second block, `new` with two full ones,
one press per node (a session with another binary is what the runs over the air have), two
timer slots where one is needed, `MaxHeld = 0`. Deadlock is not checked, as over the air.

8. **`fw_safety`** (`MCFwSafety.cfg`, 1.85 million states). Frames lost and spoilt, power failures anywhere, and one
   timeout that comes although an answer is on its way (`MaxLate = 1`).
9. **`fw_liveness`** (`MCFwLiveness.cfg`, 0.63 million states). Under `FairSpec`, binaries `new` and `bad`, no power failures.

With three timeouts while the slave is busy (`MaxLate = 3`) TLC finds frames written over others that wait. The slave listens from
`FW_UPDATE_PHY_Init` on (`uart_fw_update_slave/main.c:153`), then erases 15 sectors (`fw_update.c:454-462`), which takes seconds, and only then
looks into its queue. Meanwhile the master's VERSION_REQ and its three retries come in, the latter spoilt. The queue has four places
and the DMA's ring three: the fourth frame is written over the first, whose message still waits and whose checksum is
not looked at again. `MaxLate = 1` leaves this out of runs 8 and 9; `BuffersIntact` names its absence in the proofs.

**The stand-alone parts.**

10. **`common`** (`MCCommon.cfg`, 1.14 million states, deadlock checked). One part runs, the others stand still in one of their
    initial states; so this is sixteen models, of which each sees all of its own behaviours:
    * timers: two slots, a clock modulo 12, a margin of 3, intervals 1 and 5, turns of up to 2 ticks: the clock wraps around
      between any two steps;
    * message queue: two messages, any interruption, both updaters; how far the number of messages drifts from `Cnt` is for run 11 (`MaxNumber = 1`);
    * ring buffer: three places, two bytes, every start;
    * UART in software: bytes of two bits, buffers of two bytes, frames of up to three, so that one overflows; the
      main loop is done with a frame before the first byte of the next is in (`Behind = 0`);
    * lists: three items, both modules;
    * managed memory: three bytes, three blocks;
    * USB: two device descriptors, of which one is a multiple of the packet size, one interface descriptor,
      host asks for 8 and 64 bytes. The host is `Patient`: it gives a transfer up only when no interrupt of it is pending.
      Otherwise a DATA interrupt served after the next SETUP sends the second packet for the first, and `AnswerIsAsked`
      fails. It also leaves out (`"ignored"`) what an interface request for a descriptor that the device lacks gives:
      the code does not refuse it and sends what was left of the last response (`usb.c:194`). `usb_len_idx_s` is stale
      for interface requests, so the empty last packet is promised for device descriptors only;
    * quicksort: all arrays of one to nine items of three keys, short sides of up to two;
    * radio demonstrations: all seventeen, whatever the radio receives. The four cases in `DemoGoesOn` are defects of
      the code: `tpsll_srx` and `tpsll_stx2rx` drop a packet with a wrong CRC in the handler
      (`tpsll_srx/main.c:81`) and then wait for ever; `tpll_ptx` does not go on when its payload is not taken
      (`tpll_ptx/main.c:159-163`); its handler clears interrupts that it has not read
      (`interrupt.c:100`), after which the flags that it waits for may never come; and in the four demonstrations that go from one
      operation to the next, the handler of the first one's end may clear the request of the second one's
      (`irq_clr_src2(FLD_IRQ_ALL)`, `gen_fsk_srx2tx/main.c`), which then waits for an interrupt that never comes;
    * flash test: all five chips, a sector of two pages, the power failing at any step. A failure while the sector is
      locked makes each later test end with `erase_err`, since the first thing it does is to erase.
    * HID reports: a fifo of two places, normal with system keys, media keys, both demonstrations, a host that fetches at
      any time. The exception in `KeysAsPressed` is a defect of the code: a press that had to be queued is not noted in
      `usbkb_not_released`, its release is not sent (`usbkb.c:152`), and the key stays down;
    * key matrix: one drive pin, two scan pins, half as long a memory for contacts (3 calls) and half as large a buffer (2)
      as in the code. The exception in `KeysGoUp` is a defect, too: a contact that closes between the test of the pins and the reading
      in the last pass is the last that the filter sees, and its key stays down until another is pressed;
    * macro lists: three items of two ranks, each flavour; hash tables: three items, two of one hash value, one
      bucket at first that doubles up to eight, two tables;
    * UART demonstrations: blocks of three bytes; baud rates: each of eight rates at each of four clocks against
      each other;
    * pins: calls for PA3 (the debugger's), PC3 and PF0, nine pins watched, every pair of calls (`MaxCalls = 2`), any
      interrupts in between. Two calls are a promise and the call that might
      break it; only toggling depends on what calls before made of the bit.
11. **`msg_queue_uart`** (`MCMsgQueueUart.cfg`, a violation). The callback of the response timer pushes a message in the
    main loop (`fw_update.c:107`). An interrupt between the load and the store of its `Cnt++` (line 83) pushes another one into
    the same slot, and `Cnt` counts one. `Cnt--` of the pop (line 97) is exposed to the same.
12. **`soft_uart`** (`MCSoftUart.cfg`, a violation). A second frame is received, as two buffers allow,
    before the main loop is done with the first. `rec_length[index] = 0` (`main.c:237`) then clears the length of the second, and its
    callback gets no bytes. With both buffers waiting there is a second way: the bits of a third
    frame are dropped, but its bytes are counted to the buffer that waits (`main.c:79-106`).

Bounds: `MaxPress` (button presses per node), `MaxHeld` (swallowed interrupts), `MaxLate` (timeouts with an answer on
its way), `MaxBlock` and `EraseSpan` (cells of a bank, and those erased), `MaxMisled` (misleading packets), `MaxNumber` (drift
of `Cnt`), `MaxFrame`, `MaxLength`. Losses, corruption,
timeouts and power failures are not bounded; retries are bounded by the code
(`OTA_RETRY_MAX`, `FW_UPDATE_RETRY_MAX`). Two presses are the least that make a session meet the remains of
another; three blocks are the least with a first, a middle and a last one.

Fairness. Over the air: weak fairness of the two main loops (nothing blocks them but the
held button, which `ota_liveness` excludes with `MaxHeld = 0`) and of each radio once
started (both radio commands of `mac.c` are given a timeout). By UART: weak fairness of the two main loops, of each
transmission (the DMA does not wait for anyone) and of each timer, which `ev_process_timer`, called in every turn of the main
loop, finds when it has run out. No fairness for
buttons, losses or power failures. In the hopping link: weak fairness of each main loop, of
`proc_user_task` (its timer expires), and of what ends a start of each radio; a reception without
timeout need not end. No packet is assumed to arrive. The stand-alone parts have no liveness properties.

## 6. Proofs

`BootFlash` ends with the lemmas about images and banks that both updaters need.

`OtaUpdateProofs` proves, for all constants that satisfy the named assumptions of
`OtaImage`, `BootFlash`, `OtaMac` and `OtaUpdate`:

* `TypeCorrect`: `Spec => []TypeOK`. `TypeOK` is inductive; one lemma per shared
  operation (pop, send, interrupt, reset, program, erase), then one step per action.
* `AlwaysBootable`, `RunningFirmwareKept`, `ImplementsAtomicUpdate`: all three follow from
  one invariant, `BootInv`. `BootSafe` is not inductive, because nothing in it says that the
  bank being written is not the one that boots. `BootInv` adds that: during a session
  `FlashAddr` is the bank that does not boot and its flag is blank; after verification
  the written bank holds an image of those received whole. `Verified` then gives what
  the CRC comparison is for: the cells written are the blocks of one sealed image
  (`VerifiedImage`). Every step either leaves the boot bank and its cells alone
  (`BootKept`), or is one of the two flag writes.
* `NeverTwoOutstanding`: `Spec => []OneOutstanding`, by `FlightInv`: a node's radio is off or its
  queue is empty, the queue has at most one message, and before its first start a
  node has neither. One message at a time is what makes the popping loop empty the queue
  before it starts the radio again.
* `BlocksInStep` (`BlockSync`) and `DeliveredWhatWasSent` (`ReceivedIsSent`), by `SyncInv`. Neither is inductive, as both
  speak of the two controls only, which a frame under way can change in the next step. `SyncInv` gives
  each place where a frame can be its meaning: what the master asked last (`Asked`, in `mac_TxBuf`), the request in
  the slave's queue, the slave's last answer, on the air or in the master's queue. A VERSION_REQ opens a session and says
  nothing of the slave, which may still be in the session before. Every later request, and whatever waits
  at the slave, fits the place of a slave that is past its version (`InStep`): a block is the one
  that it waits for or the one that it took last, of the image of which it has the blocks. From the START_REQ on
  there is one exchange only: what waits at the slave is the packet that the master sent last, and an answer on its way or
  in the master's queue answers it (`Answers`). That a node has one message or a started radio and never both
  (`FlightInv`) is what keeps an exchange of an old session from being under way beside it.

The assumptions: block length and sizes are positive, `MasterImage` is a subset of
`Image`, versions are naturals; the trailer lies in the last block
(`TrailerAssumption`: `TotalBinSize mod BlockLen # 1`, as the code needs at `ota.c:532`); the special
contents `Erased`, `Garbage`, `NoData` are not blocks (`SentinelAssumption`, `NoDataAssumption`); banks have
room for every image (`FlashAssumption`), and what the factory programs is an image
(`FactoryAssumption`; `FactoryImage` is the set of images a slave may be delivered with).

`FwUpdateProofs` proves what corresponds to it of the UART update, with noise and power failures or without;
the first two items for any number of sessions, swallowed interrupts and timeouts that come while an
answer is on its way:

* `FwTypeCorrect` (`FwUpdate!TypeOK`, which no run repeats), `NeverTwoTimers` (`OneTimer`) and
  `NeverWaitsUntimed` (`WaitIsTimed`), from `TypeInv` and `TimerInv` together. `OneTimer` needs to know that the only
  busy slot is the one whose handle the node has (`OnlyMine`): then every cancellation
  frees it, also one with the handle of a timer that has fired, and the first free slot exists. The first
  free slot is the least element of a set of naturals, by well-founded induction.
* `FwAlwaysBootable` and `FwImplementsAtomicUpdate`, from `BootInv` as over the air.
* `FwBlocksInStep` (`BlockSync`) and `FwDeliveredWhatWasSent` (`ReceivedIsSent`), for any number of each of these too, under two
  conditions on the behaviour. Here a node may send while it still has messages to read, so several frames
  of either direction can be under way: `SyncInv` speaks of the set of frames that a node may yet hear
  (`Coming`: on the line, in the buffer that the DMA fills, or in a message of the queue). Each of them is one that its sender has
  sent in its present session (`Requests`, `Replies`), in whatever order they are read, and the
  two nodes are either at the same place or one of them has been started again and cannot go on
  (`Together`, `MasterStranded`, `SlaveStranded`). The conditions are those without which the code does mix up
  sessions. `BuffersIntact`: no receive buffer is written again before its frame is read (one
  can be: section 5).
  `AllReadAtStart`: a node is switched on only when its peer has read what had come. Frames bear no mark of
  their session. With three presses, one timeout with the answer on its way and power failures, but no noise, TLC reaches a
  state that violates `ReceivedIsSent` while `BuffersIntact` holds throughout, when it is led along a trace of 65
  states: answers of an earlier session of the slave, which wait in the master's queue, let the master send block 1
  to a slave that has not yet read the requests before it; after a power failure
  the master begins again with another image, and the slave takes block 1 of the one and block 2 of the other. The CRC at the end refuses
  the mixture, which is why `FwAlwaysBootable` needs neither condition.
* A lemma, `FewFramesUnread`: `BuffersIntact` if `MaxPress + MaxLate + MaxHeld <= 2` (`FewTimes`), by `LoadInv`: the frames that the two nodes have on the line, in their queues or as a
  pending interrupt are at most one, and one more for each swallowed interrupt, each timeout with an answer on its way and each
  session of the master. Three frames fit the three buffers. The condition leaves out the retries that come in while the slave
  erases; with them it is false (section 5). The lemma is what the next theorem takes.
* `FwFirstSessions`: `[](BlockSync /\ ReceivedIsSent)` of the specification alone if each node is started once and `MaxLate + MaxHeld <= 1`: at most
  one timeout that comes while the peer has not answered yet. Both conditions
  above are then invariants: a node that has not been started has said nothing (`FreshInv`).

`HopLinkProofs` proves, for all constants that satisfy `HopAssumption` (a table that is not empty,
a hop and a map within it, thresholds that fit their types):

* `PacketsTakenOnce` (`TakenOnce`), `AcksAreTrue` (`AckedOnlyIfTaken`) and `StrandedSlaveStays`
  (`StrandedForGood`), all from one invariant, `LinkInv`. None of the three is inductive: what SN and NESN
  mean depends on the bits that the peer has when it reads them. `FlowInv` relates a packet's
  history to the two nodes' bits, `BitsInv` a packet on its way to its sender's present bits, and
  `PhaseInv` says that a node whose packet is being read does not move. `AskedInv`, `FreshInv`, `RspInv` and
  `WaitInv` bring that about from the handshake: each node sets its bits on its own, at
  different times, and a packet heard in between would spoil them.
* `HopsStayTogether` (`HopTogether`), by `TogetherInv`. The property is about the moments at which the master
  sends and the slave listens. In between, each of the two hops once, at a time of its own, so
  the invariant says who is ahead by one hop (`Apart`) from what the two radios do; and that the slave, once
  it has heard a packet of data, always listens with a timeout, since a slave without one would not hop when it hears nothing.
* `LinkTypeCorrect` (`TypeOK`). The proofs above need a type invariant without the channel tables (`LinkType`);
  this one adds them. An entry of a table is the n-th channel of a map, which exists because the n smallest members of a finite
  set of naturals are taken one after the other (`SmallestChannel`, `NextPlace`, `PlacesTaken`, `NthFacts`). A map without
  channels is never tabulated, as `chn_table_calc` then never returns.
* `MapsAreKept` (`MapsKept`), by `MapInv`, which holds as long as no CRC error has changed a packet: the handshake takes the master's map to
  the slave (`AskInv`); the slave's map is a part of what it reports, and that of the master's (`NestInv`); what the slave has found out is
  yet to be reported, is under way, or the master has it (`ToldInv`); and the master's count and list of abandoned channels
  are those of its map (`CountInv`), which `refresh_chnl_abd` keeps (`TakenOver`). The slave's map changes with the handshake only
  (`NoMapChange`): `LL_CHG_CHNL_MAP_REQ` is never sent, as nothing makes `need_afh_flag` 1.

`CommonProofs` proves `RingImplementsFifo` (`RingIsFifo`) for every size. `RingInv`: what each thread may still do, with what
it is doing, is covered by the count, and the count lags behind the pointers to the safe side; that is
why the two threads need a lock for the count only.

It also proves `QueueImplementsFifo` (`QueueIsFifo`) and `QueueTypeCorrect` for every set of messages and any number
of them. Over the air each interrupt answers a step of the main loop, so that there is one message or one
interrupt to come, never both (`OneAtATime`): no push finds a pop under way. Over UART that is not so, and
what is left is that a pop under way has something to take away and a push room for one (`InRange`), which
keeps `Cnt` from falling below 0, where an unsigned char would become 255, and from rising to more than one beyond
the size of the queue: an interrupt between the test of a push and its increment may take the last place before it.

And it proves `TimersNotEarly` (`NotEarly`) and `TimersNotLate` (`NotLate`) for every clock width, number of slots,
margin and set of intervals with `MaxGap < Margin < Wrap` and `i + 2 MaxGap <= Wrap - Margin` for each interval `i`. The
invariant `TimerInv` says what the expiry time is, counted from the clock as it is now, on either side
of a wrap-around (`Runs`), and how late each slot can be, which depends on whether the present round is past it
(`Punctual`). From `Runs` follows what the wrapped comparison means (`ExpiredExact`).

And of three drivers and their demonstrations:

* `PinsStayAsTold` (`PinsAsTold`) for every set of pins called and watched, every board and any number of calls. `PinInv`: what
  the program was told of pins and timers is what the registers say (`ToldHolds`, `TimedHolds`), and is among the things that can be told
  (`Sayable`, `TimerSayable`). What makes it inductive is that no bit says anything of two pins: `BitsOf` names the bits
  that a setting of a pin is in, and `What` and `Whose` lead from the address of a bit back to the setting and the pin (`BitMeans`,
  `BitOwner`), although PC has registers elsewhere, PF breaks the order of the groups, and the resistors of four pins share a register, whose
  place two functions compute in two ways. A call then changes the bits of what it is told and no others (`OnlyIn`), which `CallStep` and
  `TimerCallStep` turn into a step of the invariant. The two calls that write whole registers, `gpio_init` and
  `gpio_shutdown`, need in addition what each register they write holds afterwards (`ConfiguredMeans`, `ConfiguredIsWritten`). The 14 bits of
  the capture value are read back digit by digit (`SevenHeld`, `CaptureWritten`): they stay what `wd_set_interval_ms` wrote, which
  is not what its comment says (section 9). Promises are put together by `Onto`, since the prover cannot expand `@@`, and addresses are decimal for the same reason.
  `PinTypeCorrect` (`PinTypeOK`) bounds the addresses that the calls compute.
* `TestStaysRight` (`TestIsRight`) and `FlashTypeCorrect` for every chip, content of the flash and fall of the supply. `TestIsRight` speaks of the end of the
  test only; `FlashInv` says what each step finds of those before it: the sector blank, half or wholly programmed (`CellsAtStep`), locked between the
  step that locks and the one that unlocks and at no other, and after a fall of the supply in between locked, not blank, and
  at the first steps for ever.
* `DemosGoOn` (`DemoGoesOn`), `PaStaysOff` (`PaOffAtRest`) and `DemoTypeCorrect`. That nothing can wake a loop is seen only when all is at rest; the
  invariant `DemoInv` follows the end of what the radio does on its way from the radio over `rf_irq`, its request and the handler to a flag
  (`Restarts`, `SenderWaits`), but for the four cases of `DemoGoesOn`, and the amplifier with it (`Amplifier`). It uses four facts of each of the seventeen demonstrations
  (`Made`): every interrupt with which the mode it uses can end raises a flag on which the loop starts the radio again, and the like. They are
  proved one demonstration at a time, and the rest is one proof for all of them; another demonstration is covered once `Made` is shown for it.

`KeyboardProofs` proves `KeyboardReportsKeys` (`KeysAsPressed`) for every matrix, both buffers of any size from two on, and
contacts remembered for three passes or more. The run checks the two halves one at a time; the theorem is about
both in any interleaving.
* The reports (`HostSeesWhatIsPressed`, `HostSeesKeys` alone): `HidInv` is about the keys that the host will believe to be
  down when it has fetched what is at the endpoints (`Shown`), since the mask changes when a report is handed
  over and the host only later. As long as nothing was queued the mask is what is shown; after that it
  covers it, but for the kinds of which a press was queued (`Covered`). `KeyDone` says it of one key, and is applied to the
  three kinds that a call reports one after the other.
* The scan: `Settles` counts for how many passes the last contact will be remembered: one more after it opens empties
  the last reading, a second one what the filter lets through, and with a memory of three both come
  before the scans end. `stray` starts this count again for a contact that only the reading saw; if
  it is 0 at the end, the filter is empty. `NewestKept`: the newest entry of the buffer is the present state of the keys, also when
  it has overwritten the oldest.
* Both buffers have pointers that run through twice as many values as there are places; the lemmas
  `PutBehind`, `TakeFirst`, `OneMoreWaits` and `OneLessWaits` say what that gives.

`SerialProofs` proves what an interrupt and a main loop that share a line promise:

* `FramesArriveIntact` (`FrameIntact`) for all lengths of bytes, buffers and frames if `Behind = 0`: the main loop is done with a frame before the
  next byte is in. That is the condition under which the property is checked; the code has two buffers and
  no test that the other one is free. `SoftInv` says which of the two the handler fills and which the main loop
  is at (`Filling`, `Handing`), so that the five steps of `soft_uart_rx_data_process` and the bits of the next frame
  never meet in one buffer.
* `DemosSound` (`UartSound`, once the baud rates are set) for every block length. `UartInv` says of `uart_ndma` which bytes of the
  line each place of the two blocks holds, at each step of the interrupt and of the main loop (`Collecting`, `Echoing`).
* `AnswersAreThoseAsked` (`AnswerIsAsked`) for all descriptors, their lengths and the lengths asked for, with a
  patient host (`Patient`; without one the property is false, section 5). `UsbInv` says for each set of pending interrupts what the endpoint has
  ready: of a descriptor of which the host has `p` bytes, the next packet, and in `g_response` the rest (`In`).
  That the empty packet after a descriptor of whole packets is marked follows from `p` being a multiple of 8 below the length
  asked for. `PartOfRest` and `PartsJoin` are the facts on parts of sequences that this takes.

`ListSortProofs` proves three theorems. `SortingIsRight` (`SortTypeOK` and `SortsWell`) holds for every set of keys, every array and every
threshold. `SortInv`: the array is the given one with its items at other places (`Shuffled`, a bijection of the places, from
which the counts of `SortsWell` follow); no item is in two parts of the stack (`Apart`), and two items that are
not in order are both in one part (`OrderedBut`), so that none is left when the stack is empty; a part is at most half as long with
every part below it (`Halved`), for all parts and not only the one on top, as one that is below it comes to the top later.
The two loops over the array are recursive functions of the model. That they have a value at each turn
(`LoopRuns`), and what holds of it, is proved by induction on sets of integers
(`UpTo`, from the well-foundedness of the naturals): the set of turns at which what is to be proved holds stands for the
predicate that an induction theorem would take. `PartitionSplits` and `InsertionSorts` are the results;
`SplitSorts` joins them to what one split does to its part of the array, and `OrderKeeps` and
`StackKeeps` carry that over to the whole. Powers of two are those of the cardinalities of sets of subsets (`TwoTo`).

`ListsAreSequences` is the refinement of `SeqList` by `LinkedList` (`ListTypeOK` and `ListIsSequence`) for every set of
items. `Linked(l, c)` says that the links of `l` are those of the sequence `c`, in which no item is twice: the head is its
first item, and each item's link leads to the next, the last one's nowhere. Of a list for which there is such a sequence, the loop of
the code comes by exactly that sequence (`LinkedIsChain`: the walk in `Chain` is a recursive function of the number of
turns, and at each turn it is the rest of `c`), so what the code reads off the list is known from `c` (`ChainFacts`). The invariant
`ListInv` is that the list is linked as what its loop comes by; it is stronger than the refinement mapping, which would
also give a sequence for a list that is a circle, and cut it off. Each operation of `list.c` sets at most three links; `LinkedDrop` and
`LinkedPut` say which links must change for an item to leave or to join, and which may not, and `Unlinked`, `Popped`,
`Chopped`, `PushedOn`, `InsertedBehind` and `Added` that those of the code do.

`BlocksAreKept` (`MmemTypeOK` and `BlocksKept`) builds on these lemmas as `mmem.c` builds on `list.c`, for every size of the memory. `MmemInv`
adds to `Linked` that the blocks lie behind one another in the order of the list (`InRow`), that the last one ends where
the available memory begins, and that each holds what its owner wrote (`Kept`). `BlocksKept` is stated with the first two, since
without them it is not inductive: that a move of the blocks above a freed one destroys no other block follows from their order
(`RowInOrder`, by `UpTo`), and with the pointers lowered by its size each still finds its bytes (`KeptFreeBelow`).

Only model-checked: the numeric part of `UartSound` (`BaudsAgree`, a search over divisors that the run exhausts);
`MCCommon.TypeOK` as a whole, the type invariants of parts that share no state: but for `UtList` and `UtHash` each
of its conjuncts is a theorem, or follows from the inductive invariant of one. Out of the prover's reach: the
liveness properties, and `ListsAndTables`, as the merge sort of `UtList` is a `RECURSIVE` operator.

## 7. Plan

Done: all modules of section 2. Left, in order of use:

1. `ListsAndTables` proved: the merge sort of `UtList` as a loop over pairs of
   runs, in a recursive function, with the lemmas on lists of `ListSortProofs`.
2. `FwFirstSessions` for more sessions and timeouts: `FewFramesUnread` with a count that forgets frames
   when they are read.
3. An abstract link that delivers in order and once, for `HopLink` to implement while nothing is
   flushed or garbled.
4. The byte arithmetic of blocks and trailers (`ota.c:500-640`) against a reference.
5. The CDC demonstration's data endpoints; a composition of `UsbControl` and `Keyboard`.

## 8. Not modelled

* Time: `MAC_STX_WAIT`, the 5 ms after the END response (modelled as the radio being done
  sending), LEDs. In particular the race of `mac.c:114`, which starts the radio before it
  fills the buffer, is taken to be won.
* CRC and checksum collisions, radio packets accepted although corrupted, foreign nodes on the
  same sync word.
* In the hopping link: clocks and windows (above), a garbled hop increment, the master's channel
  quality, `refresh_chnl_map` and `timer0_expire_flg` of the master, which nothing calls or reads.
* Loss of power inside a single page write of flash.
* In USB: the CDC's data endpoints, whose echo drops data while its IN endpoint is busy; no document of
  the repository promises otherwise. No application calls `usbkb_hid_report`,
  `usb_hid_report_fifo_proc` or `kb_scan_key`; their models have a caller that uses them as their comments say.
* `src/common/`: the pools (`mempool.c`, `tn_mm.c`) and `my_fifo`, which nothing calls; printing and logging.
* The demonstrations `tl_tpll_*`, whose loops only call a closed library, and those of a single peripheral (ADC,
  SPI, PWM, ...), which do what the driver call that they show does.
* Drivers, assembly, closed link-layer libraries, the demonstration applications, the
  display, formatting and logging: see `components` in `PROJECT.json` for each. Register headers,
  driver wrappers, font tables and such demonstrations make up most of the source's lines. They
  have no state between steps that a property could be about, and the hardware behind them is not described in
  the repository; that is why the modules stand for about a fifth of all lines.

## 9. Differences met that no run is about

* `watchdog.h:62` promises the capture value `(period_ms*tick_per_ms) & 0xfff30000`. `wd_set_interval_ms` writes bits 0 to 6 of
  the number of 2^18 ticks into one register, and from bit 8 on into the other (`watchdog.h:72-73`). The 3000 ms of
  `timer_watchdog/main.c:33` are 274 at 24 MHz and become 146: the dog barks after about 1600 ms instead of about 2980.
  `PinsAsTold` says only that what was written stays.
* The UART's buffers can be overrun while the slave erases its flash (section 5).
* `timer_stop` of timer 2 stops the watchdog, too (`timer.c:314`).
* `gpio_is_input_en` (`gpio.h:354`) reads the digital register for PC, whose inputs are enabled in an analog one;
  `PinsAsTold` leaves PC out there. `gpio_read_all` fills four of the groups only.
* `reg_irq_src |= FLD_IRQ_GPIO_EN` (`gpio.h:551`) clears every pending interrupt.
* `HASH_SELECT` (`hash.h:784`) leaves the tail of the new table at its first item: the next item added cuts all
  others out of its list, though they are still found by their keys.
* Four defects make exceptions in `DemoGoesOn`, two in `KeysAsPressed` (run 10).
