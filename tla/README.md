# A formal model of the Fire lwIP client board

This directory holds TLA+ models of the firmware in this repository: a railway
communication board (STM32F429, FreeRTOS, lwIP) that polls acquisition modules
on six RS-485 ports, sends what it reads to a host over TCP, and replaces its
own firmware over the network (A/B slots and a bootloader). TLC checks the
models on small instances; TLAPS proves the theorems listed below for every
value of the constants.

Paths are relative to `src/`. Comments in the modules and `PROJECT.json` name
the lines each definition stands for.

- [1. The system](#1-the-system)
- [2. The modules](#2-the-modules)
- [3. OTA update](#3-ota-update)
- [4. TCP client and supervisor](#4-tcp-client-and-supervisor)
- [5. RS-485 ports](#5-rs-485-ports)
- [6. What is proved](#6-what-is-proved)
- [7. Where the code and its comments differ](#7-where-the-code-and-its-comments-differ)
- [8. What is not modelled](#8-what-is-not-modelled)
- [9. Plan](#9-plan)

## 1. The system

### Inventory

| Component | Source | State it keeps | Operations |
|---|---|---|---|
| OTA flash driver and BootInfo | `User/ota/ota_flash.c`, `ota_config.h` | the two slots, sector S11 (BootInfo), the protected range | erase, program, `boot_info_read/write`, image check |
| OTA update manager | `User/ota/ota_manager.c`, `ota_crc32.c` | state, target slot, announced size/CRC/version, bytes and running CRC | push, start, write block, finish, prepare update, abort |
| Bootloader | `ota升级需要的iap代码/…/User/main.c` | nothing but BootInfo | read BootInfo, check the slot, fall back to the other, write the default or the corrected BootInfo, jump, blink for ever |
| OTA client session | `User/ota/ota_client.c`, `ota_net.c` | socket, receive buffer, push waiting | hello, push, data, end, error report, reboot |
| OTA watchdog | `User/ota/ota_wdt.c` | window, last progress, hardware timer | arm, kick, busy, progress, timed out |
| TCP client | `User/client.c` | one slot per port and one for control, the curve ring, `tcp_conn`, `tcp_connected`, `BoardCfgTab`, `download_flag` | enqueue, enqueue curve, send pending, connect, receive, handle command, close |
| Supervisor | `App_TaskStart` in `User/main.c`, `User/board.c` | `WDTUARTFLAG[]`, `WDTTCPSENDFLAG`, `heartbeat`, `WTD_RESET` | one round every 500 ms; feeds the SP706S or does not |
| UART port tasks | `uart_task_handler` in `User/main.c` | per module: failures, skipped rounds, offline flag, time of the last answer; per port: link mask, published mask, errors, Modbus handle | round, skip, verdict, online, publish, re-arm |
| Axle counter and DC 3-wire protocols | `User/main.c:1570-2345` | acknowledgement registers, pulses and curves | read, confirm, upload |
| Curve buffers and EEPROM copy | `User/usart/bsp_rs485.c`, `User/eeprom` | SDRAM buffers, configuration words | collect, upload, save |
| RS485-7, alarm relay, UDP status | `User/task_rs485_7.c` | expansion boards, alarm outputs | poll, judge, drive |
| Raw UART exchange | `User/usart/bsp_rs485.c`, `mbport/mbportserial.c` | receive ring, transmit hand-shake | interrupt handlers, send, receive |
| Modbus event and timer ports | `mbport/` | event queue, timers | post, get, start, expire |
| PC tool and simulators | `PC_Server/` | session, image | push, send blocks, wait for acknowledgements |
| Vendored code | `mbmaster/`, `mbslave/`, `FreeRTOS/`, `LwIP/`, `Libraries/`, `User/cm_backtrace/` | | |
| Board support | clocks, SDRAM, PHY, LEDs, DIP switch | | |

### How the parts interact

- The port tasks and `client_thread` put frames into the slots and the curve
  ring; `App_Task_TcpSend` takes them out. One mutex, `tcp_queue_lock`, protects
  both.
- `client_thread` and `App_Task_TcpSend` share `tcp_conn`, `tcp_connected` and
  `WTD_RESET` without a lock.
- The host's answer to the configuration request sets `download_flag`, which
  starts the port tasks.
- The supervisor counts rounds since each task reported. Once `WTD_RESET` is not
  zero it no longer feeds the SP706S, and the board is reset.
- A port task publishes a link mask (`SerialDataBuf[7..10]`) that the host
  receives in the next frame and that task RS485-7 reads every 500 ms.
- Application and bootloader share only the flash: the slots and BootInfo. The
  application commits an update by writing BootInfo and resetting the board.
- The OTA client task drives the manager with the frames it gets from the PC tool,
  which serves one board per connection from a thread of its own. The task reports
  to `ota_wdt`, whose deadline the supervisor compares with the clock each round;
  while the CPU stands still in an erase, TIM7 with DMA feeds the SP706S instead.
- A custom port's task and its interrupt handler share the registers of one UART,
  a few flags and the receive ring, without a lock: the interrupts enabled decide
  which of the two may touch what.

### What is hard here, and the properties that make each part correct

- **OTA.** Power can fail between any two programmed words, of an image or of
  BootInfo, in the application or in the bootloader; a HAL call can fail; the PC
  can send blocks in any order, twice, or of another image, with offsets that
  wrap around 2^32. *Correct*: the slot that runs is never changed, only whole
  images are started, the board never ends without one, never goes back to an
  older version, and a committed image runs.
- **TCP.** Several producers, one consumer, a connection that any of two tasks
  and the network may break, a host that goes away, comes back, or stops
  reading. *Correct*: frames reach the host whole, in order and once; trouble
  with the connection costs the connection and not the board; a blocked task is
  freed; the board ends connected and configured.
- **OTA session.** The PC and the client task each keep their own record of one
  update, next to the manager's; the connection may break, or seem to live, in any
  of them, and the person at the PC may load another firmware meanwhile. *Correct*:
  the records never contradict each other, a live connection loses no block, and
  what the PC offers is installed in the end, whatever broke on the way.
- **Watchdogs.** An erase stops the CPU for longer than the SP706S waits, and a task
  may rightly be silent for 10 s. *Correct*: a task that hangs is found in bounded
  time, one that does not is never taken for hanging.
- **Axle counters.** The board acknowledges pulses with its next poll; answers are
  lost, come late, are longer than the upload buffer, or the board forgets what it would
  acknowledge. *Correct*: no pulse is dropped before it is uploaded, short of those beyond
  the end of that buffer; none arrives twice or out of order.
- **Raw UART exchange.** An interrupt handler that reads the UART's registers several
  times, a task and a bus that never keeps quiet. *Correct*: the answer is what the bus
  carried after the turn-round, in order, short of what is lost at three places that can be
  named; and the task always comes back.
- **UART ports.** The verdict on a module depends on the length of the rounds,
  which depends on how many other modules are silent; a module is *skipped* on a
  count and *shown offline* on a time. *Correct*: a module that is no longer
  asked is shown offline; silence is reported in bounded time; a module that is
  back is seen again.

## 2. The modules

| Module | Role |
|---|---|
| `OtaFlash` | flash, BootInfo and the driver, one step per sector, cell or word |
| `OtaManager` (extends `OtaFlash`) | the update state machine |
| `Bootloader` (extends `OtaFlash`) | `Ota_Task` up to the jump |
| `OtaSystem` (extends both) | the board: resets, power losses, invariants, properties; the PC may ask for anything |
| `AtomicUpdate` | abstract specification: what the A/B scheme promises; `OtaSystem` implements it |
| `OtaSystem_proof` | theorems about `OtaSystem`, the refinement of `AtomicUpdate` among them |
| `PcServer` | the PC tool's OTA server and the TCP connection to it |
| `OtaSession` (extends `OtaSystem`, `PcServer`) | the OTA client task: board and PC with the real protocol |
| `OtaSession_proof` | `OtaSession` implements `OtaSystem`; theorems about frames and blocks |
| `OtaWatchdog` | the OTA task's own watchdog, the supervisor's test of it, and the hardware feeding |
| `OtaWatchdog_proof` | theorems about it |
| `BoundedQueue` | abstract specification: a bounded FIFO queue |
| `TcpQueue`, `TcpQueue_proof` | slots, ring, mutex and send task, `QueueSpec` by itself; theorems, the refinement of `BoundedQueue` among them |
| `TcpClient` (extends `TcpQueue`) | connection and commands |
| `Supervisor` (extends `TcpClient`) | counters, reset codes, feeding |
| `TcpSystem` (extends `Supervisor`) | the tasks, the host, time |
| `TcpSystem_proof` | `TcpSystem` implements `QueueSpec`; theorems about what resets the board |
| `UartPort`, `UartPort_proof` | one Modbus port task, and theorems about it |
| `UartExchange`, `UartExchange_proof` | one raw exchange after the other: task, interrupt handler, UART, ring; theorems |
| `AxleCounter`, `AxleCounter_proof` | the acknowledgement protocol between board and axle counters, both ends; theorems |
| `MC…` | the instances TLC checks |

Constants carry the name of the `#define` they stand for where there is one, and
their assumptions are stated in the module that declares them; TLC evaluates them
in each run. Operators whose name ends in a suffix after `_` and whose comment
starts with "Mutation" are deliberately wrong variants of the definition below
them; they are used by no specification and show that each property can fail.

## 3. OTA update

### Model of the board

Flash is an array of *cells*. The first cell of a slot stands for the two words
(stack pointer, reset vector) the structural check reads; every other cell is a
run of words programmed together. A cell holds a piece of an image, is blank, or
holds garbage, which in the first cell may happen to look plausible. A CRC is
taken to identify the content. BootInfo is a record of five words (magic,
boot\_app, crc, size, rest) programmed one at a time in the order of the
structure. `op` is the operation in progress, so a power loss (`PowerLoss`) falls
between any two words; the cell being programmed at that moment may hold
anything. `OperationFails` is an erase or program call that returns an error.
A word of BootInfo programmed over one that is not blank becomes a value that is no valid
one, or makes the call fail (the hardware would AND the bits). That happens only when a call has
failed in the bootloader, and no property of a passing run depends on it.

`OtaManager` has one action per `ota_*` function; `OtaSystem!Commands` lets the
PC ask for any of them, in any order, with any image, size, offset and length of
small sets. Addition on offsets is modulo `WordMod`, as `uint32_t` addition is
modulo 2^32. `Bootloader` has the steps of `Ota_Task`: read, use the default if
there is no magic, check the named slot (with or without CRC), fall back on the
other with the structural check only, rewrite BootInfo, jump or blink.

`Init` is a board in the field: an image in slot A and a default BootInfo written.
`FactoryInit` is the very first power-up, BootInfo still erased.

### Runs of the board

| Run | Question | Bounds |
|---|---|---|
| `OtaPowerLoss` | every property below, with power losses | 2 losses, 3 images (versions 1-3, both slots), slots of 3 and 2 cells |
| `OtaHalFaultBoots` | *violated*: see section 7 | 1 loss, 1 failing call |
| `OtaFirstPowerUp` | *violated*: see section 7 | 1 loss, factory state |

`BootsOnlyComplete`: control never passes to a slot that does not hold one whole
image. `NeverBricked`: the bootloader never ends blinking. `RunningSlotUntouched`
(action property). `RecordedImageIsThere`: a BootInfo that records a CRC names a
slot holding that image. `NoDowngrade` (action property, over `lastRun`, a history
variable). `CommittedImageRuns` and `EveryStartReachesAnApp` are liveness.

`UpdateIsAtomic` says that `OtaSystem` implements `AtomicUpdate`, the promise of
`ota_config.h:28-30`: there is a current image and perhaps a newer one stored beside
it; a start of the board runs one of the two; nothing else ever happens to either.
The mapping takes `stored` for the image that is whole in the other slot while it is
newer: it appears with the last word of a download, *before* it is verified, and may
go on existing unknown to BootInfo, which is why a start may run it after a reset that
came before the commit (through the fallback), and why `Stop` may lose it (the power
fails in a sector of it).

Failing HAL calls are not in `OtaPowerLoss` (with them its safety properties fail, as
`OtaHalFaultBoots` shows); `RunningSlotSafe` is proved with them and `OtaSession` has one.

*Why the bounds are enough.* Two losses cover a loss during an update and another
during the bootloader's repair of it; after a loss nothing but the flash remains,
so a third loss starts from states of the same form. Slot B is smaller than slot A
as on the board (the protected range is `APP1_SIZE` long whichever slot runs, so
the difference matters), slot A has two sectors, and sizes, offsets and lengths
include the ones just beyond a slot and the two that wrap around. Three images
allow two updates in a row, back to the slot of the first. The theorems do not
depend on these numbers.

*Fairness.* The bootloader runs to its end, and the application
performs the reset it owes after a commit (`OTA_REBOOT_DELAY_MS`, then
`NVIC_SystemReset`): both are single-threaded code with no wait on anyone. Nothing
is assumed of the PC, and power losses are bounded but not fair.
`CHECK_DEADLOCK FALSE` because the board may end blinking, or in junk code, or
wait for a PC that sends nothing.

### The session with the PC tool

`OtaSession` replaces the PC that may ask for anything by the real one. `PcServer` has
one action per handler of `OTAClientSession` in `PC_Server/ota_gui.py`, on the
connection: two sequences of frames. A connection that ends loses what is under way;
`link` is then "closed" or "broken", and the board finds out by a failing or, first, a
seemingly successful `send`, by `recv`, or by the stall timer. `OtaSession` has one
action per handler of `ota_client.c`; `step` says which frame or flash operation the
task owes, so the power may fail, a HAL call may fail, and the connection may break,
between any two of them. In particular the PC hears of the success *before* BootInfo is
written (`ota_client.c:310`).

A *release* is what the person at the PC has loaded: a version and an image for either
slot or for both (`load_firmware` only warns when the two files differ in version and
then names both after one: `ReleasesAssumption`). `Loads` replaces it at any moment; the
data of a push then comes from another image than its size and CRC
(`ota_gui.py:768`), which the CRC at the end must catch. Version and images are replaced
together: a push made between the two assignments (`ota_gui.py:904-909`), with the version of one
release and the images of another, is left out, and so is how the version is found.

- `ClientAgrees`: `g_sess` and the manager's state never contradict each other, at any
  step of the task.
- `BlocksConserved`: on a live connection what the board has counted plus what is
  under way is what the PC has sent.
- `FramesMeetTheirState`: a push never meets a board that is busy, a block or an END never
  one that was not told to download; so the refusals in the code are a second line.
- `ImplementsSystem`: `SessionSpec` implements `OtaSystem!Spec`.
- `UpdateArrives`: the board ends running what the PC offers for the slot it can write,
  without anybody pressing a button. The combination of a HAL failure and a power loss is
  excluded, since it may brick the board (`OtaHalFaultBoots`).

*Bounds of `OtaSession`*: two releases, version 2 for slot B only and version 3 for both
(so that one board may need two updates, or none); one power loss, one failing HAL call,
one broken connection, one change of firmware; bursts of two frames of up to two cells.
Each kind of trouble may thus meet each other kind once, at every step.

*Fairness*: the bootloader, the reset after a commit, the client task, its heartbeat HELLO
and the server's handlers are weakly fair: tasks of one board, and a PC program that serves
its sockets. Nothing is assumed of breaks, losses, failures or the person at the PC.
*Abstractions*: the reassembly of frames from the TCP byte stream (`ota_net.c`), NOTE logs and
the texts of errors are left out; the heartbeat HELLO of every 60 s is sent only when
nothing else is under way. `CHECK_DEADLOCK FALSE`: a board that is up to date waits.

### The watchdog of the task

`OtaWatchdog` counts time in rounds of the supervisor (500 ms) on a clock that wraps
at `TickMod`. The task goes through its blocking calls in any order the code allows, each
lasting anything up to its limit, or for ever; `kick`, `busy` and `progress` move the
deadline. `SupervisorRound` compares it with the clock by a signed difference and stops feeding the
SP706S once it is passed. During the erase of a sector of a slot the CPU stands still and
TIM7 with DMA feeds instead, if its self-test passed. The limits of the calls are those of the
calls themselves: a task of a higher priority that never yields, which would starve the OTA
task without its hanging anywhere, is not modelled.

- `StuckIsReallyStuck`: reset code 31 means a call that never returns: the windows the
  task declares cover the calls between two reports, wherever the clock wraps.
- `HangEndsInReset`: a task that hangs is silent at most for its window, the SP706S
  time-out and one round, except while the hardware feeds for it.
- `SlotErasesAreFed`: a board on which nothing hangs is bitten by the SP706S in no call but
  the commit, which erases S11 unfed (section 7, 6).

Bounds: the code's times in rounds (`WDT_TIMEOUT` 60, `BUSY_*` 20, `CONNECT_MAX` 6, `SEND_MAX` 20),
erases of up to 8 rounds (4 s), an SP706S of 4, a clock that wraps at 128 (more than twice
the longest window, as 2^32 ms is). `HwWorks` is TRUE and `ArmPreempted` FALSE (section 7, 7).

## 4. TCP client and supervisor

### Model

`TcpQueue`: a frame is its task, its kind and its number. A copy into a slot or
into the ring takes two steps, in between the place holds `Partial`; the mutex is
`lock`. The ring has the code's `head`, `tail` and `count`. `sender` is
`App_Task_TcpSend` inside `client_send_pending`: it scans the slots in order, then
empties the ring, and holds the frame in `send_copy` while it writes. A write is
tried `RetryCount + 1` times (`do … while (retry-- > 0U)`). As in
the code, a slot is freed and the head advanced *before* the frame is sent.

`TcpClient`: `client_thread` as a program counter over connect, receive loop,
close, forget, delay. `netconn_delete` and the assignment of `NULL` to `tcp_conn`
are two steps. `tcp_conn` also says what the network does to the connection:
"open", "stuck" (the peer no longer reads; `netconn_write` blocks, because no send
timeout is set on it), "dead".

`Supervisor`: `SupervisorRound`. The later tests of a round overwrite the reset
code of the earlier ones, as in the code.

`TcpSystem` adds the host and time. Supervisor rounds (500 ms) pass while `client_thread`
waits the second before it connects again (`client.c:773`, `DelayRounds`), while the
connection is being made (`ConnectMax`), and while it listens; never while a task has
anything left to do (`Quiet`), since tasks run in milliseconds. `netconn_close` is taken
as immediate. Receive timeouts are counted in rounds. `heartbeat` counts every one of these
rounds, over connections lost and made, and only a message of the host sets it back.
Resetting the board clears everything in RAM and the ring in SDRAM.

A host that is up sends a heartbeat at least every `BeatEvery` rounds of a connection, and may
be silent for all of them. The first state chooses (`fails`) between a *steady* host and one that also
goes down, stops reading, or has the board reset. Either drops connections; a steady one at most
`MaxDrops` between two heartbeats, each once it has lasted a round, or while it is being made. A
connection lost costs up to `PerDrop = DelayRounds + ConnectMax + BeatEvery` rounds without a
heartbeat, and `TimeAssumption` says that `MaxDrops` of them in a row fit into
`HeartbeatMax`. Without such a bound dropped connections alone do reset the board (section 7, 13).

### Runs

| Run | Question | Bounds |
|---|---|---|
| `TcpQueues` | are frames whole, in order, once; is the ring a queue? | 2 ports, ring of 2, 1 realtime and 2 curve frames per port between resets, 1 retry |
| `TcpHost` | may dropped connections reset the board; do blocked sends end; does the board end connected and configured? | 1 port, ring of 1, 1 curve between resets, 1 retry, heartbeat limit 5, 1 drop between heartbeats, all times 1 round |
| `TcpCurveLost`, `TcpDeletedConn` | *violated*: see section 7 | 1 port, ring of 1 |

`TcpQueues` leaves the connection out (a write succeeds or fails at will), so it
covers every behaviour of the network. `RingIsAQueue` says that `TcpQueue`
implements `BoundedQueue` with the refinement `queue <- Ring`.
`OnlyWholeFrames` and `WrittenInOrder` say what reaches the connection. In `TcpHost`
`OnlyRequestsReset` is about steady hosts, the rest about both kinds. It says that with one
neither the counting that goes on over a reconnection, nor a full ring or a busy send task
resets the board; only a request for the configuration that could not be sent may.
`DataFramesNeverReset` (action property) says that a data frame that cannot be sent never
does, as the comment at `client.c:226` intends.

*Why the bounds are enough.* The ring wraps after two frames and both ports fill
it together; a producer finds it full, and empty, and half full. Two producers are
the fewest that compete for the tail, and the slots of different ports do not
interact. Of the supervisor's limits (120 rounds for the heartbeat, 500 for a task) both are cut to
5, exactly what `TimeAssumption` asks for with one drop and times of one round, and the run reaches
it: a test by `>=` in place of `>` already violates `OnlyRequestsReset`. The receive
timeout (260 rounds in the code, more than the heartbeat's limit) is cut to 2, less than that
limit, so that a connection that has fallen silent ends in both ways, closed by the client and
reset by the supervisor. `TcpHost` needs one frame per path only: what several frames and
ports do to each other is the question of `TcpQueues`.

*Fairness* (`TcpHost`). All tasks have bounded work between two waits and the
scheduler is preemptive, so each is weakly fair, and time passes. A host that is up
goes on sending heartbeats (weak), and of the configuration requests it is asked
again and again it answers one with a valid table (strong). `ConnectedForGood` is
about hosts that stop failing: its first three disjuncts are the trouble that must
end.

*Abstractions.* `checkSendLog` is disabled in the code and left out, as are time synchronisation,
a `netconn_new` that finds no memory, and the contents of the configuration (`BoardCfgTab`): what
matters here is whether one has come.

## 5. RS-485 ports

### Model of a Modbus port task

`UartPort` is one task of a Modbus master port, with `NModules` modules. One
action per module and round (`Skips`, `Answers`, `NoAnswer`), and the end of the
round (`RoundEnds`, or `EmptyRound` for a port without a handle), which publishes
the mask, re-arms a port shown all offline and sleeps to the end of the period.
Time is in ticks of 500 ms. An answer takes no time; a missing one takes `Timeout`,
which is added to the silence of *every* module and to the length of the round.
`idle` saturates one above `ReportBound`. `port_error` wraps at `ErrorWrap`, as the
`uint8_t` of the code does at 256.

### `UartPolling`

Bounds: three modules, period 2, timeout 1, threshold 4 ticks: the code's
1000, 500 and 2000 ms. The skip limit (3) and the saturation (4) are the code's;
the probe comes every 3 skipped rounds instead of 10, and `port_error` wraps at 6
instead of 256 (still above the 4 from which it no longer re-arms). With three
modules a round may last longer than the period, which is the interesting case.

- `SkippedIsOffline`: a module that is skipped has been marked offline. It holds
  although one is decided on a count and the other on a time: three failures take
  at least two periods and one wait, 2500 ms, against the threshold of 2000 ms
  (`PortAssumption`).
- `ReportedInTime`: once a module has been silent for the threshold and two of the
  longest rounds, it is not in the published mask.
- `BackIsSeen`: a module that is back for good is published again and again.

*Fairness.* The task is scheduled (weak). Of the answers a module gives again and
again some arrive (strong), and a port whose handle is opened again and again opens
once (strong): without the two, the wire or the driver may fail for ever.

### Model of the raw exchange

`UartExchange` is `uart_custom_exchange` (`bsp_rs485.c`), called over and over by the
port task, and the custom branch of the interrupt handler (`mbportserial.c`) on one UART.
The handler runs in parts (enter, transmit on TXE, turn the bus round on TC, receive on
RXNE, clear the errors) that work on the flags it read on entry, as the code does. It clears
errors in up to three steps more: it reads SR anew and either saves a byte it finds
(`IsrSaves`), or reads SR once more (`IsrReadsAgain`) and then DR (`IsrReadsAway`); reading DR clears
those errors only that the last read of SR showed. The UART (`ByteLeaves`, `ByteArrives`) goes on
between any two of these, and the task is interrupted between any two of its own steps, the
giving up of a sending that takes too long among them. A byte is its number since the window
opened, and any byte of the time before is `Foreign`. Waits are in ticks.

- `HeardIsKept`: what the task has copied, followed by the ring and the UART's register, is
  byte for byte and in order what the bus has carried since the turn-round, but for bytes lost at three
  places: the UART overran, the ring was full, or a byte ended between the handler's look at
  RXNE (`mbportserial.c:551`) and its reading the errors away (565-566; section 7, 14). The
  history `heard` drops a byte there and nowhere else.
- `RequestSentWhole`: when the task receives, every bit of the request is out and the
  driver is off.
- `ClosedBetweenExchanges`: when an exchange begins, the bus is not driven and no
  interrupt is enabled that sends; and the window is closed, unless the exchange before was
  given up while sending, when the handler may have opened it (section 7, 11). `HeardIsKept`
  and `RequestSentWhole` hold for the exchange after that one too.
- `EveryExchangeReturns`: even if the UART stops sending for ever.

Bounds of the run `UartExchange`: a request of 2 bytes, a receive buffer of 2, a ring of 3
(it wraps, and fills), 1 quiet tick within at most 2, both time-outs 1, and 3 bytes heard
while a window is open; bytes outside a window are unbounded. *Fairness*: the task is
scheduled and interrupts are served (weak). An
interrupt storm that keeps the task from running is excluded by the bound on bytes.
The turn-round is one step: the code argues that a byte takes 500 times as long
(`mbportserial.c:492`). Left out: the repair of a 143-byte answer by its CRC, the
callers' CRC, counters, a call without a receive buffer. The byte the task picks up
from the register after it has closed the window (`bsp_rs485.c:1002`) is modelled, but
`HeardIsKept` ends before it.

### Model of the axle counters' acknowledgement

`AxleCounter` has both ends: the board's poll, echo and upload (`main.c:1570-2060`), and a
counter's queue of pulses as the simulator keeps it (`axle_counter_handler.py`). A poll echoes the
code of the last answer *read* and asks for as many pulses as that answer said were
unread; the counter drops what it had sent with a code up to the echo. A request or an answer may be
lost (`Lose`), an answer may come after its exchange was given up (`Delay`, taken
by the next one or discarded while the board waits for a quiet bus), and the board may be reset. Codes start over at 1
at `CODE_LIMIT`. The number of samples of a pulse matters, since answers and uploads have a
largest size; values do not.

- `NothingLost`: every pulse counted is still in the counter, or has been handed to the curve
  FIFO, or lay beyond the end of the upload buffer when its packet was cut into frames
  (`main.c:1754`, 1804-1807). These last are lost for good, since the packet's code has been saved before
  (`main.c:1934`); the history variable `cut` names them, and `CutOff` says which
  they are (section 7, 9).
- `InOrderAndOnce`: each channel's pulses are uploaded in order, none twice, resets included.
- `PulsesArrive`: each pulse is uploaded or cut off in the end.

The three hold as long as the echo is of the exchange it is taken for: `confused`, a
history variable, records the three ways it is not (an answer that came late; codes that
started over, so that a code from before is compared with a new one or an answer with pulses gets the very
code the board echoes; a poll that follows a reset while an answer was unheard), and
section 7 says what happens then.

Bounds of the run `AxleCounter`: one counter, two channels (two pulses on the one, one on the other), 3 pulses of
255 samples, answers of at most 2 pulses, a buffer of 1000 bytes instead of 4085 (so that the packet with both pulses
of one channel is cut, and one with a pulse of each is not), three lost messages, one late answer, one reset, and codes up to 3
(few enough for three losses in a row to bring back the code echoed; with 65535 that takes as many exchanges
in a row). *Fairness*: the task polls each counter again
and again, if rarely while it is offline (strong); it takes what it hears, and a
counter that hears a request answers (weak). Left out: the digital registers, the frame of realtime data, times.

## 6. What is proved

Every safety invariant, action property and refinement that a passing run checks is
proved here; the runs show them on small instances, and show liveness.

| Theorem | Module | Says |
|---|---|---|
| `TypeCorrect` | `OtaSystem_proof` | `Spec => []TypeOK` |
| `RunningSlotSafe` | `OtaSystem_proof` | `Spec => RunningSlotUntouched`: HAL failures, power losses and wrapped offsets included |
| `StartsOnlyWholeImages`, `AlwaysFindsASlot` ¹ | `OtaSystem_proof` | only whole images are started (`BootsOnlyComplete`) and the bootloader never ends blinking (`NeverBricked`) |
| `RecordsAreTrue` ¹ | `OtaSystem_proof` | `Spec => []RecordedImageIsThere` |
| `NeverOlder` ¹ | `OtaSystem_proof` | `Spec => NoDowngrade` |
| `UpdatesAreAtomic` ¹ | `OtaSystem_proof` | `Spec => UpdateIsAtomic`: the board implements `AtomicUpdate` |
| `SessionRefines` | `OtaSession_proof` | `SessionSpec => ImplementsSystem`: with the real protocol the board does only what `OtaSystem` allows |
| `SessionTypeCorrect` | `OtaSession_proof` | `SessionSpec => []SessionTypeOK` |
| `ClientAndManagerAgree` | `OtaSession_proof` | `SessionSpec => []ClientAgrees` |
| `FramesAreExpected` | `OtaSession_proof` | `SessionSpec => []FramesMeetTheirState` |
| `NoBlockIsLost` | `OtaSession_proof` | `SessionSpec => []BlocksConserved` |
| `RunningSlotSafeInTheField`, `UpdatesAreAtomicInTheField` ¹ | `OtaSession_proof` | what is proved of `OtaSystem` holds with the real protocol |
| `WatchdogTypes` | `OtaWatchdog_proof` | `Spec => []TypeOK`, with a round inside `ota_task_wdt_arm` too |
| `OnlyTheStuckAreReset` ² | `OtaWatchdog_proof` | `Spec => []StuckIsReallyStuck` |
| `HangsAreFound` ² | `OtaWatchdog_proof` | `Spec => []HangEndsInReset` |
| `SlotErasesSurvive` ² | `OtaWatchdog_proof` | `Spec => []SlotErasesAreFed` |
| `QueueTypes` | `TcpQueue_proof` | `QueueSpec => []QueueInv`, which contains the types |
| `FramesAreWhole`, `FramesAreInOrder` | `TcpQueue_proof` | `QueueSpec => []OnlyWholeFrames`, `QueueSpec => []WrittenInOrder` |
| `RingImplementsQueue` | `TcpQueue_proof` | `QueueSpec => RingIsAQueue`: the ring implements `BoundedQueue` |
| `SystemUsesTheQueues` | `TcpSystem_proof` | `Spec => QueueSpec` |
| `SystemTypes` | `TcpSystem_proof` | `Spec => []TypeOK` |
| `OnlyLostRequestsReset` | `TcpSystem_proof` | `Spec => []OnlyRequestsReset` |
| `DataNeverResets` | `TcpSystem_proof` | `Spec => DataFramesNeverReset` |
| `QueuesInTheSystem` | `TcpSystem_proof` | the three theorems about the queues, in the whole system |
| `PortTypeCorrect` | `UartPort_proof` | `Spec => []TypeOK` of the port task |
| `SkippedAreOffline` | `UartPort_proof` | `Spec => []SkippedIsOffline` |
| `SilenceIsReported` | `UartPort_proof` | `Spec => []ReportedInTime` |
| `ExchangeTypes` | `UartExchange_proof` | `Spec => []TypeOK` |
| `NoByteIsLost` | `UartExchange_proof` | `Spec => []HeardIsKept`: none but at the three places the property names |
| `RequestsLeaveWhole` | `UartExchange_proof` | `Spec => []RequestSentWhole` |
| `WindowsAreClosed` | `UartExchange_proof` | `Spec => []ClosedBetweenExchanges`, sendings given up included |
| `AxleTypes` | `AxleCounter_proof` | `Spec => []TypeOK` |
| `UploadedInOrder` | `AxleCounter_proof` | `Spec => []InOrderAndOnce` |
| `NoPulseIsLost` | `AxleCounter_proof` | `Spec => []NothingLost`: none but what the upload buffer has no room for, whatever the sizes |

**Hypotheses of single theorems.**
¹ `MaxFaults = 0`: no HAL call fails. Run `OtaHalFaultBoots` shows what one failing call does.
² `ArmPreempted = FALSE`: no round falls between the two assignments of `ota_task_wdt_arm`
(section 7, 7).

**Assumptions on the constants.** `LayoutAssumption` (the two slots follow each other, B is not
larger than A, both end inside the address space), `SectorAssumption` (no sector
straddles a slot), `ImageAssumption` (images fit their slots; blank, junk and
images differ), `BoundsAssumption`, `MaxFaultsAssumption`; for the session also `SessionAssumption`,
`ReleasesAssumption` and `ServerAssumption` (blocks and windows are not empty, a release has one version and
its images fit their slots). `PortAssumption` (`ErrSat >= SkipErr`, and
`(SkipErr - 1) * Period + Timeout >= OfflineAfter`: with the code's values 2500 ms
against 2000 ms). `WatchdogAssumption` and `TimesAssumption`: each window is longer than the calls it covers, the
longest chain without a report (two sends and the writing of BootInfo) is shorter than `WDT_TIMEOUT`, the
clock's range is more than twice the longest wait; the code's 30 s, 10 s, 3 s, 10 s and 4 s satisfy
them. `TimeAssumption` of `TcpSystem`: a steady host is heard in time (`ConnectMax + BeatEvery + MaxDrops * PerDrop <=
HeartbeatMax <= TaskMax`, `BeatEvery < RecvErrMax`). With the code's limits (120, 500 and 260 rounds), a wait of 2 rounds,
3 s for a connection and a heartbeat every 5 s (`main.c:532`) it allows five lost connections in a row; with the 57 s of `client.c:87`, none.
`QueueAssumption`, `PartialAssumption` (half a frame is not a frame), `ClientAssumption`,
`SupervisorAssumption`, `ExchangeAssumption` (a ring has at least two places), `AxleAssumption` (more than one
code): sizes and limits are positive. No theorem bounds the number of images, power losses, cells, ports, frames,
modules, bytes or pulses.

**`RunningSlotSafe`** needs the type invariant and that an operation in progress
stays inside the target slot: the driver's range check is what guarantees it, even
for an offset that wraps, because the manager's own comparison does not. One lemma
per flash operation, and one step per action.

**`StartsOnlyWholeImages`** needs `IInv = TypeOK /\ OpInv /\ ManagerInv /\ InfoInv`.
`BootsOnlyComplete` by itself is not inductive, since what is in BootInfo today
decides what is started after the next reset. The heart of `InfoInv` is: *either
both slots hold whole images, or BootInfo names a slot that does*. While BootInfo is
being rewritten it is unreliable, so it may only be rewritten while both slots are
whole, which is the case from the verified download (`SUCCESS`) to the reset and in
the bootloader after it has checked. Erasing the other slot is allowed only in
`DOWNLOADING`, when BootInfo names the running one. The hypothesis `MaxFaults = 0` is
needed: run `OtaHalFaultBoots` shows what one failing call does.

**`SessionRefines`** maps the initial states by identity and each step of the session to a
step of `OtaSystem` or to a stutter, one lemma per handler. That takes an invariant,
`FullInv = SessionInv /\ AgreeInv`: a block the client hands to the manager must have an
image, an offset and a length the manager may be given, so the types of the frames under way
are part of it, and the task must ask for an operation only in the state it is allowed in,
which is `ClientAgrees`. With the refinement, `RunningSlotSafe` carries over
to the protocol.

**`SkippedAreOffline`** needs `SilentPerFailure`: a module with `e` failures has been
silent for `e - 1` whole periods and what has passed of the current round, and for
`e` periods if it has not been asked in this round yet (or it has reached the
threshold already). The proof shows that each way of ending a round keeps this, the
long rounds without sleep included. `NoHandleNoRound` covers a port whose handle is lost.

**`SilenceIsReported`** needs `ShownIsRecent`: a module still in the mask after its turn
has been silent for at most the threshold and what has passed of the round; one in the
published mask, for at most the threshold, the longest round, and what has passed of
this one; and a round has lasted at most one `Timeout` per module asked. What the mask
holds *before* a module's turn is not bounded (after rounds without a handle it is
optimistic again), and need not be: it is not published before the turn.

**`UpdatesAreAtomic`**, `NeverOlder` and `RecordsAreTrue` rest on `UpdateInv`, which adds four parts to `IInv`.
`RecordInv`: a CRC recorded with a slot and a size is that slot's, also in the record being written.
`TargetInv`: a verified image stays in its slot until the commit. `LastInv`: the image that ran last is
still there, and only a newer one is downloaded. `NamedInv`: while no newer image is whole, BootInfo names
the slot of the one that ran last, and the bootloader looks nowhere else. The last is what makes
the mapping work: a start of the board runs `current`, or the newer `stored`, and the bootloader
has no third choice. Each step is then mapped to an action of `AtomicUpdate` or a stutter: the last
word of a download is a `Store`, an erase over a newer whole image a `Discard`, a jump a `Start`, a reset or
power loss a `Stop`.

**`FramesAreExpected`** needs `WireInv`: what each frame under way says of the two ends. A push
is alone on the wire; END is the last frame; as long as the ends are connected the PC's phase
says where the client may be; a HELLO under way tells what still holds of the board. Everything under way
dies with the connection, which is why a client that starts again meets nothing old.
**`NoBlockIsLost`** needs `DownInv`: from the board's last block to the PC's next offset the blocks under way
form a chain, each beginning where the one before ends, and the CRC is the sum of what is written.
That the lengths of a chain add up is proved by induction over its frames.

**`OnlyTheStuckAreReset`** and the two beside it need `WatchdogInv`: the deadline is the last report plus the window *of
the call the task is in*, as a number on a clock that wraps; what the call may still take
and what has passed since the report stay within its budget; and the feeding has stopped only after a deadline passed.

**`FramesAreInOrder`** needs that along the path slot or ring, `send_copy`, `sent` the numbers of a
port's frames of one kind fall, and that the task's own frame is the youngest (`QueueInv`).
A slot or a place of the ring is torn only while its task is in `copy`, which holds the mutex.
**`RingImplementsQueue`** maps the places from `head` on, `count` of them, to the queue; `tail = (head + count) % Depth`
is kept by all four ways in and out. **`SystemUsesTheQueues`** is a refinement as well: each step of client,
host and supervisor is one of `QueueNext` or leaves the queues alone, so their theorems
hold in the system without being proved again. It needs that `client_thread` never enqueues two
requests at once (`ThreadInv`). **`OnlyLostRequestsReset`** needs `SystemInv`: data frames carry no
reset flag anywhere on their path; and with a steady host `heartbeat` is at most `Silence`, which
bounds, step by step of a connection's life, the rounds since the host was last heard: `PerDrop` for each
connection lost since, and what this one has taken so far. `TimeAssumption` keeps `Silence` below the limit. A
port task is held up by a full ring only, and the ring is emptied once a connection has lasted a round, so its counter
is at most the heartbeat's (`PortsHeard`); the send task is never blocked.

**`NoByteIsLost`** needs `ExchangeInv`: which interrupts may be enabled in which part of task and handler, that what
the handler does next is still covered by the flags it read last, and that request bytes are out, in the
UART, or not yet taken. With these the task and the handler never move the same end of the ring.
**`WindowsAreClosed`** needs `BetweenInv`: no handler that is between exchanges has found a sending interrupt, so that a
window left open by a sending given up receives and does nothing else.

**`UploadedInOrder`** and **`NoPulseIsLost`** need `AxleInv`: for each module there is a number *u* such that its first
*u* pulses have been uploaded, or are in `cut`. An event whose pulse is one of them carries a code that the next echo confirms;
any other carries none, or the code of the last answer, which the board has not read;
and an answer under way begins with pulse *u* + 1. The attempt to prove this found a case in which `confused` had to be
set and was not: codes that start over and reach, in an answer with pulses, the code the board
still echoes. The definition was corrected, and the run now has losses enough to reach it.

**Induction over data.** The library's induction theorems take an operator, which the provers
here cannot instantiate. Where a proof needs one (the sum over a chain of blocks, the loop that
picks a channel's pulses, the first place in a ring) it is done on *sets* of numbers: `SmallestThere` says that
a set of numbers has a least member, from `WFMin` and `NatLessThanWellFounded`, and `UpTo` that a set with 0
that is closed under the step holds every number up to *n*.

**Only model-checked:** liveness (`CommittedImageRuns`, `EveryStartReachesAnApp`,
`UpdateArrives`, `BlockedSendEnds`, `ConnectedForGood`, `BackIsSeen`, `PulsesArrive`,
`EveryExchangeReturns`), which with its fairness is out of the prover's reach, and the four violations
of section 7, which are counterexamples.

## 7. Where the code and its comments differ

Four are shown by a run that TLC must find violated; the behaviour is the run's
counterexample.

1. `OtaHalFaultBoots` (`HalfWrittenNeverStarted`) – `boot_info_write` fails after S11 was erased; the manager
   aborts and accepts another push while BootInfo is torn; power fails during that
   download; the bootloader falls back on the half-written slot, for which it knows
   no CRC. `ota_config.h:28-30` promises rollback for any failure.
2. `OtaFirstPowerUp` (`FatalOnlyIfNeitherBootable`) – the very first BootInfo is written magic first; a power loss
   before the size leaves a record that fails the check of the good slot A, slot B is
   blank, and the board blinks for ever.
3. `TcpCurveLost` (`NoCurveLost`) – a curve frame leaves the ring before it is sent; when all tries
   fail it is gone, though the comments say that curves are not lost.
4. `TcpDeletedConn` (`NoWriteOnDeletedConn`) – `client_thread` deletes the netconn while the send task may be
   about to write to it; lwIP allows that only with `LWIP_NETCONN_FULLDUPLEX`, which is 0.

The others were met while modelling and are described only.

5. A second, invalid configuration replaces the table in use before it is found invalid
   and "discarded" (`client.c:528-537`).
6. `ota_wdt.h:12-19` promises that no erase starves the SP706S. `boot_info_write` erases S11
   (`ota_flash.c:333`), 128 KB like the others, without starting TIM7 and DMA. `OtaWatchdog`
   states this as `HealthyBoardKept`, which fails in "commit" only; `SlotErasesAreFed` is the rest.
   The reset that follows finds a torn BootInfo and two whole slots, from which the bootloader recovers.
7. `ota_task_wdt_arm` sets the flag before the deadline (`ota_wdt.c:324`): a supervisor round
   between the two (`main.c:588`) compares the clock with a deadline of 0 and resets the
   board. `ArmPreempted = TRUE` shows it.
8. A reset of the board clears the code it would echo (`main.c:1583`, `bsp_rs485.c:154`). Its first
   poll echoes 0, which confirms nothing and asks for no pulses; the next echoes the code of that
   answer, which is larger than that of every pulse sent before (`axle_counter_handler.py:298`). Pulses
   the board had uploaded are thereby confirmed, and so are those of an answer it had never read.
9. An answer of many pulses is cut where the upload buffer ends (`main.c:1754`, 1804-1807). The comment at
   `main.c:1650-1652` speaks of this cut, for packets near 4 KB; not that the packet's code has been saved by
   then (`main.c:1934`), so that the pulses cut off are acknowledged and lost: 5 of 32 pulses of
   63 samples on one channel. `NothingLost` excepts exactly these. An
   answer longer than 4085 bytes never gets through at all.
10. The address of an axle counter's answer is not compared with the one asked
    (`main.c:1601`): a late answer is booked for the next module, and acknowledged there.
11. `bsp_rs485.c:815-826` gives up a sending that takes too long. If the last TC interrupt comes
    between its test of `tx_done` and its clean-up, the window stays open after the return, though
    the comment at 751-752 says that it is closed whenever an exchange begins. The interleaving is in the run
    `UartExchange`, and `ClosedBetweenExchanges` therefore excepts what follows a sending given up. What the
    next exchange waits for as a quiet bus may then be disturbed; its request and its answer are not.
12. The realtime values of the six ports take 6 × 0x1000 bytes of SDRAM (`bsp_rs485.c:293`), of which
    those of the last port lie where the curve buffers begin, at 0x5000 (`bsp_rs485.h:108`).
13. `main.c:532` takes 60 s without a heartbeat for twelve of them missed in a row, one every 5 s. `client.c:87` reports
    that the host was seen to send only every 16 to 57 s. Since `heartbeat` goes on counting while the board
    connects again, one dropped connection is then enough for code 27: `TimeAssumption` does not
    hold of these numbers, and `OnlyRequestsReset` fails without it.
14. `mbportserial.c:541-549` says of a byte that ends while errors are being cleared that it is saved and no longer
    thrown away. One that ends after the test of RXNE (551) and before the two reads (565-566) still is, without
    an overrun and without being counted.

Two smaller differences were met in `UartPort` and are only noted. With
three silent modules before it in the round, a module is marked offline on its *first*
lost answer (3 × 500 ms and its own 500 ms reach the threshold), although `main.c:242` and
`main.c:700` say one lost answer is forgiven. And `main.c:1494` and `main.c:1553` announce a
watchdog reset after four errors of a port, which nothing triggers, while `main.c:711-713` says that
a port without a handle cannot recover: `port_error` counts
on, wraps, and the port is re-armed again. `BackIsSeen` relies on that.

## 8. What is not modelled

- The reassembly of OTA frames from the TCP byte stream (`ota_net.c`): `OtaSession` takes
  frames in order, which is what the parser has to deliver.
- The DC 3-wire protocol. It is like the axle counters' with two differences worth
  a model: the board does not store sequence number 0 (`main.c:2263-2266`), while the simulator
  sends `curve_seq + 1` modulo 2^16 (`dc3wire_handler.py:266`), so that after 65535 curves one curve would be
  uploaded over and over.
- The assembly of curves from the frames of the custom ports (`main.c:1402-1472`,
  `bsp_rs485.c:1088-1319`): what the collector does when a frame is not acknowledged is not in
  this repository, and its simulator writes the flag bytes in another order
  (`custom_handler.py:333-334`), so one of the two ends would have to be invented. The EEPROM
  copy of the curves is disabled (`#if 0`).
- RS485-7, the alarm relay and the UDP status (`task_rs485_7.c`): planned.
- The event and timer ports of FreeModbus (`mbport/`): planned. They are pools of handles
  used by the vendored stack.
- The registers a port reads, alarms, the Modbus slave's map, time synchronisation, and
  a configuration that changes while ports run.
- The GUI, the other simulators, LEDs, logs, board bring-up: input and output without a protocol.
- Third-party code (FreeModbus, FreeRTOS, lwIP, HAL): it appears as what its callers
  may see of it. It is by far the largest part of the repository.
- Real CRC collisions, flash wear, bit errors in flash, stack overflows.

## 9. Plan

Done: the board's OTA core, the abstract update it implements, the session with the PC tool;
the OTA watchdog; TCP client and supervisor; Modbus port task; the raw UART exchange; the axle
counters; and a proof of every safety property their runs check. Left, in this order:

1. **`OtaNet`**: the reassembly of frames from arbitrary pieces against a reference parser, over
   bounded inputs.
2. **DC 3-wire**: acknowledgement and sequence numbers, with resets of board and collector.
3. **RS485-7**: alarm outputs from masks published at round ends; the pools of `mbport/`.
4. **Curves**: assembly and upload, once the collector's side is known; reconfiguration of
   ports that run.
