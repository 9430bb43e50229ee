# A TLA+ model of the Pluto Zigbee gateway

This directory models the program logic of `src/app`: the Zigbee gateway
`gwzb-esp32-v2.0` and the library `pluto` it is built on. The other directories
of the repository are a compiler, its headers and packages, documents and
images. Each module is translated from the C source; `PROJECT.json` maps every
definition to the lines it stands for.

All file names below are relative to `src/app/gwzb-esp32-v2.0/app` unless they
say otherwise.

## 1. The system

### 1.1 Threads

| Thread | Core | What runs on it |
| --- | --- | --- |
| operating layer (`osThread` in `libplutolib.a`) | 1 | all handlers of the gateway: in a circle it serves the timer list, which queues a message for each timer that is due, takes up to five messages from the queue in order, and sleeps for one tick |
| `uart_thread` (`hal_driver/hal_uart.c`) | other | takes bytes out of the UART driver into `RxBuffer`, 128 at a time, every 20 ms |
| `factory_thread` (`hal_driver/hal_factory.c`) | other | takes the bytes of the factory bench into `uart_rx` |
| socket receive threads (`pluto/socket`) | other | one for TCP, one for UDP |
| WiFi event loop and smartconfig task (`main/wifi_station.c`) | SDK | connection and first set-up |

A handler on the operating layer is never interrupted by another handler, so it
is one action in the models. What is interleaved is the order of handlers,
messages that wait in the queue after the state they were sent for has changed,
and the threads outside. `libplutolib.a` has no source in the repository. Its
functions are modelled as their callers use them: `osStartReloadTimer` replaces
the timer of the same function and signal or makes a new one;
`osDeleteTimer` does not take back messages that are queued;
`osSendMessage` appends to the queue.

### 1.2 Components

| Component | Source | State | Operations | Modules |
| --- | --- | --- | --- | --- |
| Send list | `zb_io_buffer.c` | list `pSend`, `active_task`, timer | `zb_io_req_send`, `zb_io_remove_send`, `io_task` | `ZbIoBuffer`, `StopAndWait`, `Gateway` |
| Interview of devices | `zb_zdo.c` | list `pNewDevice`, timer | announcement, leave, active endpoints, descriptors, `zdo_task` | `ZbZdo`, `Gateway` |
| Port table | `zb_map.c` | ports in the library, kept in flash | create, delete, find | `ZbMap` |
| Serial link | `zb_uart.c`, `hal_driver/hal_uart.c` | `RxBuffer`, `zb_rx` | `uart_thread`, `read_package`, `zb_uart_read`, `zb_uart_task`, `package` | `ZbFrame`, `ZbUart` |
| Serial number store | `pluto/fs/pluto_file_system.c`, `pluto_nvs.c` | three copies in NVS | `pluto_write_sn`, `pluto_read_sn`, `pluto_nvs_write` | `SnStore`, `SnRegister` |
| ZCL and application flow | `zb_zcl.c`, `zb_app.c` | port values, sequence counter | commands of the cloud, answers and reports of devices | `ZbApp` |
| Keys, resets, watchdog | `app_task.c`, `hal_driver/hal_key.c`, `hal_lamp.c` | key state, hold times, lamps, timers | key scan, two resets, offline watchdog | `AppTask` |
| Factory link | `factory_settings.c`, `hal_driver/hal_factory.c` | `uart_rx`, shared by two threads | receive, poll, commands | `FactoryLink` |
| Start and WiFi | `main/`, `pluto/pluto_entry.c`, `pluto-switch3-*/main/smartconfig.c` | event group, `airkiss_state`, `got_ip_flag` | events, smartconfig, start of the client | `WifiStation`, `NetStart` |
| UDP socket | `pluto/socket/udp_socket.c` | `udp_socket_fd`, shared by two threads | open, close, send, receive thread | `UdpSocket`, `NetStart` |
| TCP socket | `pluto/socket/tcp_socket.c` | `tcp_socket_fd` | connect, close, send, receive thread | none |
| Text files | `pluto/fs/pluto_file_system.c` | files of SPIFFS | read, write, seek | none |
| Coordinator management | `zb_system.c` | none of its own | requests over `zb_uart_read` | none |
| LED, PWM | `hal_driver/hal_led.c`, `hal_pwm.c` | blink state | set, blink timer | none |
| Colour and closure clusters | `zb_color.c`, `zcl_*.c` | none | conversions in floating point | none |
| Demos | `button-led`, ... | | examples of a page | none |

### 1.3 How they interact

```
 cloud / app                                           devices
     |                                                    |  radio
 zb_app, zb_zcl --- zb_io_req_send ---> send list      coordinator
     ^                                   | zb_uart_write  |
     |                                   v                |
     |                              serial link  <--------+
     |                                   | receive_message_cb
     +--- reports, answers --------------+--- zb_io_remove_send --> send list
                                         +--- zb_zdo: announcements, leaves,
                                              endpoints, descriptors
                                                   |
                                                   v
                                              port table (flash)
```

The interview asks its questions through the send list, without asking for an
acknowledgement; the answers come back through the serial link as frames of the
coordinator. `zb_system.c` writes and reads the serial link directly and blocks
the operating layer while `zb_uart_read` waits.

### 1.4 What is hard, and what makes each part correct

* **Send list.** A flag, a timer and a queue of messages must agree, though
  messages of the timer are queued when the list changes. Correct: never a
  command on the list without its timer; no command more often on the wire than
  granted; one at a time; the order kept; nothing dropped unsent without cause.
* **Interview.** Answers come late, twice, never, or for a device that has gone
  or has another address by now; each turn of the task repeats the questions;
  the gateway restarts. Correct: a listed device is served, every interview
  ends, a port has the names of the device it was made for, a device that comes
  back loses its old ports and one that leaves those of its address, and where
  questions are answered once and in time each endpoint gets a port, and no more
  of them than its device was asked.
* **Serial link.** Chunks cut frames anywhere, buffers overflow, bytes are lost,
  start bytes appear in data, two kinds of readers share the buffer. Correct:
  no array is overrun, what comes out is what was sent and in that order, the
  link comes back into step, and the blocking read returns.
* **Serial number.** Power may fail at any point of three writes, and flash may
  be damaged. Correct: the three copies act like one register.
* **Port table.** Deleting by index while each deletion renumbers the rest.
* **Application flow.** A value is stored when its command is queued, the device
  may refuse it, the radio may lose it, its answer may come after the next try
  or after it was given up, somebody may press the switch, and frames are matched by
  an 8-bit number that comes round again. Correct: once all is quiet the gateway, the
  cloud and the device agree, and where they do not a command failed for a reason.
* **Keys and resets.** Two one-shot timers that exclude each other, hold times
  counted in scans that may come late, a watchdog that is started again by every
  state but one. Correct: one press switches one lamp once, only a long hold wipes
  the gateway and every long hold does, the chip restarts when the cloud is gone
  for good, and its restart is not queued within the time after it was there.
* **Factory link.** Two threads on two cores load and store `uart_rx.cnt` and
  `timeout` with the lock commented out. Correct: nothing is written behind the
  array, no byte stays in it for ever, no frame is dropped or run twice.
* **Start, WiFi, UDP.** Four threads, events that are queued when the settings
  change, a socket opened by two threads, failures that restart the chip. Correct:
  a station with the right settings joins, smartconfig ends, no socket leaks, and
  a device with an address listens.

`PROJECT.json` lists the hazards with their lines, those of the planned parts
included.

## 2. The modules

### 2.1 ZbIoBuffer, StopAndWait

`pSend` is the set of the blocks on the linked list and `ahead[b]` the blocks in
front of `b`; `out` holds the fields of `output_t`. A list is kept this way, and
not as a sequence, because unlinking is then a set difference and the proofs
need no induction over positions. `io_timer` says whether `(io_task, 1)` is in
the timer list, `io_msgs` counts its messages in the queue. `sent` is a history
variable: the transmissions of a block since it was linked.

| Action | Code |
| --- | --- |
| `ReqSend` with `AddToSendList` | `zb_io_req_send`, `add_to_send_list` |
| `RemoveSend` with `Removed`, `Unlink` | `zb_io_remove_send` as `zb_zcl.c:52` calls it for each ZCL frame of a device with a port |
| `IoTimerFires` | the timer of the operating layer |
| `IoTask`: `IoTaskSend`, `IoTaskGiveUp`, `IoTaskEnd` | `io_task` with tries left, without, with an empty list |

`StopAndWait` is what the list promises, without lists, timers and sequence
numbers: commands wait, one is current, it is sent `MaxTry` times at most, and
what is dropped is not sent again. `ImplementsStopAndWait` is the refinement:
`current` is the set of blocks that have been on the wire, `tries` what `sent`
says of it.

Abstracted: the payload and the handle of a command, and the result of
`zb_uart_write`, which `io_task` ignores. A failed `malloc` changes nothing and
is a stuttering step.

### 2.2 ZbMap, ZbZdo

`ZbMap` has no variables: a port table is a function from port numbers in use to
`[exaddr, addr, ep]`, and the operators are the functions of `zb_map.c`.
`DeleteMatching` is the loop of `zb_delete_device`, including the index that
falls while the ports are renumbered.

`ZbZdo` keeps `pNewDevice` as a sequence of `Device_t`. The send list, the serial
link and the radio are one bag of questions (`asked`) that may be answered in
any order, again, or be lost. `nwk` is the environment: which device has which
short address. Several questions may be lost at once, as one lamp that does not
answer takes all that wait for it off the send list; a restart loses the list and
any of the questions. `Gateway` (2.9) shows that this bag is what the code has.

| Action | Code |
| --- | --- |
| `Announce`, `AnnounceNoMemory` | `device_indication_process`, `zdo_add_new_device`, with and without a block of memory |
| `Leave` | `device_leave_process`, `zb_delete_device` |
| `ActiveEpRsp` with `set_point_num` | `active_ep_process`, `set_point_num`, `req_ep_describe` |
| `SimpleDescRsp` with `ep_describe_process` | `ep_describe_process`, `get_exaddr_by_addr`, `zb_create_port`, `set_point_count` |
| `zdo_task`: `ZdoTaskPop`, `ZdoTaskAsk` with `UseTry`, `ZdoTaskEnd` | `zdo_task` |
| `ZdoTimerFires`, `Lose`, `Restart` | timer; lost messages; restart with the ports read back from flash |

`finish_count` and `point_num` are bytes in the code; `MaxCount` bounds the count
and the test `point_num == finish_count` is kept as it is.

### 2.3 ZbFrame, ZbUart

`ZbFrame` holds framing: `package`, `package_length` in the width of a byte,
`check_package`, `find_head` with its loop (`Heads`, `Aligned`), and the exclusive
or. The number of bytes is the constant `ByteValues` (256 in the code); the start
bytes are its two largest values, as 0xFE and 0xFF are. A length that wraps
makes the code sum over memory outside the frame: `check_package` is a set of
possible results there.

`ZbUart` has the bytes on the line and in the driver (`line`), `RxBuffer`, `zb_rx`
with its `timeout`, and the `zb_uart_read` that waits (`reader`). One
`hal_uart_read` under the lock is one step (`Drain`), since `uart_thread` may run
between two of them; the rest of `read_package` touches only `zb_rx` and is one
step (`CutTimeout`, `CutFrame`). `zb_rx_lock` is not a variable: `zb_uart_task` and
`zb_uart_read` run on the same thread, so the task never sees it set. `Garble`
is the line losing a byte. `sent`, `got` and `lost` are the history since the
line was idle; `disturbed` says that since then the line lost a byte, paused until
the timeout was over, or an array ran full. The copies that move bytes to the front
of an array overlap; they go downwards and are modelled as a move.

### 2.4 SnStore, SnRegister

`copy[i]` is the number in copy `i`, or `NoSn` when its mark or checksum is wrong.
Writing one copy is `SetBlob`, then `Commit`; `Interrupted` between them (power, or
the abort in `ESP_ERROR_CHECK`) leaves the old number, the new or none.
`OpenFails` is a failed `nvs_open`: the copy is left out and the caller is told
`osSucceed` all the same. `Damaged` is the flash. `harm` counts such events since
the last write that stored all three copies. `opens` is chosen once: whether
`nvs_open` never fails. `SnRegister` is the promise: a write that takes effect at
one moment, or not at all when it is cut; when it returns it has taken effect,
if `firm`, which is `opens` of the store.

### 2.5 ZbApp

`ZbApp` extends `ZbIoBuffer`: it is the send list with both its neighbours. `do[b]`
is the ZCL command in block `b`, `todo` the commands that the running handler has
yet to send (a write of a level of zero is two), `down` and `up` are
the radio, `dev` is what each device does. `value` is what the port table holds,
`told` what the cloud was told last. While `todo` is not empty nothing else runs, as
handlers are not interrupted. `io_task` looks at its list alone: it sends again, gives
up and goes on with the next command whatever is still on its way, so answers come
late and cross transmissions. The radio is two queues and may lose any frame, reports
as well. `failed` is a history variable: the ports with a command that left the list
without effect, or a lost report, until a frame shows the stored value to be right.
The commands carry an identity and the transmissions a number in the model only
(`Sending`), by which an answer is told from one that has the same sequence number.

| Action | Code |
| --- | --- |
| `Write`, `Read` | `pluto_recieve_message_cb` and the handlers of `zb_app.c` for switches and levels |
| `SendCommand`, `SendFails` | `zcl_SendCommand`, `zb_get_seq`, `zb_io_req_send`, with and without memory |
| `Transmit`, `GivesUp`, `TimerFires`, `TimerEnds` | the actions of `ZbIoBuffer` with the radio behind them |
| `Receive` | `zb_zcl_message_process`: `zb_io_remove_send`, then the report or the default response |
| `DeviceActs`, `LocalChange`, `LoseDown`, `LoseUp` | devices and radio, external |

### 2.6 AppTask

Time goes in ticks. `timer[t]` are the ticks left of a one-shot timer, `msgs` the
queue of `app_task` and `factory_reset`. A round of the timers may come late (`Round(d)`
with `d` in `Ticks`), because the thread also waits in `zb_uart_read`: every timer has
moved on by `d`, but the keys were scanned once. `stalls` counts the ticks lost in a
hold, at most `Stalls`. `Press(K)` makes `K` the set of keys that are
down; `KeyScan` is `hal_key_scan`, `hal_get_key` and the handler behind them, with
`hal_lamp_tolgle`; `ResetWifi`, `ResetAll` and `ResetChip` handle the messages of the
three timers; `Login` is `app_login_state_cb`; `Restart` is the chip, which forgets all
but the keys that are down, and the user sets it up again. `held`, `away` and
`scanned` are histories.

### 2.7 FactoryLink

Each load and each store of `uart_rx.cnt` and `uart_rx.timeout` is a step of its
own; `tpc` and `ppc` say where the two threads are, `treg` and `preg` what they hold in
registers. The count has the range `Wrap` of its 16 bits. Data is cells: the head
of a frame, its data and its sum are told apart, not their bytes. `overlap` is
chosen once: with it the poll runs at any moment of `factory_thread` and the fixture
does not wait; without it a poll starts only between two chunks, which is what
the commented-out lock would give, and the fixture sends `Window` frames before it
waits for the line and the buffer to be empty.

### 2.8 UdpSocket, WifiStation, NetStart

`UdpSocket` has one program counter for the client and one for the receive thread;
both run `udp_create_socket`. `WifiStation` has the event loop (`Loop`), the
smartconfig task (`Task`), `pluto_task` (`Poll`) and the driver; `gateway` is chosen
once and selects the gateway's `wifi_station.c` or the switches' `smartconfig.c`, which
differ in who initialises the event loop and which callback stores what.
`NetStart` composes the two: the client opens its socket after `pluto_task` started
it, and a socket that cannot be made restarts the chip and with it the station.

### 2.9 Gateway

`Gateway` extends `ZbIoBuffer` with the interview on the same thread. Besides the
variables of the list and of the interview it has `todo`, the questions the running
handler has yet to put on the list (`active_ep_process` puts one for each endpoint,
and each has its own `malloc`); `what[b]`, the endpoint block `b` asks for, or `COMMAND`
for a command of the application; and `air`, the questions that are on the wire or
with a device, and may be answered any number of times or never. While `todo` is
not empty nothing else runs.

| Action | Code |
| --- | --- |
| `PutQuestion`, `NoBlock` | `req_read_active_ep`, `req_ep_describe` with `zb_io_req_send`, with and without a block of memory |
| `SendCommand` | `zcl_SendCommand` |
| `ZclFrame` | `zb_zcl_message_process` with `zb_io_remove_send` |
| `GwIoTask`: `Transmit`, `GiveUp`, `IoTaskEnd` | `io_task` |
| `Arrive`, `GoAway` | `zdo_add_new_device`, `device_leave_process` |
| `active_ep_process`, `ep_describe_process`, `zdo_task` with `AskHead` | the functions of the same names |
| `IoTimer`, `ZdoTimer`, `AirLoses`, `GwRestart` | timers, losses, restart of the chip |

The handlers of the interview are those of `ZbZdo`, instantiated as `Zdo`: its `asked`
counts a question as under way when it is in `todo`, waits unsent on the list, or is
in `air` (`UnderWay`). `ImplementsZdo` says that each step of the gateway is a step of
`ZbZdo` or changes nothing there. That is where it matters that a question is sent
once, that a block which was sent is no question any more, and what a ZCL frame with
the number of a question does: it takes the question off the list unsent, a loss for
the interview.

Sequence numbers come from a counter that the application takes from as well and
that only has 256 values: a number is any element of `SeqNum`. The serial link between
`Transmit` and the answers is part of `air`: it loses what `ZbUart` shows it may lose.

## 3. What the runs check

| Run | Bounds | Distinct states | Shows |
| --- | --- | --- | --- |
| `send_list` | 3 blocks, 2 addresses, 2 sequence numbers, 3 tries, 2 queued messages | 31 325 | `NoLostWakeup`, `BudgetKept`, `UnsentDropped`, refinement of `StopAndWait`, `EveryCommandLeaves` |
| `interview` | 2 devices, 2 addresses, 1 endpoint, 2 ports, 2 tries, 2 queued messages | 891 000 | `ZdoTypeOK`, `DeviceServed`, `OldPortsGo`, `PortsFromTheList` |
| `interview_calm` | 2 devices, 2 endpoints, 8 ports, 3 queued messages, calm network | 94 500 | `OnePortPerTry`, `InterviewComplete`, `DeviceGetsPorts` |
| `gateway` | 1 device, 1 address, 1 endpoint, 2 blocks, 2 tries of a command and of a device, 1 sequence number, 1 queued message of the list and 2 of the interview | 155 000 | `ImplementsZdo` (refinement of `ZbZdo`), `GwInterviewEnds` |
| `serial_link` | 16 byte values, bursts of 2 frames (one of them empty, one with a start byte in its data), buffers of 8 and 11 bytes, timeout 2 | 494 000 | `UartTypeOK`, `FramesInOrder`, `AllHandled`, `LineSettles`, `ReadReturns` |
| `serial_number` | 3 numbers, one harm, `nvs_open` sure or not | 1 030 | refinement of `SnRegister` |
| `factory_link` | 5 frames, 1 byte of noise, buffer of 6, count of 4 bits, 2 frames with races | 338 000 | `WritesInside`, `RanInOrder`, `BufferEmpties`, `DropsNoFrame` |
| `keys` | 2 keys, holds of 2 and 4 ticks, watchdog of 7, rounds late by 1 tick in a hold, 2 offline reports | 366 000 | `WifiResetIsShort`, `WipeNeedsLongHold`, `OneTogglePerPress`, `LongHoldWipes`, `WatchdogWaits`, `OfflineRestarts` |
| `app_flow` | 2 commands, 2 ports of one device, 2 blocks, 2 tries, 4 sequence numbers, 1 local change, 2 losses | 1 145 000 | `ZaTypeOK`, `Agreement`, `FailuresHaveCauses`, `ComesToRest` |
| `net_start` | gateway and switch, 2 lost networks, 3 queued events, 2 sockets, 2 failed calls | 161 000 | `OneUdpSocket`, `SearchUndisturbed`, `SmartconfigStops`, `StationJoins`, `ListensInTheEnd` |
| `wifi_signal` | gateway and switch, 2 lost networks, 3 queued events | violation | `ConnectedIsSignalled` does not hold |
| `udp_send_result` | 3 sockets, 2 lengths, 4 failed calls | violation | `SendTellsTruth` does not hold |

The two violations are findings:

* **The gateway never signals that it is connected.** `main.c:53` initialises the
  event loop with no callback; `initialise_wifi` does so again with `event_handler`
  (`wifi_station.c:64`). The SDK in `src/esp32_package` refuses a second
  initialisation with `ESP_FAIL`, and nobody looks at the result. `event_handler`
  never runs, `CONNECTED_BIT`, "to signal when we are connected & ready to make a
  request" (`wifi_station.c:27`), is never set, and a station that lost its access
  point is not connected again. The switches initialise the loop once; `StationJoins`
  is therefore stated of them.
* **`udp_socket_send` reports failure for what it sent.** It returns 0 only if
  `sendto` returned 0 (`udp_socket.c:135`); `udp_socket.h:27` says that 0 is success.

### 3.1 Why the bounds are enough

* Three blocks give a list with a head, a middle and a tail around a gap, and let one
  command be given up while others to both addresses wait. Two queued messages let
  one be handled after the state has changed. `IO_SEND_TRY` has
  its value from the code.
* Two devices and two addresses give the exchange of addresses and the late
  answer for an address that has a new owner. Two queued messages of `zdo_task` let
  the list be filled again while a message waits, which then finds the new list: the
  timer must not be stopped by it, and the new device is asked twice in a row. Two
  ports with two endpoints in all make the table full. The calm run has a port
  number for each try of each endpoint, and three messages, one more than ever wait.
* In `gateway` two blocks hold a question behind a command or in front of it, and a
  third request finds no memory. One sequence number makes every frame match every
  block of its address, so that questions are taken off the list by frames they
  have nothing to do with; the theorem is for all numbers. Two messages of the
  interview wait at a time, as above. The device may come back
  after it left, its old port being deleted, and be announced again after a restart.
* A `RxBuffer` of 8 bytes overflows by the second frame, a `zb_rx` of 11 holds
  two; chunks of up to 3 bytes cut a frame of 5 or 6 anywhere. Four-bit bytes keep
  lengths that wrap, start bytes in data and wrong checksums.
* Two harms are not among the runs, because with two the promise is false: two of
  three copies may go, or an old number may come back.
* The factory buffer holds two short frames and runs full with the third; the
  count wraps at 16, and more than twice the buffer is not reached without the
  wrap. Two frames with races let a poll stand between a load and a store while the
  thread takes the second one in.
* Two keys are enough for one to join and leave while the other is held. The
  holds of 2, 4 and 2 + 3 ticks keep the order of the code's 4, 8 and 4 + 5 seconds,
  with a margin of one tick for one second, and rounds of the timers that are late
  by that tick: the run reaches a WiFi reset in a hold longer than the full one's.
  Two offline reports let the second put the watchdog off. The watchdog
  with the restart behind it takes longer than the longest hold, as five minutes do.
* Two commands to two blocks and two ports: the write of a level of zero puts two
  commands on the list, so a second one finds no memory, and one command overtakes
  the report of another or of a change at the device. With two frames lost both tries
  of a command may be; with four sequence numbers, each command taking two, the
  number of a command comes round with the second one behind it, and that of the
  device's reports is among them. `MaxAir` lets the cloud and the user act while one
  frame is on its way; the list goes on sending behind it, so that an answer meets
  the retry, the give-up, and the next command.
* Two failures are a socket that cannot be made and, after the restart, a bind
  that is refused or a `recvfrom` that fails; two sockets are one more than may be
  open, so that one can leak.

`CHECK_DEADLOCK FALSE` is said where a system may really stop: the cloud and the
fixture have sent all they may (`app_flow`, `factory_link`), and a station that has
joined, or given up, waits for events that need not come (`net_start`,
`wifi_signal`).

### 3.2 Boundaries of what is claimed

* `OnePortPerTry`, `InterviewComplete` and `DeviceGetsPorts` are checked in a
  *calm* network: each question to a device that is there is answered once, its
  answer is handled before the timer of 5 s asks again, a device does not announce
  itself while it is listed (`Reannounce = FALSE`) or leave while it is asked, no
  address passes to another device while the first is listed, and memory is there.
  Answers then find no `zdo_task` message in front of them: those that waited when
  the question was sent are handled first, the queue being in order, and the timer
  queues none in between. Announcements are not held back. One that comes when the
  list is empty and a message of the task still waits adds a second message, the
  device is asked twice in a row, and each of its endpoints gets two ports though
  every question was answered once and in time (`zb_create_port` does not look for
  one). The claim is therefore one port at most for each time a device was asked,
  and one at least when it leaves the list. In other networks an answer that is late
  makes a second port as well, and the interview may end with a port missing. The
  repository has no sentence that says otherwise, so this is recorded here and among
  the hazards, not as a finding.
* `OldPortsGo` says of a device that leaves that the ports under the short address it
  has go. A port made by a late descriptor under an address it had before stays,
  since `zb_delete_device` looks for the address; the next announcement removes it.
* In `gateway` a device does not announce itself again while it is listed, except
  after a restart; `interview` has that case.
* `AllHandled` speaks of bursts that were not `disturbed`. A burst longer than
  `RX_TIMEOUT` turns would be lost in part, since `read_package` cuts one frame per
  call and counts the timeout down each time. Its last frame has data: one without
  any is not cut out while it is the last in the buffer (`zb_uart.c:228`, `>`).
  `FramesInOrder` has neither restriction. Both speak of frames whose length fits in
  its byte; a longer one cannot be told from a shorter (`ShortFrames` in 4.3).
* `ImplementsRegister` promises less when `nvs_open` may fail: the caller is told
  `osSucceed` though a copy was left out (`pluto_nvs.c:56`), so a write may be over
  without effect and an older number be read again. Failures while a number is read
  (`osMalloc` at `pluto_file_system.c:409`, `nvs_open` at `pluto_nvs.c:111`), by which a
  sound copy may be passed over, are not modelled.
* `WritesInside` holds until the factory buffer has run full. The reset at
  `hal_factory.c:78` then takes the count away from under a poll that subtracts
  from it, and the 16-bit count may wrap. `RanInOrder` and `DropsNoFrame` need
  the two threads not to overlap, which the commented-out lock would ensure.
* `factory_settings.c:47` and `:49` test for a system request with masks that
  other frame types and layers pass as well; `Passes` models the masks, and of the five
  frames one is of the layer 3 and passes, one of the layer 2 and does not. What the
  fixture sends is not in the repository.
* `Agreement` needs a device that reports its changes, or a cloud that does not
  overlap its commands to a port: a read answered before a write of the same port
  leaves the older value, and the success of a write is reported with the value
  stored at that time (`zb_app.c:420`). A read of a level with a zero in its payload
  switches the lamp off (`:178`) and leaves the stored value; only a report corrects
  it. A command sent again because its answer was late may undo a later one at the
  device; again the report, or the cloud's waiting, sees to it. A report that is lost
  leaves nobody to tell: the port counts as failed until a frame shows the stored
  value to be the device's.
* The radio of `ZbApp` keeps the order of the frames in each direction and does not
  deliver one twice; the devices of a port answer every frame they get. Their reports
  may come in front of the answer or behind it.
* A frame that carries the number of a command it does not answer takes it off the
  list (`zb_zcl.c:52`): a report under a number of the device's, or a late answer when the
  number has come round, after 128 frames in the code. `FailuresHaveCauses` lists this
  as a cause; and it accepts that a command is given up while an answer is on its way,
  as `io_task` does not wait. What it excludes is a command given up in spite of an
  answer that has come back, or taken off without a frame or a try to account for it.
* `LongHoldWipes` needs the watchdog and the restart behind it to take longer than
  the longest hold with its late rounds, or the chip would restart under the key
  each time, and in the run rounds are late by one tick in a hold.
* `WifiResetIsShort`: the WiFi reset fires 4 + 5 seconds after the key went down, the
  full reset that replaces it is armed at 8, so the scan that arms it has a margin
  of less than one second. `zb_uart_read` alone may block for 60 turns of 10 ms, so a
  thread that is late by a second in a hold is possible, and the WiFi settings are then
  reset in a hold for the full reset. The property allows exactly that and says so:
  `held <= HoldAll`, or rounds late by `Margin` at least in this hold. It needs
  `EarlierAssumption`, that the margin is no longer than the hold of the full reset
  exceeds the delay (1 s and 3 s), or a reset armed by one hold could fire late in
  the next.
* `WatchdogWaits` speaks of the moment the watchdog's message is queued. A message
  that is queued when the cloud answers is handled all the same and the chip
  restarts, in the model as in the code.
* `ListensInTheEnd` leaves out a refused `bind`: the socket stays, without its port
  (`udp_socket.c:76`), and nothing tries again. That the address is still there when
  the client starts is not claimed either.
* `SearchUndisturbed` holds in the gateway because `CONNECTED_BIT` is never set: it
  shows that the restart of the search in `wifi_station.c:142-163` is never reached.

### 3.3 Fairness

Weak fairness of the timer and of the message loop: the operating layer's
thread runs them in a circle without end (`IoFairSpec`, `ZdoFairSpec`, `AtFairSpec`,
`ZaFairSpec`). Nothing is assumed of the coordinator, the devices, the people at
the keys or the callers; `ZaFairSpec` adds that a frame on the radio is answered
or lost. On the serial link `uart_thread` and the loop of `read_package` are weakly
fair, and reaching the end of `read_package` is strongly fair: its loop does not
sleep, while `uart_thread` sleeps 20 ms after every chunk, so the loop finds
`RxBuffer` empty though it is not empty for ever. `FlFairSpec` has the same weak
fairness for the two threads of the factory link. `GwFairSpec` is weakly fair to a
handler that has begun, and strongly to the timer and the messages of the interview:
handlers of other messages run in between, but the thread takes the messages of its
queue in their order, so none is passed for ever; of the messages of the send list,
the devices and the application nothing is assumed. `NetFairSpec` has the event loop,
the task, `pluto_task` and `udp_create_socket`, an attempt to join that ends one
way or the other, a client that, once started, opens its socket, and a reset that
was asked for. Only `CalmSpec` assumes that answers come, and says so.

### 3.4 Mutants

Each property of each passing run has a mutant in `PROJECT.json`: an operator
beside the definition it replaces, marked `Mutant:` in its comment, with a mistake
a programmer could have made (a flag not reset, a count not taken down, a size not
looked at). With the mutant in place the run must find the property violated.

## 4. What is proved

The proofs are in the modules `...Proofs`, eight of them. They hold for every value
of the constants under the named assumptions of the modules; where a theorem needs
more, its hypothesis is an `ASSUME` of the theorem and is named below. Each
inductive invariant was first checked by TLC in the run of its module.

### 4.1 Send list (`ZbIoBufferProofs`)

Assumptions: `IO_SEND_TRY` and `MaxIoMsgs` are positive. `NoLostWakeup` and
`BudgetKept` are not inductive alone, for which block is the head depends on the
order. `IoInv` adds that `ahead` is a strict total order (`ListOrder`) and that only
the head has been on the wire (`OnlyHeadSent`). `SendListInvariant` proves it, one
lemma per action. From it follow `TypeCorrect`, `WakeupNeverLost`,
`BudgetAlwaysKept`, `StopAndWaitHolds`, `UnsentDroppedHolds` (by `BudgetKept` a head
given up has made all its transmissions), `OrderAlwaysKept` (`Unlink` only takes
away), and `Refinement`: each step of the list is a step or a stutter of
`StopAndWait`.

### 4.2 Interview and port table (`ZbZdoProofs`)

* `InterviewServed`: while a device is listed the timer runs. It is inductive as it
  stands; the step that matters is that only an empty list stops the timer,
  whatever message came from before.
* `InterviewTypes`, `OldPortsLeave`, `NoPortAfterInterview`, in any network. They rest
  on `DeleteMatchingRemoves`: the loop of `zb_delete_device`, with the ports renumbered
  under its index, takes away exactly the ports that match, for tables of every
  size. The loop is a recursive function; what it computes follows from the least
  number at which a claim about it would fail (`LeastOf`, from the well-foundedness
  of `<`). That there is an end to the loop needs `ZdoInv`: the types, and that there
  are finitely many ports at any time though port numbers may be infinitely many.
* `PortsForTries` (`OnePortPerTry`) and `InterviewIsComplete`
  (`InterviewComplete`), under `CalmNetwork`: questions are answered once and in time
  (`Calm`), nobody announces itself again while it is listed (`Reannounce = FALSE`), a
  question can be asked (`MaxAsked > 0`), and more than once (`DEVICE_TRY > 1`). The second
  also needs `EnoughPorts`: a port number for each try of each endpoint of each
  device. The run `interview_calm` satisfies both. Announcements come at any moment, also
  while `zdo_task` messages wait. `OnePortPerTry` is not inductive. `CalmInv` adds how many
  messages wait (`MessagesInv`: never more than two, a second one only for a head that
  is not asked yet, and all questions under way are to the head), that no two devices
  share an address and ports have the address of their device (`NamesInv`), that
  those behind the head have not been asked (`WaitInv`), that each try used on the head
  stands for at most one port of each endpoint, made or still to come (`TriesInv`), and
  that a head which was asked has a port for each endpoint or is still owed one
  (`OwedInv`). `BoundInv` is the bound on what is left when an interview is over.

### 4.3 Serial link (`ZbUartProofs`)

* `BuffersBounded`: no array is written past its end, for any sizes with a chunk
  smaller than `RxBuffer` and no larger than `zb_rx.data`, any timeout and any frames.
  `AlignedIsPart` and `CheckedLength` bound what framing leaves of a buffer and how much
  of it a frame may take.
* `FramesHandedOver` (`FramesInOrder`), under `ShortFrames`: the length of a frame fits in
  its byte, at most 250 bytes of data with the real width. The invariant
  `StreamInv` says that on a line that lost nothing the bytes of `zb_rx`, `RxBuffer` and
  the driver, in this order, are the packages of exactly those frames of `sent` that are
  not in `got`. Chunks move bytes inside this pipe (`Joined`, `Halves`); `FirstCut` is the
  heart: when the pipe begins with a frame, `find_head` stops at its first byte, and
  `check_package` accepts it as soon as it is complete, whatever start bytes are in its
  data, so that what is cut out is the next frame of `sent` and what is left begins
  with the one behind. The checksum is a recursive function the proof never
  expands: it is the same sum over the same bytes on both sides.
* `BurstHandedOver` (`AllHandled`), under `ShortFrames` and `MaxBurst <= RX_TIMEOUT`.
  `StreamInv` keeps besides that frame `i` of those in the pipe is complete in `zb_rx` only
  while at least `i` turns are left (`Timely`), unless it is one without data at the
  very end; `EndInv` that an undisturbed line loses nothing but such a frame. Without
  the hypothesis the claim is false: a longer burst is cut short (3.2).

### 4.4 Serial number (`BoardProofs`)

`SerialNumberInvariant` (`SnInv`: the copies already written hold the new number;
without harm the rest hold one old number) for any number of harms;
`SerialNumberKept`, the refinement of the register, with at most one harm
(`MaxHarm <= 1`), whether `nvs_open` may fail or not. By the refinement no number is
lost: no step of `SnRegister` takes it away.

### 4.5 Factory link (`FactoryLinkProofs`)

* `FlWritesInside`: until the buffer has run full nothing is written behind it, in any
  interleaving of the loads and stores of both threads, for any buffer of less than
  half the range of the count and any frames. It is not inductive: `FlInv` adds what
  the threads hold in their registers (`RegistersOK`, theorem `FlRegisters`). What
  carries it is that the poll only ever stores a count no larger than the one it has
  loaded, and the thread adds a chunk only to a count that was tested against the
  same chunk: a lost update makes the count wrong, but never too large.
  `FlTypeCorrect` follows.
* `FlRunsInOrder` (`RanInOrder`): where the two threads do not overlap, commands are
  carried out in the order sent and none twice, for any frames, chunks and noise,
  and whatever is dropped. `OrderInv` speaks of the cells of the buffer, the chunk
  and the line as one sequence (`Pipe`), counted from where the poll will move them:
  the first cells of frames in it rise (`FirstsInOrder`), all lie behind what was
  carried out (`RanBefore`), the frame in `FactoryBuffer` lies between (`Taken`), and each
  thread finds the count it has loaded (`InTurn`). Every step puts cells behind the
  pipe or takes some away in front.
* `FlDropsNoFrame` (`DropsNoFrame`): where the threads do not overlap and no more than
  `Window` frames or stray bytes come at a time, no frame that is there in full is
  thrown away, by the timeout or for want of room. The proof speaks of what is on its
  way at rest (`Rest`): the frames in it stay entire (`Entire`) and rise in number,
  and they are few enough (`Few`) that the thread never finds the buffer full, so
  nothing is reset or skipped. `Soon` then says of each frame that the frames before
  it are fewer than the polls left before the timeout: each poll takes the first frame
  out, with the noise in front of it, and a chunk sets the timeout anew, so the last
  frame has left before the timeout is over. `WaitInv` joins these; it was
  model-checked on the run's constants before it was proved. Two hypotheses are about
  the stream alone: `Adds(sent)` (`sent[n]` is the number of bytes of the first n
  frames) and `Fits(sent)` (a window is no longer than the timeout, and what a window
  can leave on its way fits in the buffer). The constants of the run satisfy both, and
  so does every choice where the window times the longest frame is less than the
  buffer.

### 4.6 Keys, resets, watchdog (`BoardProofs`)

`KeyInvariant` says where in a round the scan stands (`Queue`), what the key state
says of the scan before (`Edges`), and how the counts of the scans lie behind time
(`Counts`). From it: `AppTypeCorrect`, `ScansKeepUp` (the hold time counted is at most
the real one and behind by the late rounds only), `LampSwitchedOnce` and
`WipeOnlyAfterLongHold`, for any keys, any times in the order of `AppAssumption` and
rounds of any lateness. `WifiResetAfterShortHold` needs `WifiInv` besides: a WiFi
reset that is armed belongs to the hold under way, whose counted time, late rounds and
remaining delay add up to more than `HoldWifi + WifiDelay`, or to an earlier one, and
then the key now down is younger than what is left of the delay. So a WiFi reset in a
hold for the full one means rounds late by `Margin` at least. That uses
`EarlierAssumption`: the margin is no longer than what the hold of the full reset
exceeds the delay of the WiFi reset by (1 s, and 8 s less 5 s, in the code).
`WatchdogNeverEarly` rests on `WatchInv`: the time since the gateway was online and
what is left of the watchdog add up to its whole time at least.

### 4.7 Start, WiFi, UDP (`NetStartProofs`)

* `UdpNeverLeaks`: at most one socket is open for any number of descriptors and
  failures. `UdpInv` adds who is where (`Turns`): only the client makes a socket, since
  the thread comes to `udp_create_socket` with one and nothing takes it away, the
  body of `udp_socket_deinit` being commented out.
* `SearchNeverRestarted`: `SearchUndisturbed` for every bound. `SearchInv` says why: in the
  gateway nobody sets `CONNECTED_BIT`, so the task stays in its first wait until the
  phone has been told, and then no search is under way. `WifiTypeCorrect` is the type
  invariant, by which a station has an address only while it is joined.
* The composition: `NetImplementsUdp`, every step of `NetStart` is a step of `UdpSocket`, a
  restart of the chip, or leaves the socket alone; hence `NetNeverLeaks`.
  `NetTypeCorrect` and `NetSearchNeverRestarted` carry the station's theorems over; the
  restart is the one step that is not the station's own and has a lemma.

### 4.8 Application flow (`ZbAppProofs`)

* `ZaTypeCorrect`, and `ZaImplementsList`: `ZbApp` with the radio and the handlers
  implements `IoSpec`, so that every theorem of the send list holds of it;
  `ZaStopAndWait` follows with the refinement of 4.1.
* `AllAgreeAtRest` (`Agreement`) for any number of ports, commands, tries, losses and
  local changes, answers and reports that come early, late or never, and sequence
  numbers that come back. The property is about states at rest
  only. `AgreeInv` says what holds on the way there, of each port without a failed
  command: the cloud knows the stored value or an answer will tell it (`ToldInv`); each
  frame on its way back shows the device as it is, or a report of the port follows it
  (`ShownInv`); what is stored is what the device does, or a report will correct it, or
  a write of it waits (`ValueInv`); and of a port that does not report, only reads or
  only writes of the stored value are under way (`CareInv`, with `OnlyReads` and
  `OnlyWrites`). A transmission that is still under way after its command has left the
  list counts as one that may act (`Carried`), so a retry that arrives late is covered.
* `WithoutEffectForCause` (`FailuresHaveCauses`), with no hypothesis: numbers may come
  back while a frame with the old one is on its way. `WireInv` says that the identities
  of commands are used once (`IdInv`), that a frame with the identity of a command
  carries or answers it (`MatchInv`), and that each transmission counted for a command
  on the list was lost, or is on its way, or its answer is (`TriesInv`). `CauseStep`
  then finds the cause of a failure in the step where it happens: of a give-up, that
  no try has been answered (`GiveUpCause`); of a command taken by a frame that does
  not answer it, the number.

### 4.9 Send list and interview together (`GatewayProofs`)

* `GwInvariant`: `GwInv` joins the invariants of the parts, `IoInv` of the send list and
  `ZdoInv` of the interview seen through the mapping, with `WireTypes`, which says what
  `todo`, `what` and `air` may hold and that a question on the list has no acknowledgement
  to wait for. The parts keep theirs because each step of the gateway is, for the
  list, a step of the list, a restart or nothing (`ListSteps`), and for the interview a
  step of `ZbZdo` or nothing (`StepImplements`): the lemmas of 4.1 and 4.2 are then cited,
  not repeated.
* `GwImplementsZdo` (`ImplementsZdo`), for any devices, endpoints, blocks, tries and
  sequence numbers. Most steps take questions away without an answer: a frame
  with a foreign number, a command given up with all that waits for its address, an
  allocation that fails, a restart, the radio. `FewerUnderWay` treats them alike: fewer
  questions under way and nothing else changed is `Lose` of those that are gone, or a
  stutter. `io_task` sends a question without losing it (`TransmitImplements`), by
  `BudgetKept`: without an acknowledgement there is one try, so a question leaves the
  unsent ones at the moment it comes into `air`, never to return. The answers
  (`ActiveEpImplements`, `DescImplements`) and the turn of `zdo_task` (`AskHeadImplements`)
  put in `todo` what `ZbZdo` puts in its bag.
* `GwKeepsTheList`, `GwStopAndWait`: among questions, commands and restarts the list
  keeps `NoLostWakeup`, `BudgetKept` and one block on the wire, and is a stop-and-wait
  link; a restart drops all that waits (`RestartDrops`).
* `GwServesDevices`, `GwPortsOfTheList`: the claims of 4.2 about any network hold of the
  composition.

`GatewayAssumption` is what `ZbZdo` and `ZbMap` assume of the same constants.

### 4.10 What is only model-checked

* Liveness (`EveryCommandLeaves`, `GwInterviewEnds`, `DeviceGetsPorts`, `LineSettles`,
  `ReadReturns`, `BufferEmpties`, `LongHoldWipes`, `OfflineRestarts`, `ComesToRest`,
  `SmartconfigStops`, `StationJoins`, `ListensInTheEnd`): the prover treats neither
  fairness nor ENABLED.
* That `osGetXOR` detects a wrong byte: nothing that is proved rests on it.

## 5. What is not modelled

* `tcp_socket.c`: the receive thread and the client both close and open the
  socket, but no comment states what the functions promise and the client is in
  `libplutolib.a`; a model would invent its caller.
* Text files: each call is one or two calls of SPIFFS, whose behaviour when the
  power fails the repository does not state.
* `zb_req_read_associate` and `associate_process` (`zb_zdo.c:59-96`), the walk over the
  neighbour tables. They keep no state but the link quality stored for each address.
  Nothing but `associate_process` itself calls `zb_req_read_associate`, so a walk only starts
  with a `MT_ZDO_MGMT_LQI_RSP` nobody asked for; each response then asks all neighbours
  it lists, without a mark of those already asked. Its questions are on the send list
  like those of the interview, without an acknowledgement.
* `zb_permite_join` and `zb_system.c`: requests without state; `zb_reset`,
  `zb_set_network`, `zb_req_remove_device` and `remove_new_device` have no callers.
* The value `zb_uart_read` returns when its last turn took another frame
  (`zb_uart.c:116`): its live callers do not act on it.
* The erase of a full NVS partition (`pluto_nvs.c:27`).
* Attribute lists of ports and the id maps with their files (`zb_map.c:310-494`):
  tables that are built once.
* Colours and closures: floating point, and commands without state. In `ZbApp` a
  window that is asked for its percentage is also moved (`zb_app.c:232`) as a level
  read is switched; only switches and levels are modelled.
* The answers of the factory commands, which are formatting.
* The LED with its blink timer (`blink_led` keeps one pointer for all LEDs) and
  PWM: they show states and decide nothing.
* The scene test, the demos, the compiler and the SDK.

## 6. Plan

Done: all parts with state of their own but TCP and text files, and proofs for every
safety property the runs check. What is left, in the order of worth:

1. The serial link between `Gateway` and the coordinator: `Transmit` would write a
   frame of `ZbUart` and an answer be one it reads. What the interview sees of it, loss,
   delay and repetition, is in `air` already.
2. A radio in `ZbApp` that changes the order of frames or delivers one twice.
3. TCP, when the client that calls it has a source.
