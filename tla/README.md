# A Bluetooth host stack, in TLA+

Models, model checks and proofs about the host side of a Bluetooth stack for the Raspberry Pi 4
(`src/`). `hci.c` talks to a BCM4345 controller over a UART, `gap.c` offers advertising, scanning
and connections on top of it, `gatt.c` a local attribute database and ATT client requests.
Paths below are relative to `src/`.

## 1. Inventory

One application thread calls GAP, GATT and HCI functions. One interrupt, the UART's, preempts it at
any instruction and runs the receive path to the end of its FIFO. The controller runs in parallel.
There is no lock, no atomic and no timeout: thread and interrupt share `waiting_response`,
`hci_state`, `rx_buffer` and the receive counters of `hci.c`, the static packets of `gatt.c` and the
UART's transmitter.

| Part | State | Operations | Talks to | Hard |
|---|---|---|---|---|
| Command handshake (`src/hci.c:31-51, 190-200, 227-377, 454-867`) | `waiting_response`, `hci_state` | `HCI_send_command`, `HCI_wait_response`, `HCI_reset`, the event handlers, one function per command | the UART below, GAP above | lost wakeups, stale answers, shared buffer, no timeout |
| GAP procedures (`src/gap.c`) | `connections[]`, callback, two static data buffers | one call per procedure, each a script of commands | HCI | several commands per call, refused commands, units of time, data left in a buffer |
| Byte reception (`src/hci.c:383-448`) | `rx_state`, `rx_buffer`, `rx_count`, `rx_expected` | `HCI_handle_hw_rx`, `HCI_buffer_space` | UART interrupt, event and data handlers | 8-bit counters, lengths at the limits, resynchronisation |
| Packet codec (`src/hci.c:56-135`) | none | `HCI_encode_packet`, `HCI_decode_packet` | everything that sends | sizes at the limit, 12-bit handles |
| UART driver (`src/hardware_bl.c`) | FIFOs, RTS and CTS bits | `handle_uart0_irq`, `hw_transmit_buffer` | hardware, byte reception | flow control against interrupts |
| Firmware loader (`src/hci.c:667-747`) | pointer into the image | `HCI_bcm4345_load_firmware`, `HCI_bcm4345_set_baudrate` | handshake | record boundaries, a second `HCI_init` |
| GATT database (`src/gatt.c:6-176`) | `gatt_services[]`, `service_count`, `next_handle` | init, deinit, register, remove, add, update, read | application | handle allocation and reuse, wrap of `next_handle` |
| GATT client and ATT (`src/gatt.c:178-721`) | static packets, callback | requests, notifications, indications, `GATT_process_att_packet` | HCI data path, application callback | requests from the callback in the middle of the thread's, record lengths from the peer, confirmations |
| Logging (`src/log_bl.c`), empty `src/bluetooth_stack.c` | none | formatting | | none |

What makes each part correct, and what is hard to test in it, is listed line by line under
"hazards" in `PROJECT.json`.

## 2. Plan

The order is by how much of the system rests on a part.

1. `HciCommand` with its promise `CommandChannel`: done.
2. `HciRx`: the bytes under the events that `HciCommand` takes whole: done.
3. `UartLink`, composed with `HciRx` (it extends it): done.
4. `GattDb` with its promise `GattTable`: done.
5. `GattAtt`, what is made of a received packet, and `AttSession`, which composes it with the requests
   and with peers (it extends it): done. The searches by handle a request makes are those of
   `GattDb`, here a constant table of properties.
6. `HciFirmware`: the walk over the image and a second `HCI_init`: done.
7. `GapParams`: conversions of time, advertising data: done.
8. `HciResync`: `HciRx` on a stream with lost bytes, empty payloads and ACL data over 256 bytes.
   Open: what the receiver does there depends on which of the following bytes look like a packet type,
   and no bound on it is promised anywhere.

Every safety and action property and both refinements that the runs check are theorems. What stays with
TLC is liveness (section 6).

## 3. Modules

| Module | Models | Lines of TLA+ |
|---|---|---|
| `CommandChannel` | what a command and its wait promise the caller | 29 |
| `HciCommand` | application thread, interrupt, controller and radio | 430 |
| `HciFirmware` | `HCI_init` and the firmware loader | 261 |
| `HciRx` | receiver, its stream of packets, `HCI_decode_packet` | 273 |
| `UartLink` | FIFO, RTS, CTS and the driver, around `HciRx` | 178 |
| `GapParams` | parameters of the GAP calls and what the controller makes of them | 257 |
| `GattTable` | what the database promises | 56 |
| `GattDb` | the database's arrays, counters and calls | 280 |
| `GattAtt` | a received packet, its events and the callback | 288 |
| `AttSession` | requests of thread and callback, with peers, around `GattAtt` | 289 |
| `*_proofs` | theorems of the module they extend | |
| `MC*` | values of the constants for TLC | |

Definitions marked "Slip" are plausible errors of one definition, used to show that each property
fails when the code does; no specification uses them.

### HciCommand

`pc`, `call`, `script` and `cmd` are the position of the application thread: `send` before
`HCI_send_command`, `sent` after it and before `waiting_response = true`, `wait` and `reset_wait` in
the two spin loops, `copyLow` and `copyHigh` in the statements that copy an answer out of `rx_buffer`
(`hci.c:767-771, 827`). A call is the list of commands its function sends (`Script`), since no
command's status changes what is sent next: `HCI_send_command` fails only for parameters that do not
fit, and no such call is in the model. `toCtrl` and `toHost` are the two directions of the UART, in order.
The interrupt is `ReceivePart` (a packet half stored) and `ReceivePacket` (the end of a packet, with
the whole of `HCI_handle_event`); it may run between any two steps of the thread. `rxLow`, `rxHigh` and
`rxEnd` name whose bytes `rx_buffer[7..10]`, `[11..12]` and `[13..14]` hold: the answer with an address
ends at `[12]`, and what is copied ends at `[14]`.

The controller is external. It answers commands in order, with Command Status where the Bluetooth
specification has it, and may refuse those in `MayRefuse`. Its radio reports advertisers while
scanning, takes and loses links, and stops advertising when a peer connects. `early` and `refused`
are history variables, read by properties only.

### HciFirmware

`ptr` is the static pointer `bcm4345c0_fw_ptr`, counted from the image's start. `HCI_init` sends the
reset, `HCI_reset` goes on when the state is ON, `Validate` is the check of size and op code,
`SendRecord` and `NextRecord` are one turn of the loop before and after its wait, `CutHeader` and
`BadRecord` its error returns, `Finish` its end. The image is a sequence of bytes, and lengths are read
from it where the pointer is: nothing tells the model where records begin. The handshake is that of
`HciCommand`: sending a command and `waiting_response = true` are two steps (`Send`, `BeginWait`), between which
its answer may be handled (`early`), and the reset may be refused (`refused`). `loaded` is what went out, `held` how
much of it was out when the last call began. `OtherCalls` is the state set by advertising between two calls,
which decides whether the reset of the next one is waited for.

### HciRx

`TakeByte` is one call of `HCI_handle_hw_rx`, with one action per case of its switch. The widths are
the real ones: `rx_count` and `rx_expected` are taken modulo 256 and the array has 256 places, so the
wraps at 253 payload bytes of an event and 251 of ACL data are in the model. `pkt` and `sent` say
which packet is on the wire and how much of it was taken; `handed` what the receiver handed on.
`Framable` is the assumption on packets, as weak as the code allows: a payload is not empty, and
ACL payloads have at most 256 bytes. `StrayByte` is noise between packets.

### UartLink

`UartLink` extends `HciRx`: the bytes wait in a FIFO that `SendByte` fills while RTS is set. The
interrupt handler is `BeginIrq` (RTS cleared if the FIFO is full), `ReadByte` at most `MaxReads` times
while the FIFO refills, and `EndIrq` (RTS set again if `HCI_buffer_space` is not 0, computed at 8
bits as in the code). There is no space in an empty buffer, and none where a packet of more than 256
bytes has filled it (`BufferFull`). `BeginTransmit` and `TransmitByte` are `hw_transmit_buffer`. The handler
runs on the application's processor, so no transmission step is taken while it runs. The setting of
RTS by the thread is a read-modify-write; that the interrupt comes between the read and the write has
the same effect as its coming before, because both write that bit only.

### GapParams

One action per call, its commands and their answers taken together: how they interleave is the subject of
`HciCommand`. `ToUnits` is the conversion to units of 0.625 ms, with the product in an `int` and the result
cut to 16 bits. The controller is external: it has ranges for the parameters and refuses new ones
while the old are in use. `data` and `scan_data` are the static buffers, with a place beyond each array
for what 32 bytes reach; a byte is the content it came from. `last` is what the call was given and
how it went, read by properties only.

### GattDb

One action per call, guarded by the call's checks; calls that return an error change nothing. Array
places are kept after removal and reset, as in the code, so that what an index error would expose is
there. Searches by UUID are stated by what they find; the search by handle changes nothing and has no
action, and that it has one answer at most is `HandlesDistinct`. `wrapped` and `down` are history: handles were used
up once; `GATT_deinit` was called and `GATT_init` not since. A read of a value changes nothing and is
left out.

### GattAtt

A packet is its opcode and its lengths: those of the data, of the L2CAP header, and for a service list
the record length the peer wrote. `Receive` is `GATT_handle_hci_event` or `GATT_handle_acl_data` with the
checks of `GATT_process_att_packet`; `Confirm` the confirmation, sent first; `Report` the callback of a
single event; `NextRecord`, `Return` and `EndLoop` the loop over a service list, with the index `i`
at its width. Nothing bounds the length field but its own sixteen bits, so the index may wrap (`again`) and
the loop start over, for some lists without end (`Endless`); `got` keeps what was reported until then. An event is the window of the packet it hands on, so "the right event" is the right bytes. The
callback may take the handler away, and the loop does not look again: `null` is the call of no function that
follows. `reach` is how much of the packet was looked at. Nothing in the library calls these
functions yet (`HCI_handle_async_data` is empty); the application does.

### AttSession

The thread is at `filled` when it has filled the static packet of the function it called, `encoded` when
that is copied, `half` in the middle of its bytes. Reception runs in the interrupt, so none of the thread's
steps is taken during it, but the callback may make any request (`Ask`, second disjunct): it writes the static
packet of its function and transmits at once, possibly inside the thread's packet. `Harms`
names the three moments at which this goes wrong: inside the thread's bytes; in the packet the thread has
filled with something else; ahead of the thread's request to the same peer. `disturbed` says that one
happened. `asked` is what the application believes is outstanding, `peer` what the peer knows of, `air` what is on
its way back. Peers are external: they answer in order, keep to the MTU, await the confirmation of an
indication, and what is longer than an ACL packet comes in two, of which the second looks like anything.

## 4. Runs

| Run | Question | Shows |
|---|---|---|
| `hci_hangs` | when does a call not return? | With all interrupt timings, refusals, connects and resets of a running controller, the thread hangs for one of three reasons only (`HangCause`), and a command without one returns (`CallReturnsOrExcused`) |
| `hci_handshake` | does the handshake keep its promise? | With every call but a warm reset, it refines `CommandChannel`: it never wakes before the answer and never sends while one is due; a read that reports overtake returns bytes of its own answer or of theirs, none of an earlier answer |
| `hci_careful` | what may a careful application rely on? | For one that reads the state first, does not call `GAP_deinit` and is not connectable, the toggled `hci_state` follows the radio, and no packet comes between a read's answer and its copying |
| `firmware` | what does `HCI_init` download? | Over images cut anywhere and several calls: a beginning of the image, all of it on success, nothing on a retry; records wait for what is owed before them; the call returns but for a lost wakeup or a refused reset |
| `gap_params` | do parameters mean what was asked? | What a call checks is enough for the controller but for named cases; times are in force to the unit; no byte of an earlier call is advertised |
| `hci_rx_stream` | do packets get through? | The receiver begins and ends packets where the controller does, at all edge lengths and with noise between packets; those that fit the buffer are handed on once, unchanged but for the upper bits of ACL handles; `HCI_decode_packet` reads them back and refuses incomplete buffers; every packet that begins is finished |
| `uart_flow` | does flow control hold back safely? | The controller is held back only between packets, or where a packet longer than the buffer has filled it; a packet that has begun and is not held there ends; reception goes on as long as the application transmits again and again |
| `gatt_db` | do handles keep their meaning? | No two attributes have one handle; a handle never changes owner; the arrays and their shifting implement `GattTable`, values included |
| `att_packets` | what does the callback get? | Exactly the events of each packet, whatever record length the peer gave and whatever the callback does to the handler; no byte beyond the length field; indications confirmed first, once; handling ends, but for the lists whose index never meets their length |
| `att_session` | can requests and answers be told apart? | The answers come in the order of the requests to each peer, confirmations go to peers that wait and all of them get one, unless the interrupt transmitted at one of the three moments of `Harms` |

Runs that find a disagreement, each for one property:

| Run | Disagreement |
|---|---|
| `hci_lost_wakeup` | an answer handled before `waiting_response = true` is lost and the call hangs |
| `uart_stall` | an empty buffer reported as full leaves RTS cleared between packets |

Bounds, and why they are enough:

- `HciCommand`: `MaxQueue` = 2 events or commands queued beyond those being sent, enough for a stale
  answer, a current one and a report together; larger queues only repeat them, because the thread
  has one command outstanding except after early resets. The calls of a run are those that differ for its question.
- `HciFirmware`: images of up to three records, `MAX_PACKET_SIZE` 8 (four parameter bytes fit, five do not),
  cut at every byte; `MaxInits` 3: a first call, a retry, and one after that.
- `GapParams`: `UnitMod` is the real 65536; the times are those on either side of every bound
  of the code, of the controller, and of 40960 ms, where the product leaves 16 bits; lengths 0, 26, 27
  (a name's room), 31 and 32. `Mixed` = FALSE: times and data share no state, so no run makes both.
- `HciRx`: the set of packets only; it holds the lengths at which the 8-bit counters wrap or nearly do.
- `UartLink`: a FIFO of 3 with up to 4 reads is shorter than the packets, so an interrupt ends
  inside, at the end of and beyond a packet, and may refill while it reads. `uart_flow` has packets of 4 bytes,
  of 256, which fill the buffer exactly, and of 257, which fill it before their end; `uart_stall` needs short ones only.
- `GattDb`: two services of one place and two UUIDs, so duplicates occur; the UUIDs are symmetric,
  since the code only compares them. `HandleMod` 8: seven handles, which are two services with
  a characteristic each, or a service added after a removal in place of a characteristic. The constraint `BeforeWrap` ends
  the exploration where the handles wrap, since the properties of handles say nothing from there on;
  `ImplementsTable` does, and is proved. More places and handles are left to the theorems, which hold for all sizes.
- `GattAtt`: every opcode with 0 to 6 bytes, and with length fields beyond the data; service lists of 2 to 21 bytes
  with records of 0, 1, 5, 6, 7, 8 and 11, so that none, one, two and three fit, whole and cut. `IndexMod` 32
  stands for 65536: lists of 22 to 31 bytes bring the index to its wrap, after which the loop ends (records of
  7 or 11 bytes) or does not (of 8).
- `AttSession`: two peers, the second reading only; two requests outstanding (one of the thread, one
  of the callback) and one packet in the air, or one and its fragment; a default MTU of 8 and ACL packets
  of 12 bytes, so that the MTU of 15 exceeds them. `PastHarm` = FALSE ends a session that was disturbed, of
  which nothing is claimed. Error answers take the course of any other and are in `att_packets`.

The models have more deviations of the code from its documents, which the passing runs step around by
their constants or their properties and which have no run of their own.

Handshake and state:

- `HCI_reset` in state ON returns at once (`src/hci.c:865`, against `inc/hci.h:89-90`); its answer is
  then taken for that of the next command. `hci_handshake` leaves it out;
- commands answered by Command Status (connect, disconnect, update) hang their caller
  (`src/hci.c:288-313`): the second of the three causes in `HangCause`;
- a refused command is reported as success (`src/hci.c:239`): `Refuse`, no property of results;
- stopping an idle advertiser or scanner sets the state to ADVERTISING or SCANNING
  (`src/hci.c:253-267`): `Careful` = TRUE in `hci_careful`;
- `GAP_deinit` stops both (`src/gap.c:35-36`), of which at most one can have been started from state ON,
  and so leaves the wrong state behind: `hci_careful` leaves it out;
- after a peer has connected the state stays ADVERTISING (`src/hci.c:325`): `Connectable` = FALSE there;
- a report that arrives while an answer is copied tears it (`src/hci.c:767, 827`): `ReadIsOwnOrRadio` says what
  may come instead, `ReadIsOwn` that the careful application is safe from it, since its radio is silent then;
- the address is copied with the size of a pointer, eight bytes for six (`src/hci.c:827`): the last two are left
  by an earlier packet (`rxEnd`), and `ReadIsOwn` claims the six only;
- in `HCI_init` too an answer handled before its wait begins is lost (`src/hci.c:32`), and a refused reset
  leaves `HCI_reset` spinning (`src/hci.c:865`): the exceptions of `InitReturns`;
- a retry of `HCI_init` after a failure can load nothing, since the pointer stays (`src/hci.c:23, 684`): `RetryLoadsNothing`.

Packets:

- the receiver drops the upper four bits of a connection handle (`src/hci.c:427`): `Kept`;
- a packet longer than the buffer wraps the count to 0 where it has filled it, which leaves no space; the
  controller may then be held back in the middle of it (`src/hci.c:446-448`, `src/hardware_bl.c:36`): `BufferFull`.

GAP:

- `GAP_start_advertising` and `GAP_connect` do not check their intervals, and a scan window below 3 ms is
  accepted (`src/gap.c:102, 193, 263`); 32 bytes of advertising data are (`src/gap.c:132`): the exceptions of `ChecksSuffice`;
- intervals from 40960 ms on wrap (`src/hci.c:462`): the bound in `TimesInForce`;
- nothing sets `connected`, so `GAP_disconnect` and `GAP_update_connection_parameters` refuse every handle (`src/gap.c:287`).

GATT:

- `GATT_deinit` clears the services and keeps `service_count` and `next_handle` (`src/gatt.c:51`, against
  `inc/gatt.h:209`): `Reinits` and `down`;
- discovery starts at handle 0x0100 (`src/gatt.c:238`);
- the handle of a CCCD is taken to be the value's plus one, which is the next attribute's (`src/gatt.c:291`), and a read ignores the
  room it was given (`src/gatt.c:172`, `inc/gatt.h:262`);
- an indication is not awaited (`src/gatt.c:231`, against `inc/gatt.h:280-281`);
- a request's packet takes 3 + length bytes and has 128 (`src/gatt.c:400, 439`);
- the callback is not looked at again between the records of a list (`src/gatt.c:607, 624`): the state `null`;
- requests lack the L2CAP header received packets must have (`src/gatt.c:375`; `README.md:10` has that layer to be done);
- the length in that header is not compared with the data (`src/gatt.c:522-526`): `ReadsInside` is bounded by the
  header's length, not by what there is. The MTU has no upper limit, so an answer that does not fit an ACL packet is
  read beyond its first fragment, and its second taken for a packet (`src/gatt.c:457`): `SmallMtu` in
  `NoStrayConfirmation`, which such a fragment could break;
- the index of a service list has 16 bits and so has the list's length: near 65535 the index wraps, records
  are reported again, and the loop may have no end, in the interrupt (`src/gatt.c:617`): `Wraps` and `Endless`.

Deadlock is not checked in the runs of `HciCommand`, because there the system may really stop: a hung
thread with nothing in flight is what they are about. Nor is it in `firmware` (the application has made
its calls), `att_packets` (after a call of no function) and `att_session` (after a disturbed request,
where the bound ends it). The other runs check it.

## 5. Fairness

`HciCommand`: weak fairness of the thread (`Main`), the interrupt (`Irq`) and the controller's answers.
The processor runs, a pending interrupt is served since nothing disables it, and a controller answers
its commands. The application need not make calls and the radio need not report. The spin loops read
`waiting_response` and `hci_state`, which are not volatile; the Makefile compiles without optimisation,
so each turn reads memory. A build that optimises would make every wait a hang, and the liveness
results would not hold for it. `IrqInGap` = TRUE in all runs: an answer may be handled in the few
instructions between the end of the transmission and the assignment.

`HciFirmware`: the thread goes on (`Load`, beginning its wait included) and the controller answers.

`HciRx`: bytes of a packet that has begun keep coming (`FairSpec`). `UartLink`: the controller
sends while RTS allows, the interrupt is taken and its handler runs on, a transmission that was begun
goes on. Nothing obliges the application to begin one; `ReceptionGoesOn` says what follows if it
keeps sending commands.

`GattAtt`: the handling of a packet goes on, so the processor runs and the callback returns.
`AttSession`: the interrupt takes what has arrived and its handling goes on; neither the thread nor the
peers are obliged to anything.

`GattDb` and `GapParams` are driven by their caller and have no liveness.

## 6. Proofs

All theorems are checked by TLAPS for every value of the constants, under the named assumptions
of the modules.

`HciCommand_proofs`. `TypeCorrect` and `HangsAreExcused` hold for the whole model; the inductive
invariant of the latter relates the position of the thread, its flag and what is in flight: while it
waits with the flag set and no excuse, an answer to its command is due, or only answers to earlier
resets are. `WakesAreAnswered`, `CommandsDoNotOverlap` and `HandshakeIsChannel` assume that
`HCI_reset` is not among the application's calls (without it they are false, since a reset in state ON
returns before its answer); their invariant says that exactly one answer is due while a command is
outstanding and none otherwise.

`StateFollowsRadio` needs `TrackInv`. `StateTracksRadio` is not inductive, as it says nothing while an answer is
on its way: the radio is then ahead of the state by what handling that answer will do (`RadioTracked`). That it
will do the right thing needs that the command was sent in a state it fits, and so that the commands still to
send fit the state too, and that one which toggles it is the last of its call (`ScriptFits`; `GAP_deinit`'s
script breaks it). `Quiet` orders the radio's reports: once scanning has stopped they are all ahead of the answer that
says so. With `Booting` and `StatusHangs`, which describe `HCI_init` and a call hung on Command Status, these
are inductive for an application that is `Careful`, not connectable, and calls neither `HCI_reset` nor
`GAP_deinit`. The theorems on reads share `ReadInv(others)`: half a packet in the buffer is half of the one that comes next,
and from the handling of a read's answer until it is copied the buffer holds bytes of that answer or of `others`.
For `ReadsAreOwnOrRadio` these are the radio's reports, and nothing is assumed but that `HCI_reset` is not called: no
other answer can follow while the thread is copying. For `ReadsAreOwn` there are none, because a careful
application reads in a silent state, so that nothing can follow the answer (`NothingFollows`).
`ReadsOfSilentRadio` reaches the same without `Careful`, for an application whose radio never has anything to
report (`SilentRadio`).

`HciFirmware_proofs`, for every image and number of calls. The invariant has three parts beside the types.
`Cursor`: what was sent is the image up to the pointer, plus the record in hand. `Retry`: once a call has
returned, either the pointer has left the start or the first record cannot be sent, so that `Validate` fails
ever after. `FirstCall`: in the first call nothing is owed but the answer that is waited for, which is what makes
records wait (`RecordsWait`) though a second call does not wait for its reset. `TypeCorrect` includes that the
pointer stays inside the image.

`HciRx_proofs`. `FramingKept` alone is not inductive: it says nothing of where inside a packet the
receiver is. The invariant adds `Position` (state, count and target are those that belong to the number
of bytes taken, modulo 256) and `Contents` (as long as nothing wrapped, the buffer holds the bytes of the
packet up to there). The arithmetic lemmas say that two counts less than 256 apart differ
modulo 256, which is why the comparison of wrapped values cannot meet before the last byte; that
needs payloads of at most 256 bytes. `ReceiverFollows` is the invariant; `TypeCorrect`,
`PacketsAreFramed`, `PacketsArriveIntact` and `DecoderAgrees` are what follows from it: the last two
from lemmas that read the fields and the payload of a packet out of a buffer that holds its bytes.

`UartLink_proofs`. `LinkIsReceiver`: a step of the link is a step of the receiver or leaves its
variables alone, so the theorems above hold for the link. `NeverHeldInsidePacket` uses it: at the end
of the handler RTS stays cleared only if the count is 0, and by `Position` that is between packets or where
256 bytes of a longer packet have been taken, of which none is the last. `UartTypeCorrect` is the link's type invariant.

`GapParams_proofs`. Types and properties together are inductive as they stand. What carries them are the
lemmas of conversion: `ToUnits` is right to the unit as long as the product stays below 10 * 2^16, and
the bounds in milliseconds that the code checks are inside the bounds in units that the controller has.

`GattDb_proofs`. `TypeCorrect`, one lemma per call. `HandlesStayDistinct`: `HandlesDistinct` is not
inductive, as a new attribute could meet an old handle; the invariant `Spread` adds that every handle in use is
below `next_handle`, so what is taken is new until it wraps. A removal is a renumbering of the array
(`Moved`), and the lemmas on it say that renumbering keeps handles apart.
`HandlesStayOwned` describes the owners of a handle before and after each kind of call: a removal
takes away the owners inside the removed service and renames no other, an addition gives only handles not below
`next_handle`, which had no owner. `DatabaseIsTable` assumes `Reinits`. The table is the rows in use, each a list of
its characteristics in use; a step of the arrays is shown to be the step of the lists that its call is: a
removal, which moves every later place down, is `RemoveAt`, an addition in the first free place is `Append`, an
update changes the one place that the search finds. `TypeCorrect` is all the invariant this needs, so it holds
beyond the wrap as well.

`GattAtt_proofs`. `IInv` adds to types and properties what the packet in hand is like where its handling
is (`InHand`): the loop is entered for lists with records of at least six bytes only, so that the index grows and an event
of a record that ends inside the packet does too. `EventsMatch` rests on `Progress`: in the first pass
(`FirstPass`) the events so far are the first records of the list, and the index is a multiple of the record's
length beyond 2. Where it wraps, the multiple before was below the list's length, so every whole record had been reported
(`AgainKept`). `ReadsStayInside` needs no pass: wherever the index is, what is reported ends inside the length.

`AttSession_proofs`. `SessionIsReception`: a step of a session is a step of `GattAtt` or leaves its variables
alone, so the theorems above hold for every packet a session delivers, whatever is requested in
between. `ConfirmationsAreAwaited` needs `AwaitedOnce`, that an indication on its way or in hand is one
its peer waits for, and the only one of that peer.
`AnswersAreMatched` rests on `OrderInv`: until a request is disturbed, what the application asked of a peer
is the answers to it in the air, in order and fragments aside (`Enumerates`), then what the peer has not answered, then the
request whose bytes the thread is sending, which are still those it was asked to send (`InOrder`). Each step moves a
request from one of the three to the next: only `Ask` adds at the end, only `Take` removes at the front.

The type invariants of `GapParams`, `UartLink` and `AttSession` are proved and not run.

Only model-checked: all liveness (`CallReturnsOrExcused`, `InitReturns`, `EveryPacketArrives`,
`StartedPacketEnds`, `ReceptionGoesOn`, `PacketIsHandled`, `IndicationConfirmed`), which is out of the
prover's reach: it rests on fairness, and so on ENABLED.

## 7. Not modelled

- Logging, the empty `bluetooth_stack.c`, the getters and stub setters of `gap.c:333-348`,
  `hw_transmit_byte`, `hw_receive_byte`, `hw_get_time_ms` and `HCI_bcm4345_set_baudrate`'s wait for the UART,
  which nothing in the library calls.
- The external drivers (`uart.h`, `irq.h`, `timer.h`, `mem_utils.h`), known only from their use.
- FIFO overrun and lost bytes; packets the receiver cannot frame (empty payloads, ACL data over 256
  bytes). What is known of them is listed under hazards.
- Command Complete events of fewer than four parameter bytes, which no controller sends for the commands here.
- The values that GATT requests carry and their lengths, and so the overrun of a request's packet.
- The L2CAP layer, which the stack does not have yet: peers get a request as that layer would pass it on.
- The effect of an error status on the application: it cannot see one, since the calls report success.
- The constant parameters of LE commands (addresses, channel map, filter policies) and the numbers of
  `HCI_BLE_connection_update`, which no call can reach.
