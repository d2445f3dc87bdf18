# Verification of the Samisara firmware

Samisara turns the keyboard of an Amiga 1200 into a USB keyboard.  It is a
single polling loop on an AT32F4 microcontroller: `main.c` initialises the
board and then calls `usb_process()` and `keyboard_process()` for ever.  Almost
all of its difficulty is in the USB device stack, where a program that polls
shares its endpoints with a controller and a host that act at any moment.

This directory holds TLA+ models of that firmware, the TLC instances that
check them, and TLAPS proofs about them.  Source paths below are relative to
the repository.

## 1. Inventory

| Part | Source | State | Operations | Hard behaviour |
|---|---|---|---|---|
| Endpoint-0 machine | `src/usb/core.c`, `defs.h` | `ep0`: request, `data_len`, data, `tx.{p,todo,trunc}` | `handle_rx_ep0`, `handle_tx_ep0`, `handle_control_request`, `usb_write_ep0` | a SETUP may overtake the transfer before it; short and zero-length packets; a busy endpoint defers the packet to the next completion |
| USBD driver | `src/usb/hw_usbd_at32f4.c` | `eps[]`, `pending_addr`, `buf_end`, the registers | `usbd_process`, `handle_{rx,tx}_transfer`, `handle_reset`, read, write, stall, configure, setaddr | one poll reads ISTR once and acts on it later; reception is reported before transmission; a bus reset in the same poll |
| USBD double buffering | same file | ring, indexes, `kick`, `tx_hw_slots` | `handle_dblbuf_{rx,tx}_transfer`, the double-buffered halves of read, write and configure | main loop, interrupt and controller share the ring; lost wakeups |
| DWC-OTG driver | `src/usb/hw_dwc_otg.c` | `eps[]` with its receive rings, the registers and the receive FIFO | `dwc_otg_process` and its sections | the FIFO is popped one entry per poll, after the interrupts it raises are handled; a ring of one packet; ASSERTs |
| Driver selection | `src/usb/hw_at32f4.c` | a pointer | init and deinit by chip; forwards | the clock of the controller against its registers |
| Keyboard | `src/keyboard.c`, `src/usb/hid/hid_keyboard.c` | `initialised`, `last_report`, `kbd_state` | `keyboard_process`, `usb_hid_reset`, `usb_hid_configure`, LED report | keys move under the scan; a report that cannot be sent is dropped; state that outlives a bus reset |
| HID requests | `src/usb/hid/hid.c`, `hid_vendor.c` | `kbd_state`, `vdr_state` | class requests, vendor commands, subreports | a command and the report that answers it are two transfers |
| Timers, time | `src/timer.c`, `src/time.c` | sorted deadline list, 24-bit stamp | `timer_set`, `timer_cancel`, `IRQ_timer`, `time_now` | interrupt against thread; arithmetic modulo 2^24 and 2^32 |
| Boot | `src/main.c` and the bootloader | `reset_flag` in RAM that survives a reset; stack canaries | initialisation, main loop, DFU hand-over | a reset between any two steps |
| MCU support | `src/mcu/`, `src/board.c` | chip series, oscillators, PLL, clock enables, clock rates | `identify_mcu`, `clock_init`, `peripheral_init`, `early_fatal` | a crystal that may not start; the order in which clocks are switched; enable registers that are assigned |
| Console, crash dump | `src/console.c`, `src/cortex.c` | a static buffer, the USART, PRIMASK | `vprintk`, `IRQ_console`, `EXC_unexpected`, `system_reset` | an exception inside a line; printing with interrupts off |
| Utilities | `src/util.c`, `src/string.c` | none | memory, string and formatting functions | boundaries, overlap, truncation, the least negative number |
| Host script | `scripts/samisara.py` | none | vendor commands | environment of the HID requests |

How they interact: the controller driver calls the endpoint-0 machine with each
packet and completion; the machine calls back into the driver (`usb_read`,
`usb_write`, `usb_stall`, `usb_setaddr`) and into the HID class; a bus reset goes
driver -> `usb_class_ops.reset` -> keyboard; a SET_CONFIGURATION goes machine ->
class -> `usb_configure_ep`; the main loop writes the keyboard endpoint through
the driver.  There are no locks between them: everything but the timer, the
console's interrupt and the unused double-buffered endpoints runs in the main
loop, and what races with it is hardware.

What makes each part correct:

* **USB stack**: every control transfer gets the reply to its own request, once,
  whole, and ends; endpoints are never left deaf or falsely busy; the address
  changes after the status stage.
* **Double buffering**: a queue; no packet is lost, doubled or overtaken, and no
  wakeup is lost.
* **Keyboard**: a report says which keys are down, and the host ends up with the
  last one.
* **HID requests**: a command's result is reported to the one who asked.
* **Timers**: no timer is forgotten, the list is in order, time is exact.
* **Boot**: the bootloader is entered exactly when asked for; every start ends.
* **MCU support**: the processor and the USB controller always have the clock they
  need, and no register is used without its clock.
* **Console**: lines and dumps are whole, and a crash ends in a reset.
* **Utilities**: they stay in bounds and compute what their C functions are for.

## 2. Modules

| Module | Models |
|---|---|
| `ControlPipe` | abstract: what the USB stack promises the host about control transfers |
| `UsbCore` | `core.c`: the handlers, as actions a driver conjoins with its own |
| `UsbHost` | the host's side of control transfers (environment); `PipeSpec`, the refinement |
| `Usbd` | USBD driver with `UsbCore`, the main loop, host and controller; endpoints 0 and 1 |
| `DwcOtg` | DWC-OTG driver with the same |
| `Fifo` | abstract: what a double-buffered endpoint promises |
| `Dblbuf` | a double-buffered endpoint: main loop, interrupt, controller, host; `FifoSpec`, the refinement |
| `Keyboard` | scan, report, queueing, LED |
| `Hid` | class requests, vendor commands, the programs that send them, the bootloader flag over resets |
| `Timer` | deadline list, its interrupt, the widened time |
| `Mcu` | identification, oscillators, PLL, clock switching, peripheral clocks |
| `Boot` | `Mcu` joined with initialisation, console, crash dump, driver selection and resets |
| `Memory`, `Printf`, `Library` | `util.c`, `vsnprintf`, and both together |
| `UsbHostProof` | lemmas about the host and endpoint 0 that both drivers' proofs rest on |
| `UsbdProof`, `DwcOtgProof` | theorems about each driver, among them that it implements `ControlPipe` |
| `DblbufProof`, `TimerProof`, `BootProof` | theorems about the module each is named after |
| `HidProof` | theorems about `Hid` and `Keyboard` |
| `MemoryProof` | theorems about `Memory` and `Printf` |
| `MC*` | small instances; `MCRequests` holds the requests they use |

### `UsbCore`, `UsbHost` and `Usbd`

A control request is abstracted to what `handle_control_request` tells apart:
direction, `wLength`, what it does (`act`) and the number of reply bytes it
leaves in `ep0.data` (`avail`).  Reply bytes are abstracted to the request they
belong to and their offset, so a packet `[src, off, len]` says exactly which
bytes it carries.  The C functions are the operators of the same name; where C
mutates `tx.todo` and then calls `usb_write_ep0`, the intermediate value is the
operator's argument.

The program counter `pc` of `Usbd` splits a poll where the controller can
intervene: between the read of ISTR (with the acknowledgement of the transfer it
reports) and the handler, between the handler and the handling of a bus reset,
and before `keyboard_process`.  The result of the read is in `istr`.

The host (`HostSetup`, `HostIn`, `HostOut`, `HostStalled`) and bus resets
interleave with these steps freely.  What the models assume of the controller:

* A SETUP is accepted whatever STAT_RX is, unless the last packet is yet to be
  acknowledged (CTR_RX), and turns both directions to NAK.
* A packet sent and acknowledged sets CTR_TX and NAK; if the host's ACK is lost
  the controller repeats the packet and the host, by the data toggle, ignores it.
* ISTR reports the lowest endpoint first, and reception before transmission.
* A bus reset disables the controller and its endpoints; CTR bits survive it.
* The host leaves 10 ms between a bus reset and its first SETUP, in which the loop
  has polled: `HostSetup` waits for the reset to have been handled.
* The host does not fit a SETUP into the few instructions between the
  acknowledgement of an OUT packet and the end of `usbd_read`.  Without that,
  `usbd_read` re-opens an endpoint that holds an unread SETUP, the next OUT packet
  overwrites what was received, and `TransferEnds` fails; the hazard is listed at
  `src/usb/hw_usbd_at32f4.c:155`.

A host that must wait forever for a handshake may reset the bus, and may do so at
any time.  `Abort` lets it also start a new transfer in the middle of one.

### `DwcOtg`

The receive FIFO is the sequence `rxf`; `gint` is the set of sections of the
current poll still to run, in the order of the code; `rx_count` is
`rxp - rxc` of the ring of one packet (`rx_buf0`).  A failed ASSERT stops the debug
build in `pc = "illegal"`; a release build (`Rules.mk` defines NDEBUG) does not test
it and goes on: it overruns the ring, and `room` counts what is left as the code does, in
16 bits.  `build` says which one runs, and never changes.  `AssertFails` is the
condition of the ASSERTs whether or not they are compiled.  `repeated` is a history
variable that no guard reads: the host has repeated a SETUP since endpoint 0 was last
configured.

The interrupt registers keep what they hold over a bus reset, and endpoint 1 is masked from
there to its configuration (`xfrc_in1`).  The receive FIFO is assumed to be emptied by a bus
reset.  The code flushes it in `dwc_otg_init` only, and if the controller kept it
`handle_rx_transfer` would store a packet of before the reset through the null pointer of
a cleared `eps[0]`; what comes of that no model of the code can say.

`EnumerationDone` waits for the beginning of the bus reset to have
been handled: the reset lasts 10 ms, and if ENUMDNE and USBRST were found in one
poll the code would configure endpoint 0 and then clear it
(`hw_dwc_otg.c:440`).

### `Dblbuf`

The controller works on packet buffer `dtog`, the driver on `sw`; equal, the
endpoint answers NAK.  The handler is two steps, split where it releases a packet
buffer to the controller: from there on the controller may send or receive while
the handler copies.  `usbd_read` and `usbd_write` are split at every access to a
field the handler shares: the copy, the index, the test of `kick`, and the second
test with the interrupt masked.  `Inside` is the refinement mapping: what of the
ring and of the two packet buffers is in the queue, by direction.

The code is modelled as it is meant to be used.  No endpoint of this firmware asks
for `EPT_DBLBUF`, and CNTR.CTRM, which `IRQ_USB_HP` needs, is never set, so as built
this code does not run.  Three things the model shows or assumes: the second test
of `kick`, under the mask, is redundant (`KickStands`); the compiler does not move
the load of `kick` before the update of the index (`hw_usbd_at32f4.c:184` has no
barrier); and an endpoint is configured only after a reset (reconfiguring an active
one, `hw_usbd_at32f4.c:250`, would clear indexes while the interrupt uses them).

### `Keyboard`

A scan takes one step per key, in scan order, with keys moving between the steps;
the keys of a column are read together, with its first one (`idr` keeps what was
read), and the special keys are columns of one.  `usb_process` runs between scans
only (`next = 0`), because the loop is one thread.  The endpoint is the four states
that `KeyboardTxAccounted` of `Usbd` justifies.

### `Hid`

A class request is one step: `ControlPipe` is what lets it be.  A vendor command
is what `vdr_cmd` tells apart: its length byte, its padding, its argument and
whether the magic is right.  `Unit.get_subreport` of `samisara.py` is two requests,
with whatever another program does between them; the host lets several have
the interface open.  `handler` is the routing of `hid_handle_class_request`: both
IDLE and PROTOCOL go to `handle_idle`, as the code has it.

`set_reset_flag`, `system_reset` and `check_bootloader_requested` are the
hand-over to the bootloader, which a reset button or the power may interrupt
between any two steps.  RAM, and `reset_flag` in it, survives a reset; that it does
not happen to hold `0xdeadbeef` after power-on is assumed.  `chooser` and `asked` are
history variables: no guard reads them.

### `Timer`

`clock` is the true time, modulo `SPAN` (2^32 in the code); the hardware counter is its
complement modulo `WRAP` (2^24).  The thread's `time_now` is two steps, the read of the
stamp and the read of the counter, and the interrupt may renew the stamp between
them.  One round of the loop of `IRQ_timer` is two steps as well.  `timer_set` and
`timer_cancel` run with the interrupt masked and are one step each.

What is assumed of the hardware and the program: the event comes one tick after
`arr` has been counted; clearing SR may or may not withdraw an interrupt that is
already pending; an interrupt and its handler take at most `LATENCY` ticks; the
thread is held up at most `GAP` ticks between its two reads (the code has a margin of
2^23 ticks, almost half a second, for the sum of both); a callback that re-arms a
timer leaves it some time to go.

### `Mcu` and `Boot`

One behaviour is the life of one chip: which series it is, whether the image is the
firmware or a bootloader, and whether it is a debug build are chosen at the start
and never change.  `rcc` holds what the program sets up in RCC and `enr` the
peripherals whose clock is on; every step that uses registers says which
(`touches`), and `unclocked` remembers a use without a clock.  The crystal and the
PLL are the hardware's steps; the crystal may never start.  `wait_hse` counts the
milliseconds of `clock_init` up to `HSE_TRIES`.

Printing is one step per character (`ser_putc`), between `vprintk`, which masks
interrupts and saves the old mask, and `vprintk_done`, which restores it.  `todo`
says how many lines are to come before the program goes on.  A crash, from the
console's interrupt or a failed assertion, makes `context` "crash", and the dump's lines
follow.  `system_reset` prints a line itself, with the interrupts off.

Assumed: a violated assertion stands for every exception in the program, and comes
only in the main loop of a debug build, between lines.  An exception before `console_init` of a debug build would wait for
ever in `ser_putc` for a USART without a clock, and no such exception is known.

### `Memory`, `Printf` and `Library`

A behaviour is one call; a step is one turn of a loop (of a byte, or of a block of 32
in `memset_fast` and `memcpy_fast`); in `Printf` it is one item of a format, or one
digit of the number that is being converted.  `call.old` keeps the
memory of before the call, and `MoveExact` and `AnswerExact` compare the outcome with
the definition of each function over it.  The length of a char, a short and an int is
a constant of `Printf` (`CHAR_SPAN` and so on), so that the truncations and the least
negative number occur with few values.  A format is a sequence of parsed directives.
`Field`, the text a directive asks for, has the layout of this `vsnprintf`, which is not
always that of the C standard: `%#x` of 0 has its `0x`, the blanks of a field come after the
`0x`, and a string with a width is padded on its right.

## 3. Runs

| Run | Shows | Environment |
|---|---|---|
| `UsbdTransfers` | `PipeSpec` (refinement of `ControlPipe`), `RxOpen`, `KeyboardTxAccounted`, `TypeOK` | all transfers; acknowledgements lost; bus resets |
| `UsbdProgress` | `TransferEnds`, `AddressTaken` (liveness), `TxAccounted`, `AddressAfterStatus` | enumeration, to two addresses; nothing lost; SET_ADDRESS only after the transfer before has been polled (`Gap`) |
| `UsbdAddressRace` | `AddressAfterStatus` fails without `Gap` | same, `Gap` off |
| `DwcTransfers` | `PipeSpec`, `AssertsHold`, `Accounted`, `TransferEnds`, `TypeOK` | nothing lost; bus resets |
| `DwcAbort` | `RxOpen` | transfers abandoned, SETUPs repeated, acknowledgements lost; bus resets; both builds |
| `Dblbuf` | `FifoSpec` (refinement of `Fifo`), `PacketsComeOut` (liveness), `Armed`, `KickStands`, `TypeOK` | either direction; bus resets |
| `Keyboard` | `ScanExact`, `LightOut`, `ReportsAreNews`, `HostCatchesUp` (liveness) | three ordinary keys, two of one column, and a modifier; a report of two slots |
| `Timer` | `TimeExact`, `ListSorted`, `NotLate` | two timers beside the stamp's |
| `Hid` | `AnswerMatches`, `BootloaderIfAsked`, `TypeOK` | two programs; resets of every kind |
| `HidProtocol` | `ProtocolReported` fails | one program |
| `Boot` | `ClocksSwitched`, `UsbAt48`, `ClockedAccess`, `LinesWhole`, `ResetIsFinal`, `BootEnds` (liveness) | every chip and build, a crystal that may not start, input and faults at any moment |
| `Library` | `MemTypeOK`, `MoveExact`, `AnswerExact`, `PrintBounded`, `PrintExact` | every call over ten bytes of memory |

### Bounds

* USB: packets are 2 bytes and `ep0.data` 4 bytes, so that one, two and three-packet
  stages, exact, short, clipped and over-long transfers all occur with `wLength` up
  to 5; the machine compares lengths only with these constants.  `BUF_CAP` saturates
  `buf_end` (its value decides nothing here), `RXF_CAP` limits only how many SETUPs
  queue up in the receive FIFO.  `RING_CAP` = 3 lets a SETUP be sent three times, as the controller is set up for,
  which is enough to find the ring over-full after the read, by one (no room) and by more (the
  count of the room wraps).
* `Dblbuf`: `SPAN` = 4 is the least at which the indexes wrap with both buffers in use;
  three different packets show any loss, repetition or overtaking in a queue that
  holds at most four.
* `Keyboard`: three keys in a report with room for two is where the phantom state begins;
  columns of one and of two tell a column from a key.  `SESSIONS` is how often the
  keyboard is configured: twice is what a stale `last_report` takes.
* `Timer`: a counter of 16 ticks and a time of 32, so that both wrap again and again
  in a run, and deadlines from one tick ago to four ahead.
* `MCHid`: a good command of each kind and one bad in each way `vdr_cmd` tests for; two
  programs are enough for one to come between another's command and its report.
* `Boot`: three milliseconds for the crystal, two lines to the banner and to the dump
  and two characters to a line: a first, a last and a moment between.
* `MCLibrary`: blocks of 4 in a memory of 10 (two blocks and a rest), alignment 2;
  numbers of 6, 4 and 2 bits at and about their limits, fields narrower and wider than
  they are, buffers of no, one, two, some and enough bytes.

### Disagreements with the code

The two runs that fail show the code against what the repository says of it:

1. **Early address change (USBD).**  `handle_tx_transfer` takes "no bytes left to
   send" for "the status stage of SET_ADDRESS has completed".  If the completion
   before it is still unhandled when the SETUP arrives, the code applies the
   address when it handles that older completion, and the host's status stage
   finds nobody at address 0.
2. **Protocol requests (HID).**  The PROTOCOL case of `hid_handle_class_request` tests
   `handle_protocol` and calls `handle_idle`.  SET_PROTOCOL changes the idle rate and
   GET_PROTOCOL reports it, on an interface that announces itself as a boot keyboard.

Other places where the code is weaker than one might wish, although no comment, test
or assertion of it says otherwise.  The runs leave them out, by a constant or an
assumption that each says here:

* **Lost ACK (USBD).**  `tx_ready` is set by completions only.  A SETUP that replaces a
  packet whose ACK was lost leaves it clear, and endpoint 0 answers NAK to every IN until
  a bus reset.  `TxAccounted` and `TransferEnds` are checked with nothing lost.
* **Repeated SETUP (DWC-OTG).**  A host that misses the ACK of a SETUP repeats it.  The
  controller is set up for three back-to-back SETUPs (`hw_dwc_otg.c:55-60`), the ring for one
  packet, and the second SETUP is popped before the end of the stage lets the first be read:
  `ASSERT((uint16_t)(ep->rxp - ep->rxc) < ep->rx_nr)` (`hw_dwc_otg.c:363`) fails.  A debug build
  stops.  A release build overruns the ring, is left with `rxp - rxc = 1` after the read, and
  `prepare_rx` (`hw_dwc_otg.c:83`) does not arm endpoint 0 again: it stays closed to OUT packets
  until a bus reset (or a bigger overrun, for which the count of the room wraps).  So
  `AssertsHold` and `RxOpen` say nothing from a repeated SETUP to the next configuration of
  endpoint 0 (`~repeated`), and no run has `PipeSpec` or `TransferEnds` with one.
* **SET_ADDRESS(0) (USBD).**  `pending_addr` = 0 means "none", so the request is acknowledged and
  the old address kept (`hw_usbd_at32f4.c:364`).
* **Second SET_CONFIGURATION.**  On DWC-OTG it marks the keyboard endpoint ready with a
  report in flight (`hw_dwc_otg.c:269`), and unmasks a completion that a bus reset left
  pending, which does the same.  On USBD each one without a reset takes 128 more
  bytes of packet memory; the third goes beyond its 512 (`hw_usbd_at32f4.c:269`).
* **`stm32.c:104`**: after the PLL is selected the loop count of `early_delay_us(200)` is
  still that of 8 MHz: it lasts about 11 us.
* **`BOOTLOADER_START`** is that of the AT32F415 for every chip.
* **`vsnprintf`**: a format that ends in `%` is read beyond its end; `%hhd` prints a negative
  char as unsigned.  No format in the repository has either.
* **Key code `NA`** (`keyboard.c:145`) would index `a1200_usb_map` beyond its end if the
  crossing of the matrix that has no key read as pressed.

The `assert x[1] == idx` of `samisara.py` holds for a program that is alone, not for two
at once: `AnswerMatches` states it with that condition (`alone`).

### Fairness

* `Usbd`, `DwcOtg`: the main loop always takes its next step (it never blocks), and a host
  in a transfer retries until it is answered, as the bus protocol has it.  Nothing obliges
  a host to start a transfer.
* `Keyboard` adds that a completion of the keyboard endpoint that is pending again and
  again is served (strong fairness): the driver serves endpoint 0 first, so this assumes
  a host that leaves some poll without control traffic.
* `Dblbuf`: the interrupt is served, the main loop reads what it may and ends what it has
  begun, and a host asks for what a transmitting endpoint offers.  Nothing obliges the
  program to write or the host to send.
* `Boot`: the program runs, and a PLL that has a crystal locks.  The crystal need not
  start, nor any input, fault or request come.

## 4. Proofs

Checked by TLAPS for every value of the constants that satisfies their ASSUMEs.

**`Usbd`** (any positive packet size and `DATA_MAX`, any requests the USB specification
allows; a host that may abandon transfers, lose acknowledgements and leave no gap, unless
a theorem says otherwise):

* `TypeCorrect`: `Spec => []TypeOK`.  It needs `DataBound` (the bytes of an OUT data
  stage never go beyond `wLength`) to keep packet lengths natural numbers.
* `NeverDeaf`: `Spec => []RxOpen`.  `RxOpen` is not inductive: a poll's snapshot can
  claim an event that no longer holds.  The strengthening adds `SnapshotInv` (what
  `istr` says at each `pc`) and `DisabledInv` (what a bus reset leaves).
* `KeyboardEndpoint`: `Spec => []KeyboardTxAccounted`.  The inductive part,
  `KeyboardInv`, also says what holds while a reset is pending and before the class is
  configured, because a completion that survives a bus reset is cleared only by
  the next SET_CONFIGURATION.
* `UsbdImplementsPipe`: `Spec => PipeSpec` if `~Abort`.  A state of the host's
  transfer (its phase and byte count) determines what `ep0` and the two buffers hold:
  `Phase` names the cases (`Resting`, `Asking`, `Receiving`, `Replying`, `Acking`,
  `Refusing`, and `Off` while a bus reset has not been handled).  `BufferInv` (one packet at a
  time each way) makes most of the host's moves impossible in most phases, and `ActInv`
  says that a request still to be acted on, even one that a reset has cut off, is the
  host's last.
* `Endpoint0Flag`: `Spec => []TxAccounted` if `~Abort` and `~Lossy`.  Beside `Known`, the
  invariant above, it needs that no packet is in the buffer when a host at rest
  sends a SETUP; a lost acknowledgement breaks just that.
* `AddressInTime`: `Spec => []AddressAfterStatus` if `~Abort`, `Gap` and every SET_ADDRESS is for
  a nonzero address.  `AddrInv` says that no completion is outstanding while SET_ADDRESS is
  under way, so that the next one to be handled is that of its status stage.

**`DwcOtg`** (the same constants, with `Abort` and `Lossy`, and either build or both):

* `NeverDeafDwc`: `Spec => []RxOpen`, in either build and whatever the host does.  What arms
  the endpoint again is the end of a stage, popped or still in the FIFO (`DeafInv`), and that
  it does rests on the next theorem: the ring holds just the one packet when the end of its
  stage is handled (`RingInv`), so there is room for another after the read.  A repeated SETUP
  breaks both.  What it leaves (`ResetInv`, and `Serving`, that no interrupt is pending when
  endpoint 0 is configured) is enough for its configuration to establish them again.
* `NoAssertFails`: `Spec => []AssertsHold`.  The argument is that
  packets and ends of stages alternate in the FIFO (`Pairs`), so that the ring holds a
  packet exactly when the next thing to come out of the FIFO ends its stage
  (`RingInv`), and that the ring is read before the FIFO in every poll.  `ResetInv` says why
  neither breaks across a bus reset.
* `DwcTypes`: `Spec => []TypeOK`.
* `DwcImplementsPipe`: `Spec => PipeSpec` if `~Abort` and `~Resends`; the host may lose
  acknowledgements, which the run that checks `PipeSpec` does not have.  The phases are those of `Usbd`,
  seen through the FIFO: `WireInv` says that at most two packets, each with the end of its
  stage, are in the FIFO and on their way out of it, and a phase which two.  `ClearInv` says
  that nothing of the last transfer is left when a bus reset has been handled; `BufferInv`
  and `ActInv` are as above.
* `DwcAccounted`: `Spec => []Accounted` if also `~Lossy`.  `FlagInv` says that
  the transmit flag is clear exactly while a packet or its completion is on its way, and
  `AddrInv` that the device has the new address from the moment it acts on SET_ADDRESS and
  the host's otherwise: this driver does not wait for the status stage.

**`Dblbuf`** (any set of packets, any even width of the indexes beyond 2):

* `DblbufTypeCorrect`, `NoLostWakeup` (`Armed`), `KickTestSafe` (`KickStands`), from one
  inductive invariant: where the main loop is and what it has tested (`ThreadInv`), what
  `kick` implies (`KickInv`), and why an endpoint that answers NAK does (`NakInv`,
  `RingInv`, `SlotsInv`).
* `DblbufImplementsFifo`: `Spec => FifoSpec`.  With `DataInv` (which packet is being copied),
  each step is shown to put one packet in at the end of `Inside`, to take one from
  its head, or to leave it; `Inside` is rearranged by the handler, never changed.

**`Hid`**:

* `HidAnswerMatches`: `Spec => []AnswerMatches`, for any number of programs and any
  commands.  It needs `SelectionInv`: while a program that was the last to choose a
  subreport waits for its report, that is the one selected.
* `HidBootloaderIfAsked`: `Spec => BootloaderIfAsked`, an action property, from
  `RequestInv`: the flag is set, or about to be, only while a request is outstanding.
* `HidTypeCorrect`: `Spec => []TypeOK`.

**`Boot`** (any number of tries, characters and lines):

* `ClocksAreSafe` (`ClocksSwitched`), `UsbClock` (`UsbAt48`), `NothingUnclocked`
  (`ClockedAccess`), and the action properties `DumpsAreWhole` (`LinesWhole`) and `ResetComes`
  (`ResetIsFinal`).  The inductive invariant says what has been established by each
  place of the program: `RateInv`, `OscillatorInv`, `PowerInv`, `PrintInv`.

**`Memory`** (any memory, block size and alignment):

* `MemoryInBounds`, `MovesAreExact`, `AnswersAreExact`.  `Progress` relates the loop's
  pointers to the call's arguments, and `Contents` says of every byte whether it is
  already written; for overlapping moves the direction of the copy decides which
  bytes of the source are still those of before.

**`Timer`** (any width of the time, slack, set of timers and delays that satisfy
`MarginAssumption`: the longest delay of a callback and the thread's `GAP` together fit in
`TIME_UPDATE_PERIOD`, half a period of the counter, as `time.c:15-17` has it):

* `TimeIsExact` (`TimeExact`), `ListIsSorted` (`ListSorted`), `NoneIsLate` (`NotLate`).
  None of them is inductive and none can be had alone: the time is right because the stamp
  is less than a period old, the stamp is renewed because its timer is not late, and no timer
  is late because a right time put it where it belongs.  `Inv` says how far each is
  from failing: `Armed` and `Overdue` bound how late a timer can be before and while the
  handler serves it, `Stamped` says that the stamp is as old as its own timer says, or is
  being renewed, `Fresh` how old the stamp is that a reader holds, and `Ordered` that the list
  is in the order of the time each timer has left.

**`Keyboard`** (any keys, columns and modifiers, any room in a report):

* `KeyboardScanExact` (`ScanExact`), `KeyboardReportsAreNews` (`ReportsAreNews`, an action
  property), `KeyboardLightOut` (`LightOut`).  `Added` says that the report under construction
  is that of the keys before `next`, full or not; its proof is a step of `report_add`
  (`AddsModifier`, `AddsOther`) and a count of the keys before one (`LastRank`).  `Owed` says of a
  report in the endpoint that it is news to the host.

**`Printf`** (any formats, arguments, buffer sizes and lengths of the C types):

* `PrintInBounds` (`PrintBounded`) and `PrintingIsExact` (`PrintExact`).  `PrintInv` says that
  the buffer holds as much of the text of the items before `at` as fits, and of a number
  half converted that its digits so far and the rest of its value make up the number
  (`Converting`).

The two recursive functions of `Printf` (`Powers`, `Texts`) need an induction that the library's
theorems, which take an operator as a parameter, cannot give here.  `LeastIs` (a nonempty set of natural
numbers has a least element) and, from it, `Recursion` (a function on 0..k with a given
first value and a given step exists) are first-order, and give what is needed of such functions.

Every invariant and every action property that a passing run checks is thus also a theorem
(`PipeSpec` and `FifoSpec` without fairness, which they do not state).  Left to TLC alone are
the liveness properties, `TransferEnds`, `AddressTaken`, `PacketsComeOut`, `HostCatchesUp` and
`BootEnds`: they need fairness, and so ENABLED, which the prover does not have.  A theorem
that assumes `~Abort`, `~Lossy`, `Gap` or `~Resends` says nothing of the other
environments; section 3 tells what is known to fail there.

## 5. Not modelled

* Descriptors and strings, report sizes, USB speed and FIFO sizing, pin modes, exception
  priorities and stacks of `cortex_init`: constants that no step changes.
* What the crash dump says, and the parsing of formats.
* `fpec.c` and `udiv64` have no caller.  `delay_ticks` and its relatives count ticks of a
  counter and return; only the scan uses them.
* Ghosting of the key matrix: `pressed` is what the matrix shows.
* The 16-bit branch of `reprogram_timer`, which is another MCU's.
* The functions of `hw_at32f4.c` that only forward a call.
