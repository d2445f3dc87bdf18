-------------------------------- MODULE Usbd --------------------------------
(***************************************************************************)
(* The USBD controller driver (src/usb/hw_usbd_at32f4.c) running the       *)
(* control-transfer machine of UsbCore, between the main loop that polls   *)
(* it and a host that acts at any moment.                                  *)
(*                                                                         *)
(* The program is one thread: main.c calls usb_process and                 *)
(* keyboard_process for ever.  pc says where it is in that loop.  One poll *)
(* is split where the controller can change its registers under it: the    *)
(* read of ISTR with the acknowledgement of the transfer it reports, the   *)
(* handler of that transfer, and the handling of a bus reset.              *)
(*                                                                         *)
(* The controller and the host are external; they are modelled from the    *)
(* register bits the driver relies on.  Between two packets the host may   *)
(* also reset the bus.                                                     *)
(***************************************************************************)
EXTENDS UsbHost

CONSTANTS
    FS_MPS,    \* USB_FS_MPS, the size of a class endpoint's buffer
    BUF_CAP,   \* bound: buf_end stops growing here
    Gap        \* the host sends SET_ADDRESS only after the device has polled
               \* the end of the transfer before

ASSUME UsbdAssumption ==
    FS_MPS \in Nat /\ BUF_CAP \in Nat /\ Gap \in BOOLEAN

VARIABLES
    stat_rx,       \* endpoint 0's answer to an OUT token
    ctr_rx,        \* CTR_RX of endpoint 0: a packet has been received
    ctr_tx,        \* CTR_TX of endpoint 0: a packet was sent and acknowledged
    rx_setup,      \* SETUP bit: the packet received was a SETUP
    rx_req,        \* the request in the receive buffer, if it was
    rx_len,        \* count_rx
    bus_reset,     \* ISTR.RESET
    daddr,         \* address the controller answers to, -1 if disabled
    pending_addr,  \* address to take when SET_ADDRESS completes
    buf_end,       \* end of the packet memory allocated so far
    ep1,           \* the keyboard endpoint: soft tx_ready, STAT_TX, CTR_TX
    initialised,   \* keyboard.c: the class has been configured
    pc,            \* "poll", "transfer", "reset" or "keyboard"
    istr           \* what this poll has read from ISTR and EPR

fifo   == <<stat_rx, rx_setup, rx_req, rx_len>>
class  == <<buf_end, ep1, initialised>>
addr   == <<daddr, pending_addr>>
vars   == <<core, fifo, ctr_rx, ctr_tx, bus_reset, addr, class, pc, istr, host>>

SETUP_LEN == 8
Events == {"none", "rx", "tx0", "tx1"}

Endpoints == [ready: BOOLEAN, stat: TxStats, ctr: BOOLEAN]
Snapshots == [ev: Events, setup: BOOLEAN, reset: BOOLEAN]

DriverTypeOK ==
    /\ stat_rx \in TxStats
    /\ ctr_rx \in BOOLEAN /\ ctr_tx \in BOOLEAN
    /\ rx_setup \in BOOLEAN /\ rx_req \in Requests /\ rx_len \in Nat
    /\ bus_reset \in BOOLEAN
    /\ daddr \in Nat \cup {-1} /\ pending_addr \in Nat
    /\ buf_end \in Nat
    /\ ep1 \in Endpoints
    /\ initialised \in BOOLEAN
    /\ pc \in {"poll", "transfer", "reset", "keyboard"}
    /\ istr \in Snapshots

TypeOK == CoreTypeOK /\ DriverTypeOK /\ HostTypeOK

(* Power on: RAM cleared, the controller detached until the first bus reset. *)
Init ==
    /\ req \in Requests /\ data = req
    /\ data_len = 0 /\ todo = 0 /\ trunc = FALSE /\ p = 0
    /\ tx_ready = FALSE /\ stat_tx = "DISABLED"
    /\ txbuf = [src |-> req, off |-> 0, len |-> 0]
    /\ stat_rx = "DISABLED" /\ ctr_rx = FALSE /\ ctr_tx = FALSE
    /\ rx_setup = FALSE /\ rx_req = req /\ rx_len = 0
    /\ bus_reset = FALSE /\ daddr = -1 /\ pending_addr = 0
    /\ buf_end = 0 /\ initialised = FALSE
    /\ ep1 = [ready |-> FALSE, stat |-> "DISABLED", ctr |-> FALSE]
    /\ pc = "poll"
    /\ istr = [ev |-> "none", setup |-> FALSE, reset |-> FALSE]
    /\ HostInit /\ hreq = req

-----------------------------------------------------------------------------
(* The host and the controller.                                             *)

\* Packets reach endpoint 0 only at the address the controller answers to.
Addressed == daddr = haddr

(* A SETUP is accepted whatever STAT_RX says, unless the last packet is yet *)
(* to be acknowledged; both directions then answer NAK.  After a bus reset  *)
(* the host leaves the device 10 ms before it does this.  It also does not  *)
(* put a whole SETUP on the wire within the few instructions from the       *)
(* acknowledgement of the packet before to usbd_read: see the README.       *)
HostSetup(r) ==
    /\ Addressed /\ ~ctr_rx /\ stat_rx # "DISABLED"
    /\ ~bus_reset /\ pc # "reset" /\ ~istr.reset
    /\ ~(pc = "transfer" /\ istr.ev = "rx")
    /\ Gap /\ r.act = "setaddr" => ~ctr_tx /\ pc # "transfer"
    /\ HostBegins(r)
    /\ ctr_rx' = TRUE /\ rx_setup' = TRUE
    /\ rx_req' = r /\ rx_len' = SETUP_LEN
    /\ stat_rx' = "NAK" /\ stat_tx' = "NAK"
    /\ UNCHANGED <<ep0, tx_ready, txbuf, ctr_tx, bus_reset, addr, class, pc,
                   istr>>

(* An IN token is answered with the packet in the buffer.  With the host's  *)
(* ACK the controller sets CTR_TX and NAK; without it, it has the packet    *)
(* ready to repeat.                                                         *)
HostIn ==
    /\ Addressed /\ stat_tx = "VALID"
    /\ HostTakesPacket
    /\ \/ ctr_tx' = TRUE /\ stat_tx' = "NAK" /\ dup' = FALSE
       \/ Lossy /\ dup' = TRUE /\ UNCHANGED <<ctr_tx, stat_tx>>
    /\ UNCHANGED <<ep0, tx_ready, txbuf, fifo, ctr_rx, bus_reset, addr, class,
                   pc, istr>>

HostStalled ==
    /\ Addressed /\ stat_tx = "STALL"
    /\ HostExpectsIn /\ HostTakesStall
    /\ UNCHANGED <<core, fifo, ctr_rx, ctr_tx, bus_reset, addr, class, pc,
                   istr>>

HostOut ==
    /\ Addressed /\ stat_rx = "VALID" /\ ~ctr_rx
    /\ HostSendsOut
    /\ ctr_rx' = TRUE /\ rx_setup' = FALSE /\ rx_len' = HostOutLen
    /\ stat_rx' = "NAK"
    /\ UNCHANGED <<core, rx_req, ctr_tx, bus_reset, addr, class, pc, istr>>

\* The host polls the keyboard endpoint and acknowledges the report.
HostPollsKeyboard ==
    /\ Addressed /\ initialised /\ ep1.stat = "VALID"
    /\ ep1' = [ep1 EXCEPT !.stat = "NAK", !.ctr = TRUE]
    /\ UNCHANGED <<core, fifo, ctr_rx, ctr_tx, bus_reset, addr, buf_end,
                   initialised, pc, istr, host>>

(* A bus reset disables the controller and all endpoints; the CTR bits      *)
(* keep their values.                                                       *)
BusReset ==
    /\ bus_reset' = TRUE
    /\ daddr' = -1
    /\ stat_tx' = "DISABLED" /\ stat_rx' = "DISABLED"
    /\ ep1' = [ep1 EXCEPT !.stat = "DISABLED"]
    /\ HostSeesReset
    /\ UNCHANGED <<ep0, tx_ready, txbuf, rx_setup, rx_req, rx_len, ctr_rx,
                   ctr_tx, pending_addr, buf_end, initialised, pc, istr>>

-----------------------------------------------------------------------------
(* The program.                                                             *)

(* usbd_process reads ISTR and clears what it read.  The controller reports *)
(* the lowest endpoint first, and reception before transmission; the        *)
(* handler called begins by acknowledging that transfer.                    *)
usbd_process ==
    /\ pc = "poll"
    /\ istr' = [ev    |-> IF ctr_rx THEN "rx"
                          ELSE IF ctr_tx THEN "tx0"
                          ELSE IF ep1.ctr THEN "tx1" ELSE "none",
                setup |-> rx_setup,
                reset |-> bus_reset]
    /\ bus_reset' = FALSE
    /\ ctr_rx' = FALSE
    /\ ctr_tx' = (ctr_tx /\ ctr_rx)
    /\ ep1' = [ep1 EXCEPT !.ctr = @ /\ (ctr_rx \/ ctr_tx)]
    /\ pc' = IF ctr_rx \/ ctr_tx \/ ep1.ctr THEN "transfer"
             ELSE IF bus_reset THEN "reset" ELSE "keyboard"
    /\ UNCHANGED <<core, fifo, addr, buf_end, initialised, host>>

AfterTransfer == IF istr.reset THEN "reset" ELSE "keyboard"

(* hid_set_configuration: both interfaces configure their endpoint (0x81    *)
(* and 0x82; nothing is ever written to 0x82), then the class is ready.     *)
hid_set_configuration_keeps_ctr ==     \* variant: a completion is left over
    /\ ep1' = [ready |-> TRUE, stat |-> "NAK", ctr |-> ep1.ctr]
    /\ buf_end' = min_t(buf_end + 2 * FS_MPS, BUF_CAP)
    /\ initialised' = TRUE

hid_set_configuration ==
    /\ ep1' = [ready |-> TRUE, stat |-> "NAK", ctr |-> FALSE]
    /\ buf_end' = min_t(buf_end + 2 * FS_MPS, BUF_CAP)
    /\ initialised' = TRUE

(* The device acts on r now. *)
accept(r) ==
    /\ DeviceActs(r)
    /\ pending_addr' = IF r.act = "setaddr" THEN r.addr ELSE pending_addr
    /\ IF r.act = "setconf" THEN hid_set_configuration ELSE UNCHANGED class

no_request == UNCHANGED <<acted, pending_addr, class>>

(* usbd_read re-opens the endpoint.  Every path of handle_rx_ep0 comes here. *)
usbd_read_if_more ==              \* variant: the status packet is not read
    stat_rx' = IF istr.setup \/ ~req.in THEN "VALID" ELSE stat_rx
usbd_read == stat_rx' = "VALID"

(* handle_rx_transfer on endpoint 0. *)
handle_rx_transfer ==
    /\ pc = "transfer" /\ istr.ev = "rx"
    /\ \/ /\ istr.setup
          /\ handle_rx_setup(rx_req)
          /\ IF setup_ready(rx_req) /\ handled(rx_req)
             THEN accept(rx_req) ELSE no_request
       \/ /\ ~istr.setup
          /\ handle_rx_out(rx_len)
          /\ IF data_ready(rx_len) /\ handled(req)
             THEN accept(req) ELSE no_request
    /\ usbd_read
    /\ pc' = AfterTransfer
    /\ UNCHANGED <<rx_setup, rx_req, rx_len, ctr_rx, ctr_tx, bus_reset, daddr,
                   istr, xfer, dup>>

(* A pending address is taken once there is nothing left to send.           *)
take_address_at_zero ==           \* variant: todo is 0, not -1, at the end
    IF pending_addr # 0 /\ todo' = 0
    THEN daddr' = pending_addr /\ pending_addr' = 0
    ELSE UNCHANGED addr
take_address ==
    IF pending_addr # 0 /\ todo' = -1
    THEN daddr' = pending_addr /\ pending_addr' = 0
    ELSE UNCHANGED addr

(* handle_tx_transfer on endpoint 0: continue the reply.                    *)
handle_tx_transfer ==
    /\ pc = "transfer" /\ istr.ev = "tx0"
    /\ handle_tx_ep0
    /\ take_address
    /\ pc' = AfterTransfer
    /\ UNCHANGED <<fifo, ctr_rx, ctr_tx, bus_reset, class, istr, host>>

(* handle_tx_transfer on the keyboard endpoint. *)
handle_tx_keyboard ==
    /\ pc = "transfer" /\ istr.ev = "tx1"
    /\ ep1' = [ep1 EXCEPT !.ready = TRUE]
    /\ pc' = AfterTransfer
    /\ UNCHANGED <<core, fifo, ctr_rx, ctr_tx, bus_reset, addr, buf_end,
                   initialised, istr, host>>

(* Parts of handle_reset: forget the control transfer, and configure        *)
(* endpoint 0, which also clears its CTR bits.                              *)
forget_all_but_address ==         \* variant of forget_transfer
    data_len' = -1 /\ todo' = -1 /\ UNCHANGED pending_addr
forget_transfer ==
    data_len' = -1 /\ todo' = -1 /\ pending_addr' = 0

usb_configure_ep0_keeps_ctr ==    \* variant of usb_configure_ep0
    /\ tx_ready' = TRUE
    /\ stat_tx' = "NAK" /\ stat_rx' = "VALID"
    /\ ctr_rx' = FALSE /\ UNCHANGED ctr_tx
usb_configure_ep0 ==
    /\ tx_ready' = TRUE
    /\ stat_tx' = "NAK" /\ stat_rx' = "VALID"
    /\ ctr_rx' = FALSE /\ ctr_tx' = FALSE

(* handle_reset: the class is reset, endpoint 0 is configured afresh at     *)
(* address 0.                                                               *)
handle_reset ==
    /\ pc = "reset"
    /\ initialised' = FALSE
    /\ ep1' = [ep1 EXCEPT !.ready = FALSE]
    /\ forget_transfer
    /\ buf_end' = 3 * FS_MPS
    /\ usb_configure_ep0
    /\ daddr' = 0
    /\ pc' = "keyboard"
    /\ istr' = [istr EXCEPT !.reset = FALSE]
    /\ UNCHANGED <<req, data, trunc, p, txbuf, rx_setup, rx_req, rx_len,
                   bus_reset, host>>

(* keyboard_process, as far as the endpoint goes: a changed report is       *)
(* queued if the endpoint is ready for it.                                  *)
keyboard_process ==
    /\ pc = "keyboard"
    /\ \/ /\ initialised /\ ep1.ready
          /\ ep1' = [ep1 EXCEPT !.ready = FALSE, !.stat = "VALID"]
       \/ UNCHANGED ep1
    /\ pc' = "poll"
    /\ UNCHANGED <<core, fifo, ctr_rx, ctr_tx, bus_reset, addr, buf_end,
                   initialised, istr, host>>

-----------------------------------------------------------------------------
Program ==
    \/ usbd_process \/ handle_rx_transfer \/ handle_tx_transfer
    \/ handle_tx_keyboard \/ handle_reset \/ keyboard_process

HostMoves == HostIn \/ HostStalled \/ HostOut

Next ==
    \/ Program
    \/ HostMoves
    \/ \E r \in Requests : HostSetup(r)
    \/ HostPollsKeyboard
    \/ BusReset

Spec == Init /\ [][Next]_vars

(* The main loop never stops, and a host in a transfer retries until it is  *)
(* answered.  Nothing obliges the host to begin a transfer.                 *)
FairSpec == Spec /\ WF_vars(Program) /\ WF_vars(HostMoves)

-----------------------------------------------------------------------------
(* Correctness.                                                             *)

\* The device is yet to notice a bus reset.
Resetting == bus_reset \/ istr.reset

\* The handler of an event that was acknowledged is still to run.
Handling(ev) == pc = "transfer" /\ istr.ev = ev

(* The soft flag tx_ready of endpoint 0 (hw_usbd_at32f4.c:35-40) agrees     *)
(* with the controller: while it is set no packet is in the buffer, and     *)
(* while it is clear the event that will set it again is on its way.        *)
TxAccounted ==
    ~Resetting /\ daddr # -1 =>
        (tx_ready <=> ~(stat_tx = "VALID" \/ ctr_tx \/ Handling("tx0")))

(* Endpoint 0 never goes deaf: it is closed to OUT packets only while a     *)
(* received packet waits for the program.  True even of a host that         *)
(* abandons transfers (usbd_read re-opens it on every path of core.c).      *)
RxOpen ==
    stat_rx = "VALID" \/ ctr_rx \/ Handling("rx") \/ Resetting \/ daddr = -1

(* The same for the keyboard endpoint once the class is configured: a       *)
(* report is never overwritten in flight, and the endpoint never stays      *)
(* marked busy with nothing in it, through resets, repeated                 *)
(* SET_CONFIGURATIONs and completions that arrive late.                     *)
KeyboardTxAccounted ==
    initialised /\ ~Resetting =>
        (ep1.ready <=> ~(ep1.stat = "VALID" \/ ep1.ctr \/ Handling("tx1")))

(* The device takes its new address only after the host has seen the status *)
(* stage of SET_ADDRESS, and is then about to: it is at the address the     *)
(* host uses, or that address is pending (hw_usbd_at32f4.c:364-369).        *)
AddressAfterStatus ==
    ~Resetting /\ daddr # -1 =>
        daddr = haddr \/ (pending_addr # 0 /\ pending_addr = haddr)

(* The device ends up at the address the host uses.                         *)
AddressTaken == haddr # 0 ~> (daddr = haddr \/ haddr = 0)
=============================================================================
