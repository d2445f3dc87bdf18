------------------------------- MODULE DwcOtg -------------------------------
(***************************************************************************)
(* The DWC-OTG controller driver (src/usb/hw_dwc_otg.c) running the        *)
(* control-transfer machine of UsbCore, polled by the main loop.           *)
(*                                                                         *)
(* What endpoint 0 receives goes through the controller's receive FIFO,    *)
(* which also holds an entry for the end of a SETUP stage and one for the  *)
(* end of an OUT transfer; popping those raises the interrupt that the     *)
(* next poll handles.  One poll is split into its sections: gint is what   *)
(* is left of the interrupt status it read at its start.                   *)
(*                                                                         *)
(* A failed ASSERT stops the debug build (pc = "illegal"); the release     *)
(* build does not test it, and goes on.                                    *)
(***************************************************************************)
EXTENDS UsbHost, Sequences

CONSTANTS
    Resends,   \* the host may miss the ACK of a SETUP and send it again
    Builds,    \* of the program: some of "debug" and "release"
    RXF_CAP,   \* bound: the host sends a SETUP only to a FIFO shorter than this
    RING_CAP   \* bound: ... and repeats one only if fewer are unread

ASSUME DwcAssumption ==
    /\ Resends \in BOOLEAN /\ Builds \subseteq {"debug", "release"}
    /\ RXF_CAP \in Nat /\ RING_CAP \in Nat

VARIABLES
    build,        \* never changes
    repeated,     \* history: a SETUP was repeated since configure_ep0
    rxf,          \* the receive FIFO
    setup_open,   \* a SETUP stage whose end has not been seen by the controller
    armed,        \* DOEPCTL0.EPENA, NAK clear: an OUT packet is accepted
    stall,        \* DIEPCTL0.STALL and DOEPCTL0.STALL
    oint,         \* DOEPINT0: "none", "xfrc" or "stup"
    xfrc_in,      \* DIEPINT0.XFRC
    usbrst,       \* GINTSTS.USBRST
    enumdne,      \* GINTSTS.ENUMDNE
    line,         \* the bus: "off", "reset", or "up" once the speed is known
    dad,          \* DCFG.DAD
    rx_active,    \* eps[0].rx_active
    rx_count,     \* eps[0].rxp - eps[0].rxc, in a ring of RX_NR
    rx_slot,      \* what was last written to the ring
    ep1,          \* the keyboard endpoint: tx_ready, its IN state, its XFRC
    initialised,  \* keyboard.c: the class has been configured
    pc,           \* "poll", "process" or "illegal"
    gint          \* sections of this poll yet to run

rx0   == <<armed, rx_active, rx_count, rx_slot>>
class == <<ep1, initialised>>
bus   == <<usbrst, enumdne, line>>
ghost == <<build, repeated>>
vars  == <<core, rxf, setup_open, stall, oint, xfrc_in, bus, dad, rx0, class,
           pc, gint, host, ghost>>

RX_NR == 1     \* ARRAY_SIZE(rx_buf0)
Sections == {"oep", "iep", "enum", "rst", "rxf"}
Entries == [sts: {"setup", "setup_comp", "data", "data_comp"},
            req: Requests, len: Nat]
Endpoints == [ready: BOOLEAN, stat: TxStats, ctr: BOOLEAN]

DriverTypeOK ==
    /\ rxf \in Seq(Entries)
    /\ setup_open \in BOOLEAN /\ armed \in BOOLEAN /\ stall \in BOOLEAN
    /\ oint \in {"none", "xfrc", "stup"} /\ xfrc_in \in BOOLEAN
    /\ usbrst \in BOOLEAN /\ enumdne \in BOOLEAN
    /\ line \in {"off", "reset", "up"}
    /\ dad \in Nat
    /\ rx_active \in BOOLEAN /\ rx_count \in Int /\ rx_slot \in Entries
    /\ ep1 \in Endpoints /\ initialised \in BOOLEAN
    /\ pc \in {"poll", "process", "illegal"} /\ gint \in SUBSET Sections

TypeOK ==
    /\ CoreTypeOK /\ HostTypeOK /\ DriverTypeOK
    /\ build \in Builds /\ repeated \in BOOLEAN
    /\ ~repeated => rx_count \in 0..RX_NR

Entry(sts, r, len) == [sts |-> sts, req |-> r, len |-> len]

(* dwc_otg_init: every interrupt acknowledged, FIFOs flushed, endpoints off. *)
Init ==
    /\ req \in Requests /\ data = req
    /\ data_len = 0 /\ todo = 0 /\ trunc = FALSE /\ p = 0
    /\ tx_ready = FALSE /\ stat_tx = "DISABLED"
    /\ txbuf = [src |-> req, off |-> 0, len |-> 0]
    /\ rxf = <<>> /\ setup_open = FALSE /\ armed = FALSE /\ stall = FALSE
    /\ oint = "none" /\ xfrc_in = FALSE
    /\ usbrst = FALSE /\ enumdne = FALSE /\ line = "off" /\ dad = 0
    /\ rx_active = FALSE /\ rx_count = 0 /\ rx_slot = Entry("data", req, 0)
    /\ ep1 = [ready |-> FALSE, stat |-> "DISABLED", ctr |-> FALSE]
    /\ initialised = FALSE
    /\ pc = "poll" /\ gint = {}
    /\ HostInit /\ hreq = req
    /\ build \in Builds /\ repeated = FALSE

-----------------------------------------------------------------------------
(* The host and the controller.                                             *)

up == line = "up"

\* The status stage of SET_ADDRESS still goes to the old address.
Addressed == up /\ (dad = haddr \/ (hphase = "status" /\ hreq.act = "setaddr"))

(* A SETUP is always accepted: both directions then answer NAK and are no   *)
(* longer stalled.  The host waits 10 ms after a bus reset.                 *)
SetupArrives(r) ==
    /\ Len(rxf) < RXF_CAP
    /\ rxf' = Append(rxf, Entry("setup", r, 8))
    /\ setup_open' = TRUE
    /\ armed' = FALSE /\ stall' = FALSE /\ stat_tx' = "NAK"
    /\ UNCHANGED <<ep0, tx_ready, txbuf, oint, xfrc_in, bus, dad, rx_active,
                   rx_count, rx_slot, class, pc, gint, build>>

HostSetup(r) ==
    /\ up /\ dad = haddr /\ ~setup_open
    /\ ~enumdne /\ "enum" \notin gint
    /\ HostBegins(r)
    /\ SetupArrives(r)
    /\ UNCHANGED repeated

(* The host saw no ACK of the SETUP, and sends it again.                    *)
HostResendsSetup ==
    /\ Resends /\ Addressed /\ setup_open /\ hphase # "idle"
    /\ rx_count + Len(rxf) < RING_CAP
    /\ SetupArrives(hreq)
    /\ repeated' = TRUE
    /\ UNCHANGED host

(* The first token after a SETUP ends its stage; it is answered NAK.        *)
HostToken ==
    /\ Addressed /\ setup_open /\ hphase # "idle"
    /\ rxf' = Append(rxf, Entry("setup_comp", hreq, 0))
    /\ setup_open' = FALSE
    /\ armed' = FALSE
    /\ UNCHANGED <<core, stall, oint, xfrc_in, bus, dad, rx_active, rx_count,
                   rx_slot, class, pc, gint, host, ghost>>

HostIn ==
    /\ Addressed /\ ~setup_open /\ stat_tx = "VALID" /\ ~stall
    /\ HostTakesPacket
    /\ \/ xfrc_in' = TRUE /\ stat_tx' = "NAK" /\ dup' = FALSE
       \/ Lossy /\ dup' = TRUE /\ UNCHANGED <<xfrc_in, stat_tx>>
    /\ UNCHANGED <<ep0, tx_ready, txbuf, rxf, setup_open, stall, oint, bus,
                   dad, rx0, class, pc, gint, ghost>>

\* An OUT packet completes the transfer the driver armed for one packet.
HostOut ==
    /\ Addressed /\ ~setup_open /\ armed /\ ~stall
    /\ HostSendsOut
    /\ rxf' = rxf \o <<Entry("data", hreq, HostOutLen),
                       Entry("data_comp", hreq, 0)>>
    /\ armed' = FALSE
    /\ UNCHANGED <<core, setup_open, stall, oint, xfrc_in, bus, dad, rx_active,
                   rx_count, rx_slot, class, pc, gint, ghost>>

HostStalled ==
    /\ Addressed /\ ~setup_open /\ stall
    /\ HostTakesStall
    /\ UNCHANGED <<core, rxf, setup_open, stall, oint, xfrc_in, bus, dad, rx0,
                   class, pc, gint, ghost>>

HostPollsKeyboard ==
    /\ up /\ dad = haddr /\ initialised /\ ep1.stat = "VALID"
    /\ ep1' = [ep1 EXCEPT !.stat = "NAK", !.ctr = TRUE]
    /\ UNCHANGED <<core, rxf, setup_open, stall, oint, xfrc_in, bus, dad, rx0,
                   initialised, pc, gint, host, ghost>>

(* A bus reset deactivates the endpoints; the receive FIFO is empty.        *)
BusReset ==
    /\ usbrst' = TRUE /\ enumdne' = FALSE /\ line' = "reset"
    /\ rxf' = <<>> /\ setup_open' = FALSE
    /\ armed' = FALSE /\ stall' = FALSE
    /\ stat_tx' = "DISABLED"
    /\ ep1' = [ep1 EXCEPT !.stat = "DISABLED"]
    /\ HostSeesReset
    /\ UNCHANGED <<ep0, tx_ready, txbuf, oint, xfrc_in, dad, rx_active,
                   rx_count, rx_slot, initialised, pc, gint, ghost>>

(* The reset lasts 10 ms, in which the program has handled its beginning.   *)
EnumerationDone ==
    /\ line = "reset" /\ ~usbrst
    /\ enumdne' = TRUE /\ line' = "up"
    /\ UNCHANGED <<core, rxf, setup_open, stall, oint, xfrc_in, usbrst, dad,
                   rx0, class, pc, gint, host, ghost>>

-----------------------------------------------------------------------------
(* The program.                                                             *)

(* dwc_otg_process reads GINTSTS; its sections then run in this order.      *)
Earlier == [oep |-> {}, iep |-> {"oep"}, enum |-> {"oep", "iep"},
            rst |-> {"oep", "iep", "enum"},
            rxf |-> {"oep", "iep", "enum", "rst"}]

(* Endpoint 1 is in daintmsk from its configuration to handle_reset.        *)
xfrc_in1 == initialised /\ ep1.ctr

dwc_otg_process ==
    /\ pc = "poll"
    /\ gint' = {s \in Sections :
                  \/ s = "oep" /\ oint # "none"
                  \/ s = "iep" /\ (xfrc_in \/ xfrc_in1)
                  \/ s = "enum" /\ enumdne
                  \/ s = "rst" /\ usbrst
                  \/ s = "rxf" /\ rxf # <<>>}
    /\ pc' = "process"
    /\ UNCHANGED <<core, rxf, setup_open, stall, oint, xfrc_in, bus, dad, rx0,
                   class, host, ghost>>

Reached(s) == pc = "process" /\ s \in gint /\ gint \cap Earlier[s] = {}
Section(s) == Reached(s) /\ gint' = gint \ {s}

ASSERT(cond) == cond \/ build = "release"

(* dwc_otg_configure_ep on the class endpoints leaves an endpoint that is   *)
(* already active as it is, but for the soft flag.                          *)
hid_set_configuration ==
    /\ ep1' = [ep1 EXCEPT !.ready = TRUE,
                          !.stat = IF @ = "DISABLED" THEN "NAK" ELSE @]
    /\ initialised' = TRUE

accept(r) ==
    /\ DeviceActs(r)
    /\ dad' = IF r.act = "setaddr" THEN r.addr ELSE dad
    /\ IF r.act = "setconf" THEN hid_set_configuration ELSE UNCHANGED class

no_request == UNCHANGED <<acted, dad, class>>

(* dwc_otg_read takes a packet from the ring and, if there is now room,     *)
(* arms the endpoint for another (prepare_rx).  The room is a uint16_t: a   *)
(* ring that is still over-full has plenty.                                 *)
room(count) == (RX_NR - count) % 65536

read_stays ==                    \* variant of dwc_otg_read: rxc not advanced
    /\ rx_count' = rx_count
    /\ rx_active' = TRUE /\ armed' = TRUE
    /\ UNCHANGED rx_slot
read_only ==                     \* variant of dwc_otg_read: no prepare_rx
    /\ rx_count' = rx_count - 1
    /\ rx_active' = TRUE /\ UNCHANGED armed
    /\ UNCHANGED rx_slot
dwc_otg_read ==
    /\ rx_count' = rx_count - 1
    /\ rx_active' = (room(rx_count') > RX_NR \div 2)
    /\ armed' = (armed \/ rx_active')
    /\ UNCHANGED rx_slot

(* handle_oepint on endpoint 0: a received packet or SETUP is complete.     *)
handle_oepint ==
    /\ Section("oep") /\ oint # "none"
    /\ ASSERT(rx_active)
    /\ oint' = "none"
    /\ \/ /\ oint = "xfrc"
          /\ handle_rx_out(rx_slot.len)
          /\ IF data_ready(rx_slot.len) /\ handled(req)
             THEN accept(req) ELSE no_request
       \/ /\ oint = "stup"
          /\ handle_rx_setup(rx_slot.req)
          /\ IF setup_ready(rx_slot.req) /\ handled(rx_slot.req)
             THEN accept(rx_slot.req) ELSE no_request
    /\ dwc_otg_read
    /\ stall' = (stall \/ stat_tx' = "STALL")
    /\ UNCHANGED <<rxf, setup_open, xfrc_in, bus, pc, xfer, dup, ghost>>

(* handle_iepint on endpoints 0 and 1, if their interrupt is pending.       *)
handle_iepint ==
    /\ Section("iep")
    /\ IF xfrc_in THEN handle_tx_ep0 ELSE UNCHANGED core
    /\ ep1' = IF xfrc_in1 THEN [ep1 EXCEPT !.ready = TRUE, !.ctr = FALSE]
              ELSE ep1
    /\ xfrc_in' = FALSE
    /\ UNCHANGED <<rxf, setup_open, stall, oint, bus, dad, rx0, initialised,
                   pc, host, ghost>>

(* dwc_otg_configure_ep on endpoint 0, which arms it to receive.            *)
configure_rx_ep0 ==              \* variant: the transmit side is forgotten
    /\ UNCHANGED tx_ready /\ stat_tx' = "NAK"
    /\ rx_count' = 0 /\ rx_active' = TRUE /\ armed' = TRUE
configure_ep0 ==
    /\ tx_ready' = TRUE /\ stat_tx' = "NAK"
    /\ rx_count' = 0 /\ rx_active' = TRUE /\ armed' = TRUE

(* The ENUMDNE section: the speed is known, endpoint 0 can be used.         *)
enumeration_done ==
    /\ Section("enum")
    /\ configure_ep0
    /\ repeated' = FALSE
    /\ enumdne' = FALSE
    /\ UNCHANGED <<ep0, txbuf, rxf, setup_open, stall, oint, xfrc_in, usbrst,
                   line, dad, rx_slot, class, pc, host, build>>

(* handle_reset: the controller's endpoints are deactivated and its         *)
(* transmit FIFOs flushed, the address is 0, and the soft state of the      *)
(* endpoints, of the class and of the control transfer is cleared.          *)
handle_reset ==
    /\ Section("rst")
    /\ usbrst' = FALSE
    /\ dad' = 0
    /\ stall' = FALSE /\ stat_tx' = "DISABLED"
    /\ initialised' = FALSE
    /\ ep1' = [ep1 EXCEPT !.ready = FALSE, !.stat = "DISABLED"]
    /\ tx_ready' = FALSE
    /\ rx_active' = FALSE /\ rx_count' = 0
    /\ data_len' = -1 /\ todo' = -1
    /\ UNCHANGED <<req, data, trunc, p, txbuf, rxf, setup_open, oint, xfrc_in,
                   enumdne, line, armed, rx_slot, pc, host, ghost>>

(* handle_rx_transfer pops one entry of the FIFO.  A packet goes into the   *)
(* ring; the end of a stage raises the endpoint's interrupt.                *)
HasRoom == rx_active /\ rx_count % 65536 < RX_NR

handle_rx_transfer ==
    /\ Section("rxf")
    /\ \/ /\ rxf # <<>> /\ rxf' = Tail(rxf)
          /\ \/ /\ Head(rxf).sts \in {"setup", "data"} /\ ASSERT(HasRoom)
                /\ rx_slot' = Head(rxf) /\ rx_count' = rx_count + 1
                /\ UNCHANGED <<oint, armed>>
             \/ /\ Head(rxf).sts = "setup_comp"
                /\ oint' = "stup" /\ armed' = FALSE
                /\ UNCHANGED <<rx_slot, rx_count>>
             \/ /\ Head(rxf).sts = "data_comp"
                /\ oint' = "xfrc"
                /\ UNCHANGED <<rx_slot, rx_count, armed>>
       \/ /\ rxf = <<>>              \* emptied by a reset since it was tested
          /\ UNCHANGED <<rxf, oint, rx_slot, rx_count, armed>>
    /\ UNCHANGED <<core, setup_open, stall, xfrc_in, bus, dad, rx_active,
                   class, pc, host, ghost>>

(* The ASSERTs of handle_oepint and handle_rx_transfer.                     *)
AssertFails ==
    \/ Reached("oep") /\ ~rx_active
    \/ /\ Reached("rxf") /\ rxf # <<>> /\ Head(rxf).sts \in {"setup", "data"}
       /\ ~HasRoom

illegal ==
    /\ build = "debug" /\ AssertFails
    /\ pc' = "illegal"
    /\ UNCHANGED <<core, rxf, setup_open, stall, oint, xfrc_in, bus, dad, rx0,
                   class, gint, host, ghost>>

keyboard_process ==
    /\ pc = "process" /\ gint = {}
    /\ \/ /\ initialised /\ ep1.ready
          /\ ep1' = [ep1 EXCEPT !.ready = FALSE, !.stat = "VALID"]
       \/ UNCHANGED ep1
    /\ pc' = "poll"
    /\ UNCHANGED <<core, rxf, setup_open, stall, oint, xfrc_in, bus, dad, rx0,
                   initialised, gint, host, ghost>>

-----------------------------------------------------------------------------
Program ==
    \/ dwc_otg_process \/ handle_oepint \/ handle_iepint \/ enumeration_done
    \/ handle_reset \/ handle_rx_transfer \/ illegal \/ keyboard_process

HostMoves == HostToken \/ HostIn \/ HostOut \/ HostStalled

Next ==
    \/ Program
    \/ HostMoves
    \/ \E r \in Requests : HostSetup(r)
    \/ HostResendsSetup
    \/ HostPollsKeyboard
    \/ BusReset
    \/ EnumerationDone

Spec == Init /\ [][Next]_vars
FairSpec == Spec /\ WF_vars(Program) /\ WF_vars(HostMoves)

-----------------------------------------------------------------------------
(* Correctness.                                                             *)

\* Between a bus reset and the configuration of endpoint 0 that follows it.
Resetting == ~up \/ enumdne \/ "enum" \in gint

(* Unless the host has repeated a SETUP since endpoint 0 was configured,    *)
(* the ASSERTs of the driver hold (hw_dwc_otg.c:362, 363, 381, 388): no     *)
(* packet is popped, and no completion handled, with the ring full or the   *)
(* endpoint not armed, in the build that tests it and in the one that does  *)
(* not.                                                                     *)
AssertsHold == ~repeated => ~AssertFails

(* The soft flag tx_ready of endpoint 0 agrees with the controller, and,    *)
(* between transfers, the device's address with the host's, although it is  *)
(* set before the status stage of SET_ADDRESS (hw_dwc_otg.c:227-239,        *)
(* 397-410, 298-304).                                                       *)
Accounted ==
    ~Resetting =>
        /\ tx_ready <=> ~(stat_tx = "VALID" \/ xfrc_in)
        /\ hphase = "idle" => dad = haddr

(* Endpoint 0 never goes deaf unless the host repeats a SETUP, and is       *)
(* cured of that by a bus reset: it refuses OUT packets only while the end  *)
(* of a stage is on its way to the handler that arms it again, and the      *)
(* program runs (hw_dwc_otg.c:72-95, 227-233, 318-395).  A packet alone     *)
(* would not do: nothing is done with it before the end of its stage.       *)
EndOfStage(e) == e.sts \in {"setup_comp", "data_comp"}
HasEnd(s) == \E i \in DOMAIN s : EndOfStage(s[i])
RxOpen ==
    ~repeated =>
        /\ Resetting \/ armed \/ setup_open \/ oint # "none" \/ HasEnd(rxf)
        /\ pc # "illegal"

=============================================================================
