------------------------------- MODULE Dblbuf -------------------------------
(***************************************************************************)
(* A double-buffered bulk endpoint of the USBD driver                      *)
(* (src/usb/hw_usbd_at32f4.c): a ring of buffers between the main loop and *)
(* IRQ_USB_HP, and the controller's two packet buffers behind it.          *)
(*                                                                         *)
(* The controller works on packet buffer dtog (EPR.DTOG), the driver on    *)
(* sw (EPR.SW_BUF); while the two are equal the endpoint answers NAK.  The *)
(* interrupt and the main loop share the ring indexes and the flag kick,   *)
(* which says that the interrupt has found nothing to do and will not come *)
(* again until the main loop runs its handler once.                        *)
(*                                                                         *)
(* One endpoint is modelled, in the direction it is configured for: the    *)
(* endpoints share no state, and both directions use the same fields of    *)
(* struct ep.  The handler is split where it releases a packet buffer to   *)
(* the controller, the read and the write of the main loop at each access  *)
(* to a field that the handler also uses.                                  *)
(***************************************************************************)
EXTENDS Integers, Sequences

CONSTANTS
    Packets,  \* what a packet can hold
    NONE,     \* no packet
    SPAN      \* the ring indexes count modulo SPAN: 2^16 in the code

ASSUME DblbufAssumption ==
    /\ SPAN \in Nat /\ SPAN > 2 /\ SPAN % 2 = 0
    /\ Packets # {} /\ NONE \notin Packets

VARIABLES
    in,          \* the endpoint is configured for IN (the device transmits)
    ring,        \* rx_buf or tx_buf
    bufc, bufp,  \* eps[].db.bufc and bufp: consumer and producer index
    kick,        \* eps[].db.kick
    slots,       \* eps[].db.tx_hw_slots
    is_dblbuf,   \* eps[].is_dblbuf
    valid,       \* EPR.STAT is VALID, not DISABLED
    dtog, sw,    \* the packet buffer of the controller and of the driver
    ctr,         \* EPR.CTR_RX or CTR_TX: IRQ_USB_HP is pending
    pma,         \* the two packet buffers
    thread,      \* where the main loop is in usbd_read or usbd_write
    handler,     \* where handle_dblbuf_rx_transfer or _tx_transfer is
    base,        \* the packet buffer that handler is to copy from
    tmp,         \* the packet that usbd_read has copied
    last         \* history: the packet that came out of the endpoint last

soft  == <<ring, bufc, bufp, kick, slots, is_dblbuf>>
hw    == <<valid, dtog, sw, ctr, pma>>
ends  == <<tmp, last>>
vars  == <<in, soft, hw, thread, handler, base, ends>>

NBUF == 2

\* Ring indexes are 16 bits wide and only their low bits select a buffer.
Inc(i) == IF i = SPAN - 1 THEN 0 ELSE i + 1
BUF_MASK(i) == i % NBUF
Used == IF bufp >= bufc THEN bufp - bufc ELSE bufp - bufc + SPAN

ThreadPcs == {"idle", "copied", "updated", "masked"}
HandlerPcs == {"none", "copy", "stuff"}
Bit == {0, 1}

TypeOK ==
    /\ in \in BOOLEAN
    /\ ring \in [Bit -> Packets] /\ pma \in [Bit -> Packets]
    /\ bufc \in 0..(SPAN - 1) /\ bufp \in 0..(SPAN - 1) /\ Used \in 0..NBUF
    /\ kick \in BOOLEAN /\ slots \in -1..2 /\ is_dblbuf \in BOOLEAN
    /\ valid \in BOOLEAN /\ dtog \in Bit /\ sw \in Bit /\ ctr \in BOOLEAN
    /\ thread \in ThreadPcs /\ handler \in HandlerPcs /\ base \in Bit
    /\ tmp \in Packets /\ last \in Packets \cup {NONE}

(* Nothing is configured.  What the buffers hold does not matter.           *)
Init ==
    /\ in = FALSE
    /\ \E p \in Packets :
          ring = [b \in Bit |-> p] /\ pma = [b \in Bit |-> p] /\ tmp = p
    /\ bufc = 0 /\ bufp = 0 /\ kick = FALSE /\ slots = 0
    /\ is_dblbuf = FALSE
    /\ valid = FALSE /\ dtog = 0 /\ sw = 0 /\ ctr = FALSE
    /\ thread = "idle" /\ handler = "none" /\ base = 0
    /\ last = NONE

-----------------------------------------------------------------------------
(* The host and the controller.                                             *)

HostOut(p) ==
    /\ valid /\ ~in /\ dtog # sw
    /\ pma' = [pma EXCEPT ![dtog] = p]
    /\ dtog' = 1 - dtog /\ ctr' = TRUE
    /\ UNCHANGED <<in, soft, valid, sw, thread, handler, base, ends>>

HostIn ==
    /\ valid /\ in /\ dtog # sw
    /\ last' = pma[dtog]
    /\ dtog' = 1 - dtog /\ ctr' = TRUE
    /\ UNCHANGED <<in, soft, valid, sw, pma, thread, handler, base, tmp>>

(* The controller disables the endpoint and clears EPR, but for the CTR     *)
(* bits: a completion just before the reset is still reported.              *)
BusReset ==
    /\ valid
    /\ valid' = FALSE /\ dtog' = 0 /\ sw' = 0
    /\ UNCHANGED <<in, soft, ctr, pma, thread, handler, base, ends>>

-----------------------------------------------------------------------------
(* The handler, run by the interrupt or, with the interrupt masked, by the  *)
(* main loop.                                                               *)

returns ==
    /\ handler' = "none"
    /\ thread' = IF thread = "masked" THEN "idle" ELSE thread

(* Receive.  With the ring full the packet is left in its packet buffer and *)
(* kick asks the main loop to come for it.  Otherwise the endpoint is given *)
(* its other packet buffer before this one is copied.                       *)
rx_ack_dropped == UNCHANGED ctr  \* variant of rx_ack: CTR_RX not cleared
rx_ack == ctr' = FALSE
rx_full_late == Used > NBUF      \* variant of rx_full: full one packet late
rx_full == Used = NBUF
rx_base_own == base' = sw        \* variant of rx_base: the other buffer
rx_base == base' = IF sw = 1 THEN 0 ELSE 1

handle_dblbuf_rx_transfer ==
    /\ \/ /\ rx_full
          /\ rx_ack
          /\ kick' = TRUE
          /\ returns
          /\ UNCHANGED <<sw, base>>
       \/ /\ ~rx_full
          /\ kick' = FALSE /\ ctr' = FALSE
          /\ sw' = 1 - sw /\ rx_base
          /\ handler' = "copy"
          /\ UNCHANGED thread
    /\ UNCHANGED <<in, ring, bufc, bufp, slots, is_dblbuf, valid, dtog, pma,
                   ends>>

rx_copy ==
    /\ handler = "copy"
    /\ ring' = [ring EXCEPT ![BUF_MASK(bufp)] = pma[base]]
    /\ bufp' = Inc(bufp)
    /\ returns
    /\ UNCHANGED <<in, bufc, kick, slots, is_dblbuf, hw, base, ends>>

(* Transmit.  n packets are in the packet buffers.  If there are none the   *)
(* next one of the ring is put there; then the endpoint is given the packet *)
(* buffer, and the other one is filled while it transmits.                  *)
stuff_dblbuf_tx_packet ==
    /\ pma' = [pma EXCEPT ![sw] = ring[BUF_MASK(bufc)]]
    /\ bufc' = Inc(bufc)

tx_idle_ring(n) == bufc = bufp   \* variant of tx_idle: packet buffers ignored
tx_idle(n) == bufc = bufp /\ n = 0

handle_dblbuf_tx_transfer(n) ==
    /\ kick' = tx_idle(n)
    /\ \/ /\ tx_idle(n)
          /\ slots' = n
          /\ returns
          /\ UNCHANGED <<bufc, sw, pma>>
       \/ /\ ~tx_idle(n)
          /\ \/ n = 0 /\ stuff_dblbuf_tx_packet /\ slots' = 1
             \/ n # 0 /\ slots' = n /\ UNCHANGED <<bufc, pma>>
          /\ sw' = 1 - sw
          /\ handler' = "stuff"
          /\ UNCHANGED thread
    /\ UNCHANGED <<in, ring, bufp, is_dblbuf, valid, dtog, base, ends>>

tx_fill == slots = 1 /\ bufc # bufp

tx_stuff ==
    /\ handler = "stuff"
    /\ \/ tx_fill /\ stuff_dblbuf_tx_packet /\ slots' = slots + 1
       \/ ~tx_fill /\ UNCHANGED <<bufc, pma, slots>>
    /\ returns
    /\ UNCHANGED <<in, ring, bufp, kick, is_dblbuf, valid, dtog, sw, ctr, base,
                   ends>>

IRQ_USB_HP ==
    /\ ctr /\ handler = "none" /\ thread # "masked"
    /\ \/ ~in /\ handle_dblbuf_rx_transfer
       \/ in /\ handle_dblbuf_tx_transfer(slots - 1) /\ ctr' = FALSE

-----------------------------------------------------------------------------
(* The main loop.                                                           *)

running(pc) == thread = pc /\ handler = "none"

(* ep_rx_ready, then the copy of usbd_read.                                 *)
read_copy ==
    /\ running("idle") /\ is_dblbuf /\ ~in /\ bufc # bufp
    /\ tmp' = ring[BUF_MASK(bufc)]
    /\ thread' = "copied"
    /\ UNCHANGED <<in, soft, hw, handler, base, last>>

read_update ==
    /\ running("copied") /\ ~in
    /\ bufc' = Inc(bufc)
    /\ last' = tmp
    /\ thread' = "updated"
    /\ UNCHANGED <<in, ring, bufp, kick, slots, is_dblbuf, hw, handler, base,
                   tmp>>

(* ep_tx_ready, then the copy of usbd_write.                                *)
tx_room == Used < NBUF

write_copy(p) ==
    /\ running("idle") /\ is_dblbuf /\ in /\ tx_room
    /\ ring' = [ring EXCEPT ![BUF_MASK(bufp)] = p]
    /\ thread' = "copied"
    /\ UNCHANGED <<in, bufc, bufp, kick, slots, is_dblbuf, hw, handler, base,
                   ends>>

write_update ==
    /\ running("copied") /\ in
    /\ bufp' = Inc(bufp)
    /\ thread' = "updated"
    /\ UNCHANGED <<in, ring, bufc, kick, slots, is_dblbuf, hw, handler, base,
                   ends>>

(* The test of kick, before the interrupt is masked and after.              *)
test_kick ==
    /\ running("updated")
    /\ thread' = IF kick THEN "masked" ELSE "idle"
    /\ UNCHANGED <<in, soft, hw, handler, base, ends>>

retest_kick ==
    /\ running("masked")
    /\ IF kick
       THEN \/ ~in /\ handle_dblbuf_rx_transfer
            \/ in /\ handle_dblbuf_tx_transfer(slots) /\ UNCHANGED ctr
       ELSE returns /\ UNCHANGED <<in, soft, hw, base, ends>>

(* handle_reset clears the soft state.                                      *)
handle_reset ==
    /\ running("idle") /\ is_dblbuf /\ ~valid
    /\ is_dblbuf' = FALSE /\ kick' = FALSE
    /\ bufc' = 0 /\ bufp' = 0 /\ slots' = 0
    /\ UNCHANGED <<in, ring, hw, thread, handler, base, ends>>

(* usbd_configure_ep, after a reset: a transmitting endpoint waits for the  *)
(* main loop, a receiving one has its first packet buffer with the          *)
(* controller.                                                              *)
configure_tx_waits == kick' = FALSE    \* variant of configure_kick
configure_kick == kick' = in'

usbd_configure_ep ==
    /\ running("idle") /\ ~is_dblbuf /\ ~valid
    /\ in' \in BOOLEAN
    /\ is_dblbuf' = TRUE
    /\ bufc' = 0 /\ bufp' = 0 /\ slots' = 0
    /\ configure_kick
    /\ dtog' = 0 /\ sw' = (IF in' THEN 0 ELSE 1)
    /\ ctr' = FALSE /\ valid' = TRUE
    /\ last' = NONE
    /\ UNCHANGED <<ring, pma, thread, handler, base, tmp>>

-----------------------------------------------------------------------------
Handler == IRQ_USB_HP \/ rx_copy \/ tx_stuff
\* The main loop reads whenever there is something to read, and ends what it
\* has begun.  Whether it writes is up to it.
Reader == read_copy \/ read_update \/ write_update \/ test_kick \/ retest_kick
HostMoves == HostIn \/ \E p \in Packets : HostOut(p)

Next ==
    \/ Handler \/ Reader \/ HostMoves
    \/ \E p \in Packets : write_copy(p)
    \/ BusReset \/ handle_reset \/ usbd_configure_ep

Spec == Init /\ [][Next]_vars
FairSpec == Spec /\ WF_vars(Handler) /\ WF_vars(Reader) /\ WF_vars(HostIn)

-----------------------------------------------------------------------------
(* Correctness.                                                             *)

live == is_dblbuf /\ valid

(* No wakeup is lost: an endpoint that answers NAK with no interrupt        *)
(* pending, nobody at work on it and nothing announced by kick would never  *)
(* move again.  It is a full ring that stops the receiver, and an empty one *)
(* that stops the transmitter (hw_usbd_at32f4.c:155-160, 185-190, 415-425,  *)
(* 481-483).                                                                *)
Armed ==
    live /\ dtog = sw /\ ~ctr /\ handler = "none" /\ thread = "idle"
    => kick /\ Used = (IF in THEN 0 ELSE NBUF)

(* The unmasked test of kick is safe: the interrupt does not run while kick *)
(* is set, so what the main loop has seen still holds when it has masked    *)
(* the interrupt (hw_usbd_at32f4.c:156-161, 186-191).                       *)
KickStands == thread = "masked" /\ handler = "none" => kick /\ ~ctr

-----------------------------------------------------------------------------
(* The endpoint implements Fifo.  What is inside, oldest first: received,   *)
(* the ring, the packet being copied and the one the controller holds; to   *)
(* send, the packets the controller holds and the ring.                     *)

Upto(n, a, b) == IF n = 0 THEN <<>> ELSE IF n = 1 THEN <<a>> ELSE <<a, b>>
RingQueue == Upto(Used, ring[BUF_MASK(bufc)], ring[1 - BUF_MASK(bufc)])
Copying == IF handler = "copy" THEN <<pma[base]>> ELSE <<>>
Held == IF dtog = sw THEN <<pma[1 - dtog]>> ELSE <<>>
Unsent == slots - (IF ctr THEN 1 ELSE 0)
Sending == Upto(Unsent, pma[dtog], pma[1 - dtog])

Inside ==
    IF ~live THEN <<>>
    ELSE IF in THEN Sending \o RingQueue
    ELSE (RingQueue \o Copying) \o Held
Outside == IF live THEN last ELSE NONE

Fifo == INSTANCE Fifo WITH
    queue <- Inside, last <- Outside

(* Each packet that goes in at one end comes out at the other, once and in  *)
(* order, whatever the interrupt, the main loop and the controller          *)
(* interrupt in each other (hw_usbd_at32f4.c:405-491).                      *)
FifoSpec == Fifo!Spec

(* And it does come out, unless the bus is reset first.                     *)
PacketsComeOut == Fifo!Progress
=============================================================================
