---------------------------- MODULE DblbufProof ----------------------------
(***************************************************************************)
(* Proofs about Dblbuf, for every set of packets and every width of the    *)
(* ring indexes: type correctness, that no wakeup is lost (Armed), that    *)
(* the main loop may test kick with the interrupt enabled (KickStands),    *)
(* and that the endpoint implements Fifo (FifoSpec).                       *)
(***************************************************************************)
EXTENDS Dblbuf, SequenceTheorems, TLAPS

(* Where the main loop is, and what it has checked before it came there.    *)
ThreadInv ==
    /\ valid => is_dblbuf
    /\ thread # "idle" => is_dblbuf
    /\ thread = "copied" /\ in => Used < NBUF
    /\ thread = "copied" /\ ~in => Used > 0
    /\ thread = "masked" => kick \/ handler # "none"

HandlerInv ==
    /\ handler = "copy" => ~in /\ Used < NBUF
    /\ handler = "stuff" => in

(* kick is set only while the handler has nothing to do.                    *)
KickInv ==
    kick => ~ctr /\ handler = "none" /\ (valid => dtog = sw) /\ (in => slots = 0)

(* The endpoint answers NAK after a packet until the handler has run, and   *)
(* after that only for want of room or of packets.                          *)
NakInv ==
    valid =>
        /\ dtog # sw => ~ctr /\ (in => slots \in 1..2)
        /\ dtog = sw /\ ~ctr => kick

RingInv ==
    valid /\ kick =>
        \/ Used = (IF in THEN 0 ELSE NBUF)
        \/ thread \in {"updated", "masked"}

(* A completion is one of a filled packet buffer, until the soft state is   *)
(* cleared by a reset.                                                      *)
SlotsInv ==
    in =>
        /\ is_dblbuf => slots \in 0..2
        /\ ctr => slots \in 0..2
        /\ ctr /\ is_dblbuf => slots \in 1..2

IInv ==
    /\ TypeOK /\ ThreadInv /\ HandlerInv /\ KickInv /\ NakInv /\ RingInv
    /\ SlotsInv

-----------------------------------------------------------------------------
(* The ring.                                                                *)

LEMMA IncType ==
    ASSUME NEW i \in 0..(SPAN - 1)
    PROVE  Inc(i) \in 0..(SPAN - 1) /\ BUF_MASK(i) \in Bit
BY DblbufAssumption DEF Inc, BUF_MASK, NBUF, Bit

(* The consumer frees a buffer, the producer fills one.                     *)
LEMMA Consumed ==
    ASSUME TypeOK, Used > 0, bufc' = Inc(bufc), bufp' = bufp
    PROVE  Used' = Used - 1 /\ Used' \in 0..NBUF
BY DblbufAssumption DEF TypeOK, Used, Inc, NBUF

LEMMA Produced ==
    ASSUME TypeOK, Used < NBUF, bufp' = Inc(bufp), bufc' = bufc
    PROVE  Used' = Used + 1 /\ Used' \in 0..NBUF
BY DblbufAssumption DEF TypeOK, Used, Inc, NBUF

LEMMA Emptied ==
    ASSUME TypeOK
    PROVE  bufc = bufp <=> Used = 0
BY DblbufAssumption DEF TypeOK, Used

LEMMA SameRing ==
    ASSUME UNCHANGED <<bufc, bufp>>
    PROVE  Used' = Used
BY DEF Used

-----------------------------------------------------------------------------
(* The invariant holds at the start and every step keeps it.                *)

LEMMA InitIInv == Init => IInv
<1> SUFFICES ASSUME Init PROVE IInv
  OBVIOUS
<1>1. ring \in [Bit -> Packets] /\ pma \in [Bit -> Packets] /\ tmp \in Packets
  BY DEF Init
<1>2. bufc \in 0..(SPAN - 1) /\ bufp \in 0..(SPAN - 1) /\ Used \in 0..NBUF
  BY DblbufAssumption DEF Init, Used, NBUF
<1>3. /\ in \in BOOLEAN /\ kick \in BOOLEAN /\ is_dblbuf \in BOOLEAN
      /\ valid \in BOOLEAN /\ ctr \in BOOLEAN
  BY DEF Init
<1>4. /\ slots \in -1..2 /\ dtog \in Bit /\ sw \in Bit /\ base \in Bit
      /\ thread \in ThreadPcs /\ handler \in HandlerPcs
      /\ last \in Packets \cup {NONE}
  BY DEF Init, Bit, ThreadPcs, HandlerPcs
<1>5. TypeOK
  BY <1>1, <1>2, <1>3, <1>4 DEF TypeOK
<1> QED
  BY <1>5 DEF Init, IInv, ThreadInv, HandlerInv, KickInv, NakInv, RingInv,
     SlotsInv

LEMMA HostSteps ==
    ASSUME IInv, HostIn \/ (\E p \in Packets : HostOut(p)) \/ BusReset
    PROVE  IInv'
<1> USE SameRing DEF soft, ends
<1>1. CASE HostIn
  BY <1>1 DEF HostIn, IInv, TypeOK, ThreadInv, HandlerInv, KickInv, NakInv,
       RingInv, SlotsInv, Bit, NBUF
<1>2. CASE \E p \in Packets : HostOut(p)
  BY <1>2 DEF HostOut, IInv, TypeOK, ThreadInv, HandlerInv, KickInv, NakInv,
       RingInv, SlotsInv, Bit, NBUF
<1>3. CASE BusReset
  BY <1>3 DEF BusReset, IInv, TypeOK, ThreadInv, HandlerInv, KickInv, NakInv,
       RingInv, SlotsInv, Bit, NBUF
<1> QED
  BY <1>1, <1>2, <1>3

(* The receive handler, from the interrupt or from usbd_read.               *)
LEMMA RxSteps ==
    ASSUME IInv, ~in, handler = "none", thread # "masked" <=> ctr,
           thread = "masked" => kick,
           handle_dblbuf_rx_transfer
    PROVE  IInv'
<1> USE SameRing DEF ends, returns
<1>1. TypeOK'
  <2>1. sw' \in Bit /\ base' \in Bit
    BY DEF handle_dblbuf_rx_transfer, rx_base, IInv, TypeOK, Bit
  <2>2. thread' \in ThreadPcs /\ handler' \in HandlerPcs
    BY DEF handle_dblbuf_rx_transfer, IInv, TypeOK, ThreadPcs, HandlerPcs
  <2>3. kick' \in BOOLEAN /\ ctr' \in BOOLEAN
    BY DEF handle_dblbuf_rx_transfer, rx_ack
  <2>4. UNCHANGED <<in, ring, bufc, bufp, slots, is_dblbuf, valid, dtog, pma,
                    tmp, last>>
    BY DEF handle_dblbuf_rx_transfer
  <2>5. Used' = Used
    BY <2>4, SameRing
  <2> QED
    BY <2>1, <2>2, <2>3, <2>4, <2>5 DEF IInv, TypeOK
<1>2. ThreadInv' /\ HandlerInv'
  BY DEF handle_dblbuf_rx_transfer, rx_full, rx_ack, rx_base, IInv, TypeOK,
         ThreadInv, HandlerInv, NBUF
<1>3. KickInv' /\ NakInv' /\ RingInv' /\ SlotsInv'
  BY DEF handle_dblbuf_rx_transfer, rx_full, rx_ack, rx_base, IInv, TypeOK,
         KickInv, NakInv, RingInv, SlotsInv, Bit
<1> QED
  BY <1>1, <1>2, <1>3 DEF IInv

LEMMA RxCopyStep == ASSUME IInv, rx_copy PROVE IInv'
<1> USE DEF rx_copy, returns, hw, ends
<1>1. Used' = Used + 1 /\ Used' \in 0..NBUF
  BY Produced DEF IInv, HandlerInv
<1>2. TypeOK'
  BY <1>1, IncType DEF IInv, TypeOK, Bit, HandlerPcs, ThreadPcs
<1>3. ThreadInv' /\ HandlerInv' /\ KickInv' /\ NakInv' /\ RingInv' /\ SlotsInv'
  BY <1>1 DEF IInv, TypeOK, ThreadInv, HandlerInv, KickInv, NakInv, RingInv,
     SlotsInv, NBUF
<1> QED
  BY <1>2, <1>3 DEF IInv

(* The transmit handler: the n packets it finds in the packet buffers.      *)
LEMMA TxSteps ==
    ASSUME IInv, in, handler = "none", NEW n,
           \/ thread = "masked" /\ kick /\ n = slots /\ ctr' = ctr
           \/ thread # "masked" /\ ctr /\ n = slots - 1 /\ ctr' = FALSE,
           handle_dblbuf_tx_transfer(n)
    PROVE  IInv'
<1> USE DEF returns, ends, hw
<1>1. n \in -1..1 /\ (is_dblbuf => n \in 0..1) /\ ctr' = FALSE
      /\ (valid => dtog = sw)
  BY DEF IInv, TypeOK, KickInv, SlotsInv, ThreadInv, NakInv, Bit
<1>2. CASE tx_idle(n)
  <2>1. Used' = Used /\ Used = 0 /\ n = 0
    BY <1>2, Emptied, SameRing DEF handle_dblbuf_tx_transfer, tx_idle, IInv
  <2>2. TypeOK'
    <3>1. thread' \in ThreadPcs /\ handler' \in HandlerPcs /\ kick' \in BOOLEAN
      BY <1>2 DEF handle_dblbuf_tx_transfer, tx_idle, IInv, TypeOK, ThreadPcs,
         HandlerPcs
    <3>2. UNCHANGED <<in, ring, bufc, bufp, pma, sw, is_dblbuf, valid, dtog,
                      base, tmp, last>>
          /\ slots' = 0
      BY <1>2, <2>1 DEF handle_dblbuf_tx_transfer
    <3>3. ctr' \in BOOLEAN
      BY <1>1
    <3> QED
      BY <2>1, <3>1, <3>2, <3>3 DEF IInv, TypeOK
  <2>3. ThreadInv' /\ HandlerInv' /\ KickInv' /\ NakInv' /\ RingInv' /\ SlotsInv'
    BY <1>1, <1>2, <2>1 DEF handle_dblbuf_tx_transfer, tx_idle, IInv, TypeOK,
       ThreadInv, HandlerInv, KickInv, NakInv, RingInv, SlotsInv, NBUF
  <2> QED
    BY <2>2, <2>3 DEF IInv
<1>3. CASE ~tx_idle(n)
  <2>1. \/ n = 0 /\ Used' = Used - 1 /\ Used' \in 0..NBUF /\ slots' = 1
           /\ bufc' \in 0..(SPAN - 1) /\ pma' \in [Bit -> Packets]
        \/ n # 0 /\ Used' = Used /\ slots' = n /\ UNCHANGED <<bufc, pma>>
    <3>1. CASE n = 0
      <4>1. Used > 0
        BY <1>3, <3>1, Emptied DEF tx_idle, IInv, TypeOK, NBUF
      <4>2. stuff_dblbuf_tx_packet /\ slots' = 1 /\ bufp' = bufp
        BY <1>3, <3>1 DEF handle_dblbuf_tx_transfer
      <4>3. Used' = Used - 1 /\ Used' \in 0..NBUF
        BY <4>1, <4>2, Consumed DEF stuff_dblbuf_tx_packet, IInv
      <4>4. bufc' \in 0..(SPAN - 1) /\ pma' \in [Bit -> Packets]
        BY <4>2, IncType DEF stuff_dblbuf_tx_packet, IInv, TypeOK
      <4> QED
        BY <3>1, <4>2, <4>3, <4>4
    <3>2. CASE n # 0
      BY <1>3, <3>2, SameRing DEF handle_dblbuf_tx_transfer
    <3> QED
      BY <3>1, <3>2
  <2>2. handler' = "stuff" /\ kick' = FALSE /\ sw' = 1 - sw
        /\ UNCHANGED <<in, ring, bufp, is_dblbuf, valid, dtog, base, tmp, last,
                       thread>>
    BY <1>3 DEF handle_dblbuf_tx_transfer
  <2>3. TypeOK'
    <3>1. sw' \in Bit
      BY <2>2 DEF IInv, TypeOK, Bit
    <3>2. slots' \in -1..2 /\ bufc' \in 0..(SPAN - 1) /\ Used' \in 0..NBUF
          /\ pma' \in [Bit -> Packets]
      BY <1>1, <2>1 DEF IInv, TypeOK
    <3> QED
      BY <1>1, <2>2, <3>1, <3>2 DEF IInv, TypeOK, HandlerPcs
  <2>4. ThreadInv' /\ HandlerInv' /\ KickInv' /\ NakInv' /\ RingInv' /\ SlotsInv'
    BY <1>1, <2>1, <2>2 DEF IInv, TypeOK, ThreadInv, HandlerInv, KickInv,
       NakInv, RingInv, SlotsInv, NBUF, Bit
  <2> QED
    BY <2>3, <2>4 DEF IInv
<1> QED
  BY <1>2, <1>3

LEMMA TxStuffStep == ASSUME IInv, tx_stuff PROVE IInv'
<1> USE DEF tx_stuff, returns, ends
<1>1. \/ slots = 1 /\ slots' = 2 /\ Used' = Used - 1 /\ Used' \in 0..NBUF
         /\ bufc' \in 0..(SPAN - 1) /\ pma' \in [Bit -> Packets]
      \/ Used' = Used /\ UNCHANGED <<bufc, pma, slots>>
  <2>1. CASE tx_fill
    <3>1. Used > 0
      BY <2>1, Emptied DEF tx_fill, IInv, TypeOK, NBUF
    <3>2. stuff_dblbuf_tx_packet /\ slots = 1 /\ slots' = 2 /\ bufp' = bufp
      BY <2>1 DEF tx_fill
    <3> QED
      BY <3>1, <3>2, Consumed, IncType DEF stuff_dblbuf_tx_packet, IInv, TypeOK
  <2>2. CASE ~tx_fill
    BY <2>2, SameRing
  <2> QED
    BY <2>1, <2>2
<1>2. TypeOK'
  BY <1>1 DEF IInv, TypeOK, HandlerPcs, ThreadPcs
<1>3. ThreadInv' /\ HandlerInv' /\ KickInv' /\ NakInv' /\ RingInv' /\ SlotsInv'
  BY <1>1 DEF IInv, TypeOK, ThreadInv, HandlerInv, KickInv, NakInv, RingInv,
     SlotsInv, NBUF
<1> QED
  BY <1>2, <1>3 DEF IInv

LEMMA IrqStep == ASSUME IInv, IRQ_USB_HP PROVE IInv'
<1>1. ASSUME ~in, handle_dblbuf_rx_transfer PROVE IInv'
  BY <1>1, RxSteps DEF IRQ_USB_HP
<1>2. ASSUME in, handle_dblbuf_tx_transfer(slots - 1), ctr' = FALSE PROVE IInv'
  BY <1>2, TxSteps DEF IRQ_USB_HP
<1> QED
  BY <1>1, <1>2 DEF IRQ_USB_HP

LEMMA RetestStep == ASSUME IInv, retest_kick PROVE IInv'
<1>0. thread = "masked" /\ handler = "none" /\ kick /\ ~ctr
  BY DEF retest_kick, running, IInv, ThreadInv, KickInv
<1>1. ASSUME ~in, handle_dblbuf_rx_transfer PROVE IInv'
  BY <1>0, <1>1, RxSteps
<1>2. ASSUME in, handle_dblbuf_tx_transfer(slots), UNCHANGED ctr PROVE IInv'
  BY <1>0, <1>2, TxSteps
<1> QED
  BY <1>0, <1>1, <1>2 DEF retest_kick

LEMMA ThreadSteps ==
    ASSUME IInv, read_copy \/ (\E p \in Packets : write_copy(p)) \/ test_kick
    PROVE  IInv'
<1> USE SameRing DEF running, soft, hw, ends
<1>1. CASE read_copy
  BY <1>1, Emptied, IncType DEF read_copy, IInv, TypeOK, ThreadInv, HandlerInv,
     KickInv, NakInv, RingInv, SlotsInv, ThreadPcs, NBUF
<1>2. CASE \E p \in Packets : write_copy(p)
  BY <1>2, IncType DEF write_copy, tx_room, IInv, TypeOK, ThreadInv, HandlerInv,
     KickInv, NakInv, RingInv, SlotsInv, ThreadPcs, NBUF
<1>3. CASE test_kick
  BY <1>3 DEF test_kick, IInv, TypeOK, ThreadInv, HandlerInv,
     KickInv, NakInv, RingInv, SlotsInv, ThreadPcs
<1> QED
  BY <1>1, <1>2, <1>3

LEMMA UpdateSteps == ASSUME IInv, read_update \/ write_update PROVE IInv'
<1> USE DEF running, hw, ends
<1>1. CASE read_update
  <2>1. Used' = Used - 1 /\ Used' \in 0..NBUF
    BY <1>1, Consumed DEF read_update, IInv, ThreadInv
  <2>2. bufc' \in 0..(SPAN - 1)
    BY <1>1, IncType DEF read_update, IInv, TypeOK
  <2> QED
    BY <1>1, <2>1, <2>2 DEF read_update, IInv, TypeOK, ThreadInv, HandlerInv,
       KickInv, NakInv, RingInv, SlotsInv, ThreadPcs
<1>2. CASE write_update
  <2>1. Used' = Used + 1 /\ Used' \in 0..NBUF
    BY <1>2, Produced DEF write_update, IInv, ThreadInv
  <2>2. bufp' \in 0..(SPAN - 1)
    BY <1>2, IncType DEF write_update, IInv, TypeOK
  <2> QED
    BY <1>2, <2>1, <2>2 DEF write_update, IInv, TypeOK, ThreadInv, HandlerInv,
       KickInv, NakInv, RingInv, SlotsInv, ThreadPcs
<1> QED
  BY <1>1, <1>2

LEMMA ConfigureSteps ==
    ASSUME IInv, handle_reset \/ usbd_configure_ep
    PROVE  IInv'
<1> USE DEF running, hw, ends, Bit
<1>0. bufc' \in 0..(SPAN - 1) /\ bufp' \in 0..(SPAN - 1) /\ Used' = 0
      /\ Used' \in 0..NBUF
  BY DblbufAssumption DEF handle_reset, usbd_configure_ep, Used, NBUF
<1>1. CASE handle_reset
  <2>1. TypeOK'
    <3>1. is_dblbuf' \in BOOLEAN /\ kick' \in BOOLEAN
      BY <1>1 DEF handle_reset
    <3>2. UNCHANGED <<in, ring, valid, dtog, sw, ctr, pma, thread, handler,
                      base, tmp, last>> /\ slots' = 0
      BY <1>1 DEF handle_reset
    <3> QED
      BY <1>0, <3>1, <3>2 DEF IInv, TypeOK
  <2> QED
    BY <1>0, <1>1, <2>1 DEF handle_reset, IInv, TypeOK, ThreadInv, HandlerInv,
       KickInv, NakInv, RingInv, SlotsInv
<1>2. CASE usbd_configure_ep
  <2>1. TypeOK'
    <3>1. /\ in' \in BOOLEAN /\ is_dblbuf' \in BOOLEAN /\ kick' \in BOOLEAN
          /\ ctr' \in BOOLEAN /\ valid' \in BOOLEAN
      BY <1>2 DEF usbd_configure_ep, configure_kick
    <3>2. UNCHANGED <<ring, pma, thread, handler, base, tmp>> /\ slots' = 0
          /\ dtog' \in Bit /\ sw' \in Bit /\ last' = NONE
      BY <1>2 DEF usbd_configure_ep
    <3> QED
      BY <1>0, <3>1, <3>2 DEF IInv, TypeOK
  <2> QED
    BY <1>0, <1>2, <2>1 DEF usbd_configure_ep, configure_kick, IInv, TypeOK,
       ThreadInv, HandlerInv, KickInv, NakInv, RingInv, SlotsInv
<1> QED
  BY <1>1, <1>2

LEMMA NextIInv == ASSUME IInv, [Next]_vars PROVE IInv'
<1>1. CASE UNCHANGED vars
  BY <1>1, SameRing DEF vars, soft, hw, ends, IInv, TypeOK, ThreadInv,
     HandlerInv, KickInv, NakInv, RingInv, SlotsInv
<1>2. CASE Next
  BY <1>2, HostSteps, IrqStep, RxCopyStep, TxStuffStep, RetestStep, ThreadSteps,
     UpdateSteps, ConfigureSteps
     DEF Next, Handler, Reader, HostMoves
<1> QED
  BY <1>1, <1>2

LEMMA Inductive == Spec => []IInv
BY InitIInv, NextIInv, PTL DEF Spec

-----------------------------------------------------------------------------
(* The variables keep their types: above all, the ring never holds more     *)
(* than NBUF packets, whatever the main loop and the interrupt do in it.    *)
THEOREM DblbufTypeCorrect == Spec => []TypeOK
<1>1. IInv => TypeOK
  BY DEF IInv
<1> QED
  BY <1>1, Inductive, PTL

(* No wakeup is lost (hw_usbd_at32f4.c:155-160, 185-190, 415-425, 481-483). *)
THEOREM NoLostWakeup == Spec => []Armed
<1>1. IInv => Armed
  BY DEF IInv, NakInv, RingInv, Armed, live
<1> QED
  BY <1>1, Inductive, PTL

(* The unmasked test of kick is as good as the masked one that follows it.  *)
THEOREM KickTestSafe == Spec => []KickStands
<1>1. IInv => KickStands
  BY DEF IInv, ThreadInv, KickInv, KickStands
<1> QED
  BY <1>1, Inductive, PTL
-----------------------------------------------------------------------------
(* The endpoint implements Fifo.  The steps of the algorithm move packets   *)
(* from one part of Inside to the next, so the proof is about               *)
(* concatenations.                                                          *)

LEMMA Single ==
    ASSUME NEW a \in Packets
    PROVE  <<a>> \in Seq(Packets) /\ <<>> \in Seq(Packets)
OBVIOUS

LEMMA Pair ==
    ASSUME NEW a \in Packets, NEW b \in Packets
    PROVE  <<a>> \o <<b>> = <<a, b>>
<1>1. <<a>> \o <<b>> \in Seq(Packets) /\ <<a, b>> \in Seq(Packets)
  OBVIOUS
<1>2. Len(<<a>> \o <<b>>) = 2 /\ Len(<<a, b>>) = 2
  OBVIOUS
<1>3. \A i \in 1..2 : (<<a>> \o <<b>>)[i] = <<a, b>>[i]
  OBVIOUS
<1> QED
  BY <1>1, <1>2, <1>3, SeqEqual

(* Taking the first packet of a sequence.                                   *)
LEMMA FirstOut ==
    ASSUME NEW a \in Packets, NEW s \in Seq(Packets)
    PROVE  /\ <<a>> \o s # <<>>
           /\ Head(<<a>> \o s) = a /\ Tail(<<a>> \o s) = s
OBVIOUS

LEMMA UptoType ==
    ASSUME NEW n \in 0..2, NEW a \in Packets, NEW b \in Packets
    PROVE  Upto(n, a, b) \in Seq(Packets)
BY DEF Upto

LEMMA UptoFirst ==
    ASSUME NEW n \in 1..2, NEW a \in Packets, NEW b \in Packets,
           NEW c \in Packets
    PROVE  Upto(n, a, b) = <<a>> \o Upto(n - 1, b, c)
<1>1. CASE n = 1
  <2>1. <<a>> \o <<>> = <<a>>
    BY Single, ConcatEmptySeq
  <2> QED
    BY <1>1, <2>1 DEF Upto
<1>2. CASE n = 2
  <2>1. n - 1 = 1 /\ Upto(1, b, c) = <<b>> /\ Upto(2, a, b) = <<a, b>>
    BY <1>2 DEF Upto
  <2> QED
    BY <1>2, <2>1, Pair
<1> QED
  BY <1>1, <1>2

LEMMA UptoGrow ==
    ASSUME NEW a \in Packets, NEW b \in Packets, NEW d \in Packets
    PROVE  /\ Upto(1, a, b) = Upto(0, d, d) \o <<a>>
           /\ Upto(2, a, b) = Upto(1, a, d) \o <<b>>
<1>1. <<>> \o <<a>> = <<a>>
  BY Single, ConcatEmptySeq
<1>2. Upto(0, d, d) = <<>> /\ Upto(1, a, b) = <<a>> /\ Upto(1, a, d) = <<a>>
      /\ Upto(2, a, b) = <<a, b>>
  BY DEF Upto
<1> QED
  BY <1>1, <1>2, Pair

(* Neighbouring indexes select different buffers.                           *)
LEMMA Masks ==
    ASSUME TypeOK
    PROVE  /\ \A i \in 0..(SPAN - 1) : BUF_MASK(Inc(i)) = 1 - BUF_MASK(i)
           /\ BUF_MASK(bufc) \in Bit /\ BUF_MASK(bufp) \in Bit
           /\ Used = 0 => BUF_MASK(bufp) = BUF_MASK(bufc)
           /\ Used = 1 => BUF_MASK(bufp) = 1 - BUF_MASK(bufc)
BY DblbufAssumption DEF TypeOK, BUF_MASK, NBUF, Inc, Used, Bit

LEMMA RingType ==
    ASSUME TypeOK
    PROVE  /\ RingQueue \in Seq(Packets)
           /\ ring[BUF_MASK(bufc)] \in Packets
           /\ ring[BUF_MASK(bufp)] \in Packets
           /\ ring[1 - BUF_MASK(bufc)] \in Packets
<1>1. 1 - BUF_MASK(bufc) \in Bit
  BY Masks DEF Bit
<1>2. /\ ring[BUF_MASK(bufc)] \in Packets /\ ring[BUF_MASK(bufp)] \in Packets
      /\ ring[1 - BUF_MASK(bufc)] \in Packets
  BY <1>1, Masks DEF TypeOK
<1> QED
  BY <1>2, UptoType DEF RingQueue, TypeOK, NBUF

LEMMA RingTypeNext ==
    ASSUME TypeOK'
    PROVE  RingQueue' \in Seq(Packets)
<1>1. BUF_MASK(bufc') \in Bit /\ 1 - BUF_MASK(bufc') \in Bit
  <2>1. bufc' \in Nat
    BY DblbufAssumption DEF TypeOK
  <2>2. \A i \in Nat : BUF_MASK(i) \in Bit /\ 1 - BUF_MASK(i) \in Bit
    BY DEF BUF_MASK, NBUF, Bit
  <2> QED
    BY <2>1, <2>2
<1>2. ring'[BUF_MASK(bufc')] \in Packets /\ ring'[1 - BUF_MASK(bufc')] \in Packets
  BY <1>1 DEF TypeOK
<1>3. Used' \in 0..2
  BY DEF TypeOK, NBUF
<1> QED
  BY <1>2, <1>3, UptoType DEF RingQueue

LEMMA RingConsumed ==
    ASSUME TypeOK, TypeOK', Used > 0, bufc' = Inc(bufc),
           UNCHANGED <<bufp, ring>>
    PROVE  RingQueue = <<ring[BUF_MASK(bufc)]>> \o RingQueue'
<1>1. Used' = Used - 1 /\ Used \in 1..2
  BY Consumed DEF TypeOK, NBUF
<1>2. BUF_MASK(bufc') = 1 - BUF_MASK(bufc) /\ BUF_MASK(bufc) \in Bit
  BY Masks DEF TypeOK
<1>3. 1 - BUF_MASK(bufc') = BUF_MASK(bufc)
  BY <1>2 DEF Bit
<1>4. RingQueue' =
        Upto(Used - 1, ring[1 - BUF_MASK(bufc)], ring[BUF_MASK(bufc)])
  BY <1>1, <1>2, <1>3 DEF RingQueue
<1> DEFINE a == ring[BUF_MASK(bufc)]
           b == ring[1 - BUF_MASK(bufc)]
<1>5. a \in Packets /\ b \in Packets
  BY RingType
<1>6. Upto(Used, a, b) = <<a>> \o Upto(Used - 1, b, a)
  BY <1>1, <1>5, UptoFirst
<1> QED
  BY <1>4, <1>6 DEF RingQueue

LEMMA RingProduced ==
    ASSUME TypeOK, TypeOK', Used < NBUF, bufp' = Inc(bufp), bufc' = bufc,
           \A b \in Bit : b # BUF_MASK(bufp) => ring'[b] = ring[b]
    PROVE  RingQueue' = RingQueue \o <<ring'[BUF_MASK(bufp)]>>
<1> DEFINE m == BUF_MASK(bufc)
<1>1. Used' = Used + 1 /\ Used \in 0..1
  BY Produced DEF TypeOK, NBUF
<1>2. m \in Bit /\ 1 - m \in Bit
  BY Masks DEF Bit
<1>3. /\ ring'[m] \in Packets /\ ring'[1 - m] \in Packets
      /\ ring[m] \in Packets /\ ring[1 - m] \in Packets
  BY <1>2 DEF TypeOK
<1>4. RingQueue' = Upto(Used', ring'[m], ring'[1 - m])
      /\ RingQueue = Upto(Used, ring[m], ring[1 - m])
  BY <1>1 DEF RingQueue
<1>5. BUF_MASK(bufp) = IF Used = 0 THEN m ELSE 1 - m
  BY <1>1, Masks
<1>6. Used = 1 => ring[m] = ring'[m]
  BY <1>2, <1>5 DEF Bit
<1>7. CASE Used = 0
  <2>1. RingQueue' = Upto(1, ring'[m], ring'[1 - m]) /\ RingQueue = Upto(0, ring'[m], ring'[m])
    BY <1>1, <1>4, <1>7 DEF Upto
  <2>2. ring'[BUF_MASK(bufp)] = ring'[m]
    BY <1>5, <1>7
  <2>3. Upto(1, ring'[m], ring'[1 - m])
          = Upto(0, ring'[m], ring'[m]) \o <<ring'[m]>>
    BY <1>3, UptoGrow
  <2> QED
    BY <2>1, <2>2, <2>3
<1>8. CASE Used = 1
  <2>1. RingQueue' = Upto(2, ring'[m], ring'[1 - m]) /\ RingQueue = Upto(1, ring'[m], ring[1 - m])
    BY <1>1, <1>4, <1>6, <1>8
  <2>2. ring'[BUF_MASK(bufp)] = ring'[1 - m]
    BY <1>5, <1>8
  <2>3. Upto(2, ring'[m], ring'[1 - m])
          = Upto(1, ring'[m], ring[1 - m]) \o <<ring'[1 - m]>>
    BY <1>3, UptoGrow
  <2> QED
    BY <2>1, <2>2, <2>3
<1> QED
  BY <1>1, <1>7, <1>8

(* A buffer may be filled before the producer index says so.                *)
LEMMA RingHidden ==
    ASSUME TypeOK, TypeOK', Used < NBUF, UNCHANGED <<bufc, bufp>>,
           \A b \in Bit : b # BUF_MASK(bufp) => ring'[b] = ring[b]
    PROVE  RingQueue' = RingQueue
<1>1. Used' = Used /\ Used \in 0..1
  BY SameRing DEF TypeOK, NBUF
<1>2. CASE Used = 0
  BY <1>1, <1>2 DEF RingQueue, Upto
<1>3. CASE Used = 1
  <2>1. ring'[BUF_MASK(bufc)] = ring[BUF_MASK(bufc)]
    BY <1>3, Masks DEF Bit
  <2> QED
    BY <1>1, <1>3, <2>1 DEF RingQueue, Upto
<1> QED
  BY <1>1, <1>2, <1>3

LEMMA RingSame ==
    ASSUME UNCHANGED <<ring, bufc, bufp>>
    PROVE  RingQueue' = RingQueue
BY SameRing DEF RingQueue

-----------------------------------------------------------------------------
(* Which packet the handler is copying, and which one usbd_read has copied. *)
DataInv ==
    /\ valid /\ handler = "copy" => base = sw
    /\ thread = "copied" /\ ~in => tmp = ring[BUF_MASK(bufc)]

LEMMA InitDataInv == Init => DataInv
BY DEF Init, DataInv

LEMMA NextDataInv == ASSUME IInv, DataInv, [Next]_vars PROVE DataInv'
<1> USE DEF DataInv, soft, hw, ends
<1>1. ASSUME NEW p \in Packets, HostOut(p) PROVE DataInv'
  BY <1>1 DEF HostOut
<1>2. CASE HostIn
  BY <1>2 DEF HostIn
<1>3. CASE BusReset
  BY <1>3 DEF BusReset
<1>4. ASSUME ~in, handle_dblbuf_rx_transfer PROVE DataInv'
  <2>1. sw \in Bit
    BY DEF IInv, TypeOK
  <2> QED
    BY <1>4, <2>1 DEF handle_dblbuf_rx_transfer, rx_base, returns, Bit
<1>5. ASSUME in, NEW n, handle_dblbuf_tx_transfer(n) PROVE DataInv'
  BY <1>5 DEF handle_dblbuf_tx_transfer, returns
<1>6. CASE rx_copy
  <2>1. handler' = "none" /\ (thread' = "copied" => thread = "copied")
        /\ UNCHANGED <<bufc, tmp, in>>
    BY <1>6 DEF rx_copy, returns
  <2>2. ASSUME thread = "copied" PROVE ring'[BUF_MASK(bufc)] = ring[BUF_MASK(bufc)]
    <3>1. ~in /\ Used = 1
      BY <1>6, <2>2 DEF rx_copy, IInv, TypeOK, HandlerInv, ThreadInv, NBUF
    <3>2. BUF_MASK(bufp) # BUF_MASK(bufc)
      BY <3>1, Masks DEF IInv, Bit
    <3> QED
      BY <1>6, <3>2, Masks DEF rx_copy, IInv, TypeOK
  <2> QED
    BY <2>1, <2>2
<1>7. CASE tx_stuff
  BY <1>7 DEF tx_stuff, returns, IInv, HandlerInv
<1>8. CASE read_copy \/ read_update \/ write_update \/ test_kick
  BY <1>8 DEF read_copy, read_update, write_update, test_kick, running
<1>9. ASSUME NEW p \in Packets, write_copy(p) PROVE DataInv'
  BY <1>9 DEF write_copy, running
<1>10. CASE IRQ_USB_HP
  BY <1>4, <1>5, <1>10 DEF IRQ_USB_HP
<1>11. CASE retest_kick
  <2>1. kick
    BY <1>11 DEF retest_kick, running, IInv, ThreadInv
  <2> QED
    BY <1>4, <1>5, <1>11, <2>1 DEF retest_kick
<1>12. CASE handle_reset \/ usbd_configure_ep
  BY <1>12 DEF handle_reset, usbd_configure_ep, running
<1>13. CASE UNCHANGED vars
  BY <1>13 DEF vars
<1> QED
  BY <1>1, <1>2, <1>3, <1>6, <1>7, <1>8, <1>9, <1>10, <1>11, <1>12, <1>13
     DEF Next, Handler, Reader, HostMoves

-----------------------------------------------------------------------------
(* Each step of a live endpoint is a step of Fifo or leaves it unchanged.   *)

SameInside == Inside' = Inside /\ Outside' = Outside

(* The parts of Inside are sequences of packets.                            *)
LEMMA PartTypes ==
    ASSUME IInv
    PROVE  /\ Copying \in Seq(Packets) /\ Held \in Seq(Packets)
           /\ live /\ in => Unsent \in 0..2 /\ Sending \in Seq(Packets)
           /\ pma[dtog] \in Packets /\ pma[1 - dtog] \in Packets
           /\ pma[sw] \in Packets /\ pma[base] \in Packets
<1>1. /\ pma[dtog] \in Packets /\ pma[1 - dtog] \in Packets
      /\ pma[sw] \in Packets /\ pma[base] \in Packets
  <2>1. dtog \in Bit /\ sw \in Bit /\ base \in Bit /\ 1 - dtog \in Bit
    BY DEF IInv, TypeOK, Bit
  <2> QED
    BY <2>1 DEF IInv, TypeOK
<1>2. Copying \in Seq(Packets) /\ Held \in Seq(Packets)
  BY <1>1, Single DEF Copying, Held
<1>3. ASSUME live, in PROVE Unsent \in 0..2
  BY <1>3 DEF live, Unsent, IInv, SlotsInv
<1> QED
  BY <1>1, <1>2, <1>3, UptoType DEF Sending

LEMMA StepHostOut ==
    ASSUME IInv, IInv', DataInv, NEW p \in Packets, HostOut(p)
    PROVE  Fifo!Put
<1> USE DEF soft, ends
<1>1. live /\ live' /\ ~in /\ ~in' /\ RingQueue' = RingQueue /\ Outside' = Outside
  BY RingSame DEF HostOut, live, IInv, ThreadInv, Outside
<1>2. Held = <<>> /\ Held' = <<p>>
  <2>1. dtog \in Bit /\ sw \in Bit /\ dtog # sw /\ pma \in [Bit -> Packets]
    BY DEF HostOut, IInv, TypeOK
  <2>2. dtog' = sw' /\ 1 - dtog' = dtog /\ pma'[dtog] = p
    BY <2>1 DEF HostOut, Bit
  <2> QED
    BY <2>1, <2>2 DEF Held
<1>3. Copying' = Copying
  <2>1. handler = "copy" => base = sw /\ dtog # sw /\ dtog \in Bit /\ sw \in Bit
    BY DEF HostOut, DataInv, IInv, TypeOK
  <2>2. handler = "copy" => pma'[base] = pma[base]
    BY <2>1 DEF HostOut, IInv, TypeOK
  <2> QED
    BY <2>2 DEF HostOut, Copying
<1>4. RingQueue \o Copying \in Seq(Packets)
  BY PartTypes, RingType DEF IInv
<1>5. Inside = RingQueue \o Copying /\ Inside' = (RingQueue \o Copying) \o <<p>>
  BY <1>1, <1>2, <1>3, <1>4, ConcatEmptySeq DEF Inside
<1>6. Inside' = Append(Inside, p)
  BY <1>4, <1>5, AppendIsConcat
<1> QED
  BY <1>1, <1>6 DEF Fifo!Put

LEMMA StepHostIn ==
    ASSUME IInv, IInv', HostIn
    PROVE  Fifo!Get
<1> USE DEF soft, ends
<1>1. live /\ live' /\ in /\ in' /\ RingQueue' = RingQueue
  BY RingSame DEF HostIn, live, IInv, ThreadInv
<1>2. Unsent = slots /\ Unsent' = slots - 1 /\ slots \in 1..2
  BY DEF HostIn, IInv, NakInv, Unsent
<1>3. dtog' = 1 - dtog /\ 1 - dtog' = dtog
  BY DEF HostIn, IInv, TypeOK, Bit
<1>4. Sending' = Upto(slots - 1, pma[1 - dtog], pma[dtog])
  BY <1>2, <1>3 DEF HostIn, Sending
<1>5. Sending = <<pma[dtog]>> \o Sending'
  <2> DEFINE a == pma[dtog]
             b == pma[1 - dtog]
  <2>1. a \in Packets /\ b \in Packets
    BY PartTypes
  <2>2. Upto(slots, a, b) = <<a>> \o Upto(slots - 1, b, a)
    BY <1>2, <2>1, UptoFirst
  <2> QED
    BY <1>2, <1>4, <2>2 DEF Sending
<1>6. RingQueue \in Seq(Packets) /\ Sending' \in Seq(Packets)
      /\ <<pma[dtog]>> \in Seq(Packets)
  <2>1. Sending' \in Seq(Packets)
    <3>1. slots - 1 \in 0..2
      BY <1>2
    <3> QED
      BY <1>4, <3>1, PartTypes, UptoType
  <2> QED
    BY <2>1, RingType, PartTypes, Single DEF IInv
<1>7. Inside = <<pma[dtog]>> \o Inside' /\ Inside' \in Seq(Packets)
  <2>1. Inside' = Sending' \o RingQueue
    BY <1>1 DEF Inside
  <2>2. Inside = (<<pma[dtog]>> \o Sending') \o RingQueue
    BY <1>1, <1>5 DEF Inside
  <2> QED
    BY <1>6, <2>1, <2>2, ConcatAssociative
<1>8. Outside' = pma[dtog]
  BY <1>1 DEF HostIn, Outside
<1> QED
  BY <1>7, <1>8, PartTypes, FirstOut DEF Fifo!Get

LEMMA StepRx ==
    ASSUME IInv, IInv', ~in, live, handler = "none", dtog = sw,
           handle_dblbuf_rx_transfer
    PROVE  SameInside
<1> USE DEF ends
<1>1. live' /\ ~in' /\ RingQueue' = RingQueue /\ Outside' = Outside
      /\ Copying = <<>> /\ RingQueue \in Seq(Packets)
  BY RingSame, RingType
     DEF handle_dblbuf_rx_transfer, live, Outside, Copying, IInv
<1>2. CASE rx_full
  BY <1>1, <1>2
     DEF handle_dblbuf_rx_transfer, returns, SameInside, Inside, Copying, Held
<1>3. CASE ~rx_full
  <2>1. dtog \in Bit /\ sw \in Bit
    BY DEF IInv, TypeOK
  <2>2. handler' = "copy" /\ sw' = 1 - sw /\ base' = 1 - dtog
        /\ UNCHANGED <<dtog, pma>>
    BY <1>3, <2>1 DEF handle_dblbuf_rx_transfer, rx_base, Bit
  <2>3. Held = <<pma[1 - dtog]>> /\ Copying' = <<pma[1 - dtog]>> /\ Held' = <<>>
    BY <2>1, <2>2 DEF Held, Copying, Bit
  <2>4. Inside = (RingQueue \o <<>>) \o <<pma[1 - dtog]>>
        /\ Inside' = (RingQueue \o <<pma[1 - dtog]>>) \o <<>>
    BY <1>1, <2>3 DEF Inside
  <2>5. RingQueue \o <<pma[1 - dtog]>> \in Seq(Packets)
    BY <1>1, PartTypes, Single
  <2> QED
    BY <1>1, <2>4, <2>5, ConcatEmptySeq DEF SameInside
<1> QED
  BY <1>2, <1>3

LEMMA StepRxCopy ==
    ASSUME IInv, IInv', live, rx_copy
    PROVE  SameInside
<1> USE DEF hw, ends
<1>1. live' /\ ~in /\ ~in' /\ Outside' = Outside /\ Held' = Held
      /\ Copying = <<pma[base]>> /\ Copying' = <<>>
  BY DEF rx_copy, live, returns, Outside, Held, Copying, IInv, HandlerInv
<1>2. RingQueue' = RingQueue \o <<pma[base]>>
  <2>1. BUF_MASK(bufp) \in Bit /\ Used < NBUF
    BY Masks DEF rx_copy, IInv, HandlerInv
  <2>2. ring'[BUF_MASK(bufp)] = pma[base]
    BY <2>1 DEF rx_copy, IInv, TypeOK
  <2>3. \A b \in Bit : b # BUF_MASK(bufp) => ring'[b] = ring[b]
    BY <2>1 DEF rx_copy, IInv, TypeOK
  <2> QED
    BY <2>1, <2>2, <2>3, RingProduced DEF rx_copy, IInv
<1>3. RingQueue' \in Seq(Packets)
  <2>1. RingQueue \in Seq(Packets) /\ <<pma[base]>> \in Seq(Packets)
    BY RingType, PartTypes, Single DEF IInv
  <2> QED
    BY <1>2, <2>1
<1>4. Inside = RingQueue' \o Held
  BY <1>1, <1>2 DEF Inside
<1>5. Inside' = (RingQueue' \o <<>>) \o Held
  BY <1>1 DEF Inside
<1> QED
  BY <1>1, <1>3, <1>4, <1>5, ConcatEmptySeq DEF SameInside

(* A packet moves from the ring to a packet buffer.                         *)
LEMMA StuffMoves ==
    ASSUME IInv, IInv', live, in, stuff_dblbuf_tx_packet, Used > 0,
           UNCHANGED <<ring, bufp, in, dtog, is_dblbuf, valid, last>>,
           \/ Unsent = 0 /\ dtog = sw /\ Unsent' = 1
           \/ Unsent = 1 /\ dtog # sw /\ Unsent' = 2
    PROVE  SameInside
<1> DEFINE x == ring[BUF_MASK(bufc)]
<1>1. live' /\ in' /\ Outside' = Outside
  BY DEF live, Outside
<1>2. RingQueue = <<x>> \o RingQueue'
  BY RingConsumed DEF stuff_dblbuf_tx_packet, IInv
<1>3. dtog \in Bit /\ sw \in Bit /\ pma \in [Bit -> Packets] /\ x \in Packets
  BY RingType DEF IInv, TypeOK
<1>4. Sending' = Sending \o <<x>>
  <2>1. pma'[sw] = x /\ (dtog # sw => pma'[dtog] = pma[dtog] /\ 1 - dtog = sw)
    BY <1>3 DEF stuff_dblbuf_tx_packet, Bit
  <2>2. /\ pma[dtog] \in Packets /\ pma[1 - dtog] \in Packets
        /\ pma'[dtog] \in Packets /\ pma'[1 - dtog] \in Packets
    BY <1>3, PartTypes, pma' \in [Bit -> Packets], 1 - dtog \in Bit
       DEF IInv, TypeOK, Bit

  <2>3. CASE Unsent = 0 /\ dtog = sw /\ Unsent' = 1
    <3>1. Sending' = Upto(1, x, pma'[1 - dtog]) /\ Sending = Upto(0, x, x)
      BY <2>1, <2>3 DEF Sending, Upto
    <3> QED
      BY <1>3, <2>2, <3>1, UptoGrow
  <2>4. CASE Unsent = 1 /\ dtog # sw /\ Unsent' = 2
    <3>1. Sending' = Upto(2, pma[dtog], x) /\ Sending = Upto(1, pma[dtog], pma[1 - dtog])
      BY <2>1, <2>4 DEF Sending
    <3> QED
      BY <1>3, <2>2, <3>1, UptoGrow
  <2> QED
    BY <2>3, <2>4
<1>5. Sending \in Seq(Packets) /\ RingQueue' \in Seq(Packets)
      /\ <<x>> \in Seq(Packets)
  <2>1. RingQueue' \in Seq(Packets)
    BY RingTypeNext DEF IInv
  <2> QED
    BY <1>3, <2>1, PartTypes, Single
<1>6. Inside = Sending \o (<<x>> \o RingQueue')
      /\ Inside' = (Sending \o <<x>>) \o RingQueue'
  BY <1>1, <1>2, <1>4 DEF Inside
<1> QED
  BY <1>1, <1>5, <1>6, ConcatAssociative DEF SameInside

LEMMA StepTx ==
    ASSUME IInv, IInv', in, live, handler = "none", dtog = sw, NEW n,
           \/ kick /\ n = slots /\ ctr' = ctr
           \/ ctr /\ n = slots - 1 /\ ctr' = FALSE,
           handle_dblbuf_tx_transfer(n)
    PROVE  SameInside
<1> USE DEF ends
<1>1. n = Unsent /\ ctr' = FALSE /\ n \in Int
  BY DEF IInv, TypeOK, KickInv, Unsent
<1>2. UNCHANGED <<ring, bufp, in, dtog, is_dblbuf, valid, last>>
  BY DEF handle_dblbuf_tx_transfer
<1>3. CASE n = 0 /\ ~tx_idle(n)
  <2>1. stuff_dblbuf_tx_packet /\ slots' = 1 /\ Unsent' = 1
    BY <1>1, <1>3 DEF handle_dblbuf_tx_transfer, Unsent
  <2>2. Used > 0
    BY <1>3, Emptied DEF tx_idle, IInv, TypeOK, NBUF
  <2> QED
    BY <1>1, <1>2, <1>3, <2>1, <2>2, StuffMoves
<1>4. CASE ~(n = 0 /\ ~tx_idle(n))
  <2>1. slots' = n /\ UNCHANGED <<bufc, pma>>
    BY <1>4 DEF handle_dblbuf_tx_transfer, tx_idle
  <2>2. Unsent' = Unsent
    BY <1>1, <2>1 DEF Unsent
  <2> QED
    BY <1>2, <2>1, <2>2, RingSame
       DEF SameInside, Inside, Outside, live, Sending
<1> QED
  BY <1>3, <1>4

LEMMA StepTxStuff ==
    ASSUME IInv, IInv', live, tx_stuff
    PROVE  SameInside
<1> USE DEF ends
<1>1. in /\ UNCHANGED <<ring, bufp, in, dtog, is_dblbuf, valid, last, ctr>>
  BY DEF tx_stuff, IInv, HandlerInv
<1>2. CASE tx_fill
  <2>1. stuff_dblbuf_tx_packet /\ slots = 1 /\ slots' = 2
    BY <1>2 DEF tx_stuff, tx_fill
  <2>2. Used > 0
    BY <1>2, Emptied DEF tx_fill, IInv, TypeOK, NBUF
  <2>3. ctr <=> dtog = sw
    BY DEF tx_stuff, live, IInv, NakInv, KickInv
  <2>4. \/ Unsent = 0 /\ dtog = sw /\ Unsent' = 1
        \/ Unsent = 1 /\ dtog # sw /\ Unsent' = 2
    BY <1>1, <2>1, <2>3 DEF Unsent
  <2> QED
    BY <1>1, <2>1, <2>2, <2>4, StuffMoves
<1>3. CASE ~tx_fill
  BY <1>1, <1>3, RingSame
     DEF tx_stuff, SameInside, Inside, Outside, live, Sending, Unsent
<1> QED
  BY <1>2, <1>3

LEMMA StepReadUpdate ==
    ASSUME IInv, IInv', DataInv, live, read_update
    PROVE  Fifo!Get
<1> USE DEF hw
<1> DEFINE x == ring[BUF_MASK(bufc)]
<1>1. live' /\ ~in /\ ~in' /\ Held' = Held /\ Copying' = Copying
      /\ Outside' = x /\ Used > 0
  BY DEF read_update, running, live, Held, Copying, Outside, DataInv, IInv,
     ThreadInv
<1>2. RingQueue = <<x>> \o RingQueue'
  BY <1>1, RingConsumed DEF read_update, IInv
<1>3. RingQueue' \in Seq(Packets) /\ x \in Packets /\ <<x>> \in Seq(Packets)
      /\ Copying \in Seq(Packets) /\ Held \in Seq(Packets)
  <2>1. RingQueue' \in Seq(Packets)
    BY RingTypeNext DEF IInv
  <2> QED
    BY <2>1, RingType, PartTypes, Single DEF IInv
<1>4. Inside = ((<<x>> \o RingQueue') \o Copying) \o Held
      /\ Inside' = (RingQueue' \o Copying) \o Held
  BY <1>1, <1>2 DEF Inside
<1>5. (<<x>> \o RingQueue') \o Copying = <<x>> \o (RingQueue' \o Copying)
  BY <1>3, ConcatAssociative
<1>6. RingQueue' \o Copying \in Seq(Packets) /\ Inside' \in Seq(Packets)
  BY <1>3, <1>4
<1>7. Inside = <<x>> \o Inside'
  BY <1>3, <1>4, <1>5, <1>6, ConcatAssociative
<1> QED
  BY <1>1, <1>3, <1>6, <1>7, FirstOut DEF Fifo!Get

LEMMA StepWriteUpdate ==
    ASSUME IInv, IInv', live, write_update
    PROVE  Fifo!Put
<1> USE DEF hw, ends
<1> DEFINE x == ring[BUF_MASK(bufp)]
<1>1. live' /\ in /\ in' /\ Sending' = Sending /\ Outside' = Outside
      /\ Used < NBUF
  BY DEF write_update, running, live, Sending, Unsent, Outside, IInv, ThreadInv
<1>2. RingQueue' = RingQueue \o <<x>>
  BY <1>1, RingProduced DEF write_update, IInv
<1>3. RingQueue \in Seq(Packets) /\ Sending \in Seq(Packets) /\ x \in Packets
      /\ <<x>> \in Seq(Packets)
  BY <1>1, RingType, PartTypes, Single DEF IInv
<1>4. Inside = Sending \o RingQueue /\ Inside' = Sending \o (RingQueue \o <<x>>)
  BY <1>1, <1>2 DEF Inside
<1>5. Inside' = Inside \o <<x>> /\ Inside \in Seq(Packets)
  BY <1>3, <1>4, ConcatAssociative
<1>6. Inside' = Append(Inside, x)
  BY <1>3, <1>5, AppendIsConcat
<1> QED
  BY <1>1, <1>3, <1>6 DEF Fifo!Put

(* What the main loop does between those steps shows nowhere.               *)
LEMMA StepThread ==
    ASSUME IInv, IInv', live,
           read_copy \/ (\E p \in Packets : write_copy(p)) \/ test_kick
    PROVE  SameInside
<1> USE DEF soft, hw, ends, running
<1>1. CASE read_copy \/ test_kick
  <2>1. UNCHANGED <<in, ring, bufc, bufp, slots, is_dblbuf, valid, dtog, sw, ctr,
                    pma, handler, base, last>>
    BY <1>1 DEF read_copy, test_kick
  <2> QED
    BY <2>1, RingSame DEF SameInside, Inside, Outside, live, Copying, Held,
       Sending, Unsent
<1>2. ASSUME NEW p \in Packets, write_copy(p) PROVE SameInside
  <2>1. \A b \in Bit : b # BUF_MASK(bufp) => ring'[b] = ring[b]
    BY <1>2, Masks DEF write_copy, IInv, TypeOK
  <2>2. RingQueue' = RingQueue
    BY <1>2, <2>1, RingHidden DEF write_copy, tx_room, IInv
  <2> QED
    BY <1>2, <2>2 DEF write_copy, SameInside, Inside, Outside, live, Copying,
       Held, Sending, Unsent
<1> QED
  BY <1>1, <1>2

LEMMA StepReset ==
    ASSUME ~live'
    PROVE  Fifo!Reset
BY DEF Fifo!Reset, Inside, Outside

LEMMA StepConfigure ==
    ASSUME IInv, usbd_configure_ep
    PROVE  SameInside
<1> USE DEF running
<1>1. Inside = <<>> /\ Outside = NONE
  BY DEF usbd_configure_ep, Inside, Outside, live
<1>2. Outside' = NONE
  BY DEF usbd_configure_ep, Outside
<1>3. Used' = 0 /\ RingQueue' = <<>>
  BY DEF usbd_configure_ep, Used, RingQueue, Upto
<1>4. CASE in'
  <2>1. slots' = 0 /\ ctr' = FALSE
    BY DEF usbd_configure_ep
  <2>2. Unsent' = 0
    <3>1. CASE ctr'
      BY <2>1, <3>1
    <3>2. CASE ~ctr'
      <4>1. (IF ctr' THEN 1 ELSE 0) = 0
        BY <3>2
      <4>2. slots' - 0 = 0
        BY <2>1
      <4> QED
        BY <4>1, <4>2 DEF Unsent
    <3> QED
      BY <3>1, <3>2
  <2>3. Sending' = <<>>
    BY <2>2 DEF Sending, Upto
  <2> QED
    BY <1>1, <1>2, <1>3, <1>4, <2>3, EmptySeq, ConcatEmptySeq
       DEF SameInside, Inside
<1>5. CASE ~in'
  <2>1. Copying' = <<>> /\ Held' = <<>>
    BY <1>5 DEF usbd_configure_ep, Copying, Held
  <2> QED
    BY <1>1, <1>2, <1>3, <1>5, <2>1, EmptySeq, ConcatEmptySeq
       DEF SameInside, Inside
<1> QED
  BY <1>4, <1>5

LEMMA FifoInit == Init => Fifo!Init
BY DEF Init, Fifo!Init, Inside, Outside, live

LEMMA FifoStep ==
    ASSUME IInv, IInv', DataInv, [Next]_vars
    PROVE  [Fifo!Next]_<<Inside, Outside>>
<1>1. CASE ~live'
  BY <1>1, StepReset DEF Fifo!Next
<1>2. CASE live' /\ ~live
  <2>1. usbd_configure_ep \/ SameInside
    BY <1>2 DEF live, vars, soft, hw, ends, Next, Handler, Reader, HostMoves,
       IRQ_USB_HP, rx_copy, tx_stuff, read_copy, read_update, write_update,
       test_kick, retest_kick, HostIn, HostOut, write_copy, BusReset,
       handle_reset, handle_dblbuf_rx_transfer, handle_dblbuf_tx_transfer
  <2> QED
    BY <2>1, StepConfigure DEF SameInside
<1>3. CASE live' /\ live
  <2>1. CASE UNCHANGED vars
    BY <2>1 DEF vars, soft, hw, ends, Inside, Outside, live, RingQueue, Used,
       Sending, Unsent, Copying, Held
  <2>2. CASE IRQ_USB_HP
    <3>1. ctr /\ handler = "none" /\ dtog = sw
      BY <1>3, <2>2 DEF IRQ_USB_HP, IInv, NakInv, live
    <3> QED
      BY <1>3, <2>2, <3>1, StepRx, StepTx DEF IRQ_USB_HP, SameInside
  <2>3. CASE retest_kick
    <3>1. kick /\ handler = "none" /\ dtog = sw
      BY <1>3, <2>3 DEF retest_kick, running, IInv, ThreadInv, KickInv, live
    <3> QED
      BY <1>3, <2>3, <3>1, StepRx, StepTx DEF retest_kick, SameInside
  <2>4. CASE HostMoves
    BY <2>4, StepHostOut, StepHostIn DEF HostMoves, Fifo!Next
  <2>5. CASE rx_copy \/ tx_stuff
    BY <1>3, <2>5, StepRxCopy, StepTxStuff DEF SameInside
  <2>6. CASE read_update \/ write_update
    BY <1>3, <2>6, StepReadUpdate, StepWriteUpdate DEF Fifo!Next
  <2>7. CASE read_copy \/ (\E p \in Packets : write_copy(p)) \/ test_kick
    BY <1>3, <2>7, StepThread DEF SameInside
  <2>8. ~(BusReset \/ handle_reset \/ usbd_configure_ep)
    BY <1>3 DEF live, BusReset, handle_reset, usbd_configure_ep
  <2> QED
    BY <2>1, <2>2, <2>3, <2>4, <2>5, <2>6, <2>7, <2>8
       DEF Next, Handler, Reader
<1> QED
  BY <1>1, <1>2, <1>3

(* The endpoint implements Fifo: each packet comes out once and in order,   *)
(* until a bus reset, whatever the main loop, the interrupt and the         *)
(* controller interrupt in each other.  That it does come out is left to    *)
(* the model checker (PacketsComeOut).                                      *)
THEOREM DblbufImplementsFifo == Spec => FifoSpec
<1>1. Init => IInv /\ DataInv /\ Fifo!Init
  BY InitIInv, InitDataInv, FifoInit
<1>2. IInv /\ DataInv /\ [Next]_vars => (IInv /\ DataInv)'
  BY NextIInv, NextDataInv
<1>3. IInv /\ IInv' /\ DataInv /\ [Next]_vars => [Fifo!Next]_<<Inside, Outside>>
  BY FifoStep
<1> QED
  BY <1>1, <1>2, <1>3, PTL DEF Spec, FifoSpec, Fifo!Spec
=============================================================================
