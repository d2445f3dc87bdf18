---------------------------- MODULE UsbHostProof ----------------------------
(***************************************************************************)
(* Lemmas about the control-transfer machine and the host it talks to, for *)
(* every value of the constants: what each handler of core.c and each move *)
(* of the host does to the types.  The driver modules' proofs cite them.   *)
(***************************************************************************)
EXTENDS UsbHost, TLAPS

-----------------------------------------------------------------------------
(* Endpoint 0.                                                              *)

LEMMA MinType ==
    ASSUME NEW x \in Int, NEW y \in Int
    PROVE  /\ min_t(x, y) \in Int
           /\ min_t(x, y) <= x /\ min_t(x, y) <= y
           /\ x >= 0 /\ y >= 0 => min_t(x, y) >= 0
BY DEF min_t

LEMMA RequestType ==
    ASSUME NEW r \in Requests
    PROVE  /\ r.in \in BOOLEAN /\ r.wLength \in Nat /\ r.avail \in Nat
           /\ r.addr \in Nat
BY CoreAssumption DEF Request

LEMMA ReplyType ==
    ASSUME NEW r \in Requests
    PROVE  reply_len(r) \in Nat
BY RequestType DEF reply_len, min_t

(* usb_write_ep0 keeps the types of everything it assigns (core.c:149-169). *)
LEMMA WriteType ==
    ASSUME CoreTypeOK, NEW ready \in BOOLEAN, NEW n \in Nat \cup {-1},
           NEW tr \in BOOLEAN, NEW off \in Nat, NEW src \in Requests,
           usb_write_ep0(ready, n, tr, off, src)
    PROVE  /\ todo' \in Nat \cup {-1} /\ trunc' \in BOOLEAN /\ p' \in Nat
           /\ tx_ready' \in BOOLEAN /\ stat_tx' \in TxStats
           /\ txbuf' \in Packets
<1>1. CASE n < 0 \/ ~ready
  BY <1>1 DEF usb_write_ep0, CoreTypeOK
<1>2. CASE n >= 0 /\ ready
  <2> DEFINE len == min_t(n, EP0_MPS)
  <2>1. len \in Nat /\ len <= EP0_MPS /\ len <= n
    BY <1>2, MinType, CoreAssumption
  <2> HIDE DEF len
  <2>2. ~(n < 0 \/ ~ready)
    BY <1>2
  <2>3. /\ usb_write(src, off, len) /\ trunc' = tr
        /\ p' = off + len
        /\ todo' = IF last_packet(n, len, tr) THEN -1 ELSE n - len
    BY <2>2 DEF usb_write_ep0, len
  <2>4. txbuf' \in Packets /\ tx_ready' \in BOOLEAN /\ stat_tx' \in TxStats
    <3>1. len \in 0..EP0_MPS
      BY <2>1, CoreAssumption
    <3>2. [src |-> src, off |-> off, len |-> len] \in Packets
      BY <3>1 DEF Packets
    <3> QED
      BY <2>3, <3>2 DEF usb_write, TxStats
  <2>5. todo' \in Nat \cup {-1} /\ p' \in Nat
    BY <1>2, <2>1, <2>3
  <2> QED
    BY <2>3, <2>4, <2>5
<1> QED
  BY <1>1, <1>2

LEMMA AnswerType ==
    ASSUME CoreTypeOK, NEW r \in Requests, NEW n \in Nat \cup {-1},
           answer(r, n), req' \in Requests
    PROVE  CoreTypeOK'
<1>1. data' \in Requests
  BY DEF answer, CoreTypeOK
<1>2. CASE ~handled(r)
  BY <1>1, <1>2 DEF answer, CoreTypeOK, usb_stall, TxStats
<1>3. CASE handled(r) /\ r.in
  <2>1. usb_write_ep0(tx_ready, reply_len(r), reply_len(r) < r.wLength, 0, r)
    BY <1>3 DEF answer
  <2>2. /\ reply_len(r) \in Nat
        /\ (reply_len(r) < r.wLength) \in BOOLEAN
        /\ tx_ready \in BOOLEAN
    BY ReplyType DEF CoreTypeOK
  <2>3. data_len' \in Nat \cup {-1}
    BY <1>3, <2>2 DEF answer
  <2>4. /\ todo' \in Nat \cup {-1} /\ trunc' \in BOOLEAN /\ p' \in Nat
        /\ tx_ready' \in BOOLEAN /\ stat_tx' \in TxStats
        /\ txbuf' \in Packets
    BY <2>1, <2>2, WriteType
  <2> QED
    BY <1>1, <2>3, <2>4 DEF CoreTypeOK
<1>4. CASE handled(r) /\ ~r.in
  <2>1. usb_write_ep0(tx_ready, 0, FALSE, 0, r)
    BY <1>4 DEF answer
  <2> QED
    BY <1>1, <1>4, <2>1, WriteType DEF answer, CoreTypeOK
<1> QED
  BY <1>2, <1>3, <1>4 DEF answer

LEMMA SetupType ==
    ASSUME CoreTypeOK, NEW r \in Requests, handle_rx_setup(r)
    PROVE  CoreTypeOK'
<1>1. CASE setup_ready(r)
  BY <1>1, AnswerType DEF handle_rx_setup
<1>2. CASE ~setup_ready(r)
  BY <1>2 DEF handle_rx_setup, CoreTypeOK, tx0
<1> QED
  BY <1>1, <1>2

LEMMA OutType ==
    ASSUME CoreTypeOK, NEW len \in Nat, handle_rx_out(len)
    PROVE  CoreTypeOK'
<1>1. CASE data_len < 0
  BY <1>1 DEF handle_rx_out, CoreTypeOK, usb_stall, TxStats, data_ready
<1>2. CASE data_ready(len)
  <2>1. answer(req, todo) /\ req' = req
    BY <1>2 DEF handle_rx_out, data_ready, CoreTypeOK
  <2> QED
    BY <2>1, AnswerType DEF CoreTypeOK
<1>3. CASE data_len >= 0 /\ ~data_ready(len)
  BY <1>3 DEF handle_rx_out, CoreTypeOK, tx0
<1> QED
  BY <1>1, <1>2, <1>3 DEF CoreTypeOK

LEMMA TxType == CoreTypeOK /\ handle_tx_ep0 => CoreTypeOK'
<1> SUFFICES ASSUME CoreTypeOK, handle_tx_ep0 PROVE CoreTypeOK'
  OBVIOUS
<1>1. usb_write_ep0(TRUE, todo, trunc, p, data)
  BY DEF handle_tx_ep0
<1>2. /\ todo' \in Nat \cup {-1} /\ trunc' \in BOOLEAN /\ p' \in Nat
      /\ tx_ready' \in BOOLEAN /\ stat_tx' \in TxStats
      /\ txbuf' \in Packets
  BY <1>1, WriteType DEF CoreTypeOK
<1> QED
  BY <1>2 DEF handle_tx_ep0, CoreTypeOK

(* An action that leaves the variables of a part alone keeps their types. *)
LEMMA CoreUnchangedType == CoreTypeOK /\ UNCHANGED core => CoreTypeOK'
BY DEF CoreTypeOK, core, ep0, tx0

-----------------------------------------------------------------------------
(* The host.                                                                *)

(* The host never sends more than wLength bytes of data. *)
DataBound == hphase = "data" /\ ~hreq.in => hn < hreq.wLength

HostInv == HostTypeOK /\ DataBound

LEMMA HostUnchangedInv == HostInv /\ UNCHANGED host => HostInv'
BY DEF HostInv, HostTypeOK, DataBound, host, xfer

LEMMA HostBeginsInv ==
    ASSUME HostInv, NEW r \in Requests, HostBegins(r)
    PROVE  HostInv'
<1>1. DataBound'
  BY RequestType DEF HostBegins, DataBound
<1>2. HostTypeOK'
  BY DEF HostBegins, HostInv, HostTypeOK
<1> QED
  BY <1>1, <1>2 DEF HostInv

LEMMA HostTakesPacketInv ==
    ASSUME HostInv, txbuf \in Packets, HostTakesPacket, dup' \in BOOLEAN
    PROVE  HostInv'
<1>1. acted' = acted
  BY DEF HostTakesPacket
<1>2. CASE UNCHANGED xfer
  BY <1>1, <1>2 DEF HostInv, HostTypeOK, DataBound, xfer
<1>3. CASE HostTakesData
  <2>1. txbuf.len \in Nat
    BY CoreAssumption DEF Packets
  <2>2. hreq' = hreq /\ hreq.in
    BY <1>3, RequestType
    DEF HostTakesPacket, HostExpectsIn, HostTakesData, HostInv, HostTypeOK
  <2> QED
    BY <1>1, <1>3, <2>1, <2>2
    DEF HostTakesData, HostInv, HostTypeOK, DataBound
<1>4. CASE HostTakesStatus
  BY <1>1, <1>4, RequestType
  DEF HostTakesStatus, HostInv, HostTypeOK, DataBound
<1> QED
  BY <1>2, <1>3, <1>4 DEF HostTakesPacket

LEMMA HostTakesStallInv == HostInv /\ HostTakesStall => HostInv'
BY DEF HostTakesStall, HostInv, HostTypeOK, DataBound

LEMMA HostSendsOutInv ==
    ASSUME HostInv, HostSendsOut
    PROVE  HostInv' /\ HostOutLen \in Nat
<1>1. /\ hreq \in Requests /\ hreq.wLength \in Nat /\ hn \in Nat
      /\ hreq' = hreq
  BY RequestType DEF HostInv, HostTypeOK, HostSendsOut
<1>2. CASE hphase = "data" /\ ~hreq.in
  <2>1. hn < hreq.wLength
    BY <1>2 DEF HostInv, DataBound
  <2>2. HostOutLen \in Nat /\ HostOutLen <= hreq.wLength - hn
    BY <1>1, <1>2, <2>1, CoreAssumption DEF HostOutLen, min_t
  <2>3. /\ hn' = hn + HostOutLen
        /\ hphase' = IF hn' = hreq.wLength THEN "status" ELSE "data"
        /\ result' = result
    BY <1>2 DEF HostSendsOut
  <2> QED
    BY <1>1, <1>2, <2>2, <2>3
    DEF HostSendsOut, HostInv, HostTypeOK, DataBound
<1>3. CASE hreq.in
  BY <1>1, <1>3 DEF HostSendsOut, HostOutLen, HostInv, HostTypeOK, DataBound
<1> QED
  BY <1>2, <1>3 DEF HostSendsOut

LEMMA HostSeesResetInv ==
    ASSUME HostInv, HostSeesReset
    PROVE  HostInv'
<1>1. DataBound' /\ dup' \in BOOLEAN
  BY DEF HostSeesReset, DataBound
<1>2. /\ hphase' \in {"idle", "data", "status"}
      /\ result' \in {"ok", "refused", "reset"}
      /\ haddr' \in Nat
  BY DEF HostSeesReset
<1> QED
  BY <1>1, <1>2 DEF HostSeesReset, HostInv, HostTypeOK

LEMMA DeviceActsType ==
    ASSUME NEW r, DeviceActs(r)
    PROVE  acted' \in {"no", "yes", "wrong"}
BY DEF DeviceActs

(* Only what the program does to acted can disturb the host's invariant. *)
LEMMA HostActedInv ==
    HostInv /\ UNCHANGED <<xfer, dup>> /\ acted' \in {"no", "yes", "wrong"}
        => HostInv'
BY DEF HostInv, HostTypeOK, DataBound, xfer
-----------------------------------------------------------------------------
(* A control transfer, as far as both drivers share it: what the device     *)
(* does in the data stage to the host, in the status stage, or when it      *)
(* refuses, as the host's phase and byte count determine it.                *)

TransferOK == CoreTypeOK /\ HostTypeOK /\ hgood = TRUE

\* A packet is in the buffer, or the bytes from p on are still to be put there.
Queued ==
    LET n == reply_len(hreq) - hn
    IN  /\ hphase = "data" /\ n >= 0
        /\ stat_tx = "VALID" /\ ~dup
        /\ txbuf = [src |-> hreq, off |-> hn, len |-> min_t(n, EP0_MPS)]
        /\ p = hn + txbuf.len
        /\ todo = IF last_packet(n, txbuf.len, trunc) THEN -1 ELSE n - txbuf.len

Unqueued ==
    /\ stat_tx = "VALID" <=> dup
    /\ \/ hphase = "data" /\ hn + todo = reply_len(hreq) /\ todo >= 0 /\ p = hn
       \/ hphase = "status" /\ hn = reply_len(hreq) /\ todo = -1

SendsReply ==
    /\ req = hreq /\ data = hreq /\ acted = "yes"
    /\ hreq.in /\ hreq.wLength > 0
    /\ data_len >= 0
    /\ trunc = (reply_len(hreq) < hreq.wLength)
    /\ stat_tx # "STALL"
    /\ Queued \/ Unqueued

SendsStatus ==
    /\ acted = "yes"
    /\ hphase = "status" /\ (~hreq.in \/ hreq.wLength = 0)
    /\ hn = hreq.wLength /\ trunc = FALSE
    /\ \/ stat_tx = "VALID" /\ txbuf.len = 0 /\ todo = -1
       \/ stat_tx \notin {"VALID", "STALL"} /\ todo = 0
    /\ ~dup

Refuses ==
    /\ HostExpectsIn
    /\ acted = "no" /\ ~handled(hreq)
    /\ todo = -1 /\ stat_tx = "STALL"

LEMMA TransferFacts ==
    ASSUME TransferOK
    PROVE  /\ hreq \in Requests /\ hn \in Nat /\ haddr # -1
           /\ hreq.in \in BOOLEAN /\ hreq.wLength \in Nat
           /\ reply_len(hreq) \in Nat /\ reply_len(hreq) <= hreq.wLength
           /\ dup \in BOOLEAN /\ trunc \in BOOLEAN /\ tx_ready \in BOOLEAN
           /\ hphase \in {"idle", "data", "status"}
           /\ todo \in Nat \cup {-1} /\ data_len \in Nat \cup {-1}
           /\ EP0_MPS \in Nat \ {0}
           /\ hgood = TRUE
<1>1. hreq \in Requests /\ hn \in Nat /\ haddr # -1
      /\ dup \in BOOLEAN /\ hphase \in {"idle", "data", "status"}
  BY DEF TransferOK, HostTypeOK
<1>2. /\ trunc \in BOOLEAN /\ tx_ready \in BOOLEAN
      /\ todo \in Nat \cup {-1} /\ data_len \in Nat \cup {-1}
  BY DEF TransferOK, CoreTypeOK
<1>3. hreq.wLength \in Nat /\ hreq.avail \in Nat /\ hreq.in \in BOOLEAN
  BY <1>1, RequestType
<1>4. reply_len(hreq) \in Nat /\ reply_len(hreq) <= hreq.wLength
  BY <1>1, <1>3 DEF reply_len, min_t
<1> QED
  BY <1>1, <1>2, <1>3, <1>4, CoreAssumption DEF TransferOK

\* A stage of a transfer depends on nothing else.
LEMMA StageFrame ==
    ASSUME UNCHANGED <<ep0, stat_tx, txbuf, host>>
    PROVE  /\ SendsReply' <=> SendsReply
           /\ SendsStatus' <=> SendsStatus
           /\ Refuses' <=> Refuses
           /\ UNCHANGED Pipe!vars
BY DEF SendsReply, Queued, Unqueued, SendsStatus, Refuses, HostExpectsIn, ep0,
       host, xfer, Pipe!vars

-----------------------------------------------------------------------------
(* The host's moves.                                                        *)

LEMMA TransferBegins ==
    ASSUME hphase = "idle", NEW r \in Requests, HostBegins(r)
    PROVE  hgood' = TRUE /\ Pipe!Setup(r)
BY DEF HostBegins, Pipe!Setup

LEMMA RefusalTaken ==
    ASSUME TransferOK, Refuses, HostTakesStall
    PROVE  hgood' = TRUE /\ hphase' = "idle" /\ Pipe!Refuse
BY TransferFacts DEF Refuses, HostTakesStall, Pipe!Refuse

LEMMA DataSent ==
    ASSUME TransferOK, HostSendsOut, hphase = "data", ~hreq.in,
           acted = "no", hn < hreq.wLength
    PROVE  /\ HostOutLen \in Nat \ {0}
           /\ hn' = hn + HostOutLen /\ hn' <= hreq.wLength
           /\ hphase' = IF hn' = hreq.wLength THEN "status" ELSE "data"
           /\ hgood' = TRUE /\ Pipe!DataOut
<1>1. /\ hn' = hn + HostOutLen
      /\ hphase' = IF hn' = hreq.wLength THEN "status" ELSE "data"
      /\ UNCHANGED <<result, hreq, hgood, acted>>
  BY DEF HostSendsOut
<1>2. HostOutLen = min_t(hreq.wLength - hn, EP0_MPS)
  BY DEF HostOutLen
<1>3. /\ HostOutLen \in Nat \ {0} /\ HostOutLen <= hreq.wLength - hn
      /\ Pipe!Chunk(hreq.wLength - hn) = HostOutLen
  BY <1>2, TransferFacts DEF min_t, Pipe!Chunk
<1>4. Pipe!DataOut
  BY <1>1, <1>3, TransferFacts DEF Pipe!DataOut
<1> QED
  BY <1>1, <1>3, <1>4, TransferFacts

LEMMA StatusSent ==
    ASSUME TransferOK, HostSendsOut, SendsReply, hphase = "status"
    PROVE  /\ hphase' = "idle" /\ hgood' = TRUE
           /\ todo = -1 /\ (stat_tx = "VALID" <=> dup)
           /\ Pipe!Complete
<1>1. /\ hphase' = "idle" /\ result' = "ok"
      /\ UNCHANGED <<hn, hreq, hgood, acted>>
  BY DEF HostSendsOut
<1>2. Unqueued
  BY DEF SendsReply, Queued
<1>3. Pipe!Complete
  BY <1>1, <1>2, TransferFacts DEF SendsReply, Unqueued, Pipe!Complete
<1> QED
  BY <1>1, <1>2, <1>3, TransferFacts DEF Unqueued

\* The host gets data only from a device that has queued it.
LEMMA PacketTaken ==
    ASSUME TransferOK, HostTakesPacket, stat_tx = "VALID",
           UNCHANGED <<ep0, txbuf>>,
           \/ stat_tx' = "NAK" /\ dup' = FALSE
           \/ stat_tx' = "VALID" /\ dup' = TRUE,
           SendsReply \/ SendsStatus
    PROVE  /\ hgood' = TRUE
           /\ [Pipe!Next]_(Pipe!vars)
           /\ \/ SendsReply /\ SendsReply'
              \/ SendsStatus /\ HostTakesStatus /\ todo' = -1
<1>0. UNCHANGED <<acted, req, data, data_len, todo, trunc, p, txbuf>>
  BY DEF HostTakesPacket, ep0
<1>f. /\ hreq.wLength \in Nat /\ reply_len(hreq) \in Nat
      /\ reply_len(hreq) <= hreq.wLength
      /\ hn \in Nat /\ EP0_MPS \in Nat \ {0} /\ hgood = TRUE
      /\ trunc \in BOOLEAN
  BY TransferFacts
<1>1. CASE SendsReply /\ Queued
  <2> DEFINE n == reply_len(hreq) - hn
             len == min_t(n, EP0_MPS)
  <2>1. /\ n >= 0 /\ ~dup /\ p = hn + len /\ hphase = "data"
        /\ txbuf.src = hreq /\ txbuf.off = hn /\ txbuf.len = len
        /\ todo = IF last_packet(n, len, trunc) THEN -1 ELSE n - len
        /\ trunc = (reply_len(hreq) < hreq.wLength)
    BY <1>1 DEF Queued, SendsReply
  <2>2. HostTakesData
    BY <1>1, <2>1 DEF HostTakesPacket, HostTakesStatus
  <2>3. /\ hn' = hn + len
        /\ hphase' = IF len < EP0_MPS \/ hn + len >= hreq.wLength
                     THEN "status" ELSE "data"
        /\ UNCHANGED <<hreq, result>>
    BY <2>1, <2>2 DEF HostTakesData
  <2>4. hgood' = TRUE
    BY <1>f, <2>1, <2>2 DEF HostTakesData
  <2>5. /\ n \in Nat /\ n = reply_len(hreq) - hn
        /\ len = IF n < EP0_MPS THEN n ELSE EP0_MPS
    BY <1>f, <2>1 DEF min_t
  <2> HIDE DEF n, len
  <2>6. \/ hphase' = "data" /\ hn' + todo = reply_len(hreq) /\ todo >= 0
        \/ hphase' = "status" /\ hn' = reply_len(hreq) /\ todo = -1
    <3>1. CASE len < EP0_MPS
      BY <1>f, <2>1, <2>3, <2>5, <3>1 DEF last_packet
    <3>2. CASE len = EP0_MPS /\ len < n
      BY <1>f, <2>1, <2>3, <2>5, <3>2 DEF last_packet
    <3>3. CASE len = EP0_MPS /\ len = n
      <4>1. hn' = reply_len(hreq)
        BY <1>f, <2>3, <2>5, <3>3
      <4>2. CASE reply_len(hreq) < hreq.wLength
        <5>0. ~(len < EP0_MPS)
          BY <1>f, <3>3
        <5>1. trunc /\ ~(len < EP0_MPS)
          BY <2>1, <4>2, <5>0
        <5>2. todo = 0
          BY <1>f, <2>1, <2>5, <3>3, <5>1 DEF last_packet
        <5> QED
          BY <1>f, <2>3, <2>5, <3>3, <4>1, <4>2, <5>2
      <4>3. CASE reply_len(hreq) = hreq.wLength
        <5>0. ~(reply_len(hreq) < hreq.wLength)
          BY <1>f, <4>3
        <5>1. ~trunc
          BY <2>1, <5>0
        <5>2. todo = -1
          BY <2>1, <3>3, <5>1 DEF last_packet
        <5> QED
          BY <1>f, <2>3, <2>5, <3>3, <4>1, <4>3, <5>2
      <4> QED
        BY <1>f, <4>2, <4>3
    <3> QED
      BY <1>f, <2>5, <3>1, <3>2, <3>3
  <2>7. Unqueued'
    BY <1>0, <2>1, <2>3, <2>6 DEF Unqueued
  <2>8. SendsReply'
    BY <1>0, <1>1, <2>3, <2>7 DEF SendsReply
  <2>9. Pipe!DataIn
    <3>1. Pipe!Chunk(n) = len /\ len >= 0
      BY <1>f, <2>5 DEF Pipe!Chunk
    <3>2. hn + len >= hreq.wLength <=> hn + len = hreq.wLength
      BY <1>f, <2>5
    <3>3. /\ hphase = "data" /\ hreq.in /\ acted = "yes"
          /\ UNCHANGED <<hreq, acted, result>>
      BY <1>0, <1>1, <2>1, <2>3 DEF SendsReply
    <3>4. n = reply_len(hreq) - (IF hgood THEN hn ELSE -1)
          /\ (IF hgood THEN hn ELSE -1)' = (IF hgood THEN hn ELSE -1) + len
          /\ (IF hgood THEN hn ELSE -1) = hn
      BY <1>f, <2>3, <2>4, <2>5
    <3>5. hphase' = IF len < EP0_MPS \/ hn + len = hreq.wLength
                    THEN "status" ELSE "data"
      BY <2>3, <3>2
    <3> QED
      BY <3>1, <3>3, <3>4, <3>5 DEF Pipe!DataIn
  <2> QED
    BY <1>1, <2>4, <2>8, <2>9 DEF Pipe!Next
<1>2. CASE SendsReply /\ Unqueued
  <2>1. UNCHANGED xfer
    BY <1>2 DEF Unqueued, HostTakesPacket, HostTakesData, HostTakesStatus
  <2>2. SendsReply'
    <3>1. Unqueued'
      BY <1>0, <1>2, <2>1 DEF Unqueued, xfer
    <3> QED
      BY <1>0, <1>2, <2>1, <3>1 DEF SendsReply, xfer
  <2>3. UNCHANGED Pipe!vars
    BY <1>0, <2>1 DEF xfer, Pipe!vars
  <2> QED
    BY <1>f, <1>2, <2>1, <2>2, <2>3 DEF xfer
<1>3. CASE SendsStatus
  <2>1. /\ txbuf.len = 0 /\ todo = -1 /\ ~dup /\ acted = "yes"
        /\ ~hreq.in \/ hreq.wLength = 0
        /\ hn = hreq.wLength /\ hphase = "status"
    BY <1>3 DEF SendsStatus
  <2>2. HostTakesStatus
    BY <1>3, <2>1 DEF HostTakesPacket, HostTakesData
  <2>3. /\ hphase' = "idle" /\ result' = "ok" /\ hgood' = TRUE
        /\ UNCHANGED <<hreq, hn>>
    BY <1>f, <2>1, <2>2 DEF HostTakesStatus
  <2>4. hn = IF hreq.in THEN reply_len(hreq) ELSE hreq.wLength
    BY <1>f, <2>1
  <2>5. Pipe!Complete
    BY <1>0, <1>f, <2>1, <2>3, <2>4 DEF Pipe!Complete
  <2> QED
    BY <1>0, <1>3, <2>1, <2>2, <2>3, <2>5 DEF Pipe!Next
<1> QED
  BY <1>1, <1>2, <1>3 DEF SendsReply
-----------------------------------------------------------------------------
(* The device's moves.                                                      *)

\* The completion of a packet sends the next one (core.c:149-169, 244-247).
LEMMA NextPacket ==
    ASSUME TransferOK, usb_write_ep0(TRUE, todo, trunc, p, data),
           UNCHANGED <<host, req, data_len, data>>, stat_tx # "VALID"
    PROVE  /\ SendsReply => SendsReply'
           /\ SendsStatus => SendsStatus'
           /\ todo = -1 => UNCHANGED <<ep0, stat_tx, txbuf>>
<1>1. UNCHANGED <<hphase, hreq, hn, hgood, result, dup, acted>>
  BY DEF host, xfer
<1>2. CASE todo = -1
  <2>1. UNCHANGED <<ep0, stat_tx, txbuf>>
    BY <1>2 DEF usb_write_ep0, ep0
  <2> QED
    BY <2>1, StageFrame
<1>3. CASE todo # -1
  <2> DEFINE len == min_t(todo, EP0_MPS)
  <2>1. /\ txbuf' = [src |-> data, off |-> p, len |-> len]
        /\ stat_tx' = "VALID" /\ trunc' = trunc
        /\ p' = p + len
        /\ todo' = IF last_packet(todo, len, trunc) THEN -1 ELSE todo - len
    BY <1>3, TransferFacts DEF usb_write_ep0, usb_write
  <2>2. ASSUME SendsReply PROVE SendsReply'
    <3>1. hphase = "data" /\ hn + todo = reply_len(hreq) /\ todo >= 0 /\ p = hn
      BY <1>3, <2>2 DEF SendsReply, Queued, Unqueued
    <3>2. ~dup /\ data = hreq
      BY <2>2, TransferFacts DEF SendsReply, Queued, Unqueued
    <3>3. reply_len(hreq) - hn = todo
      BY <3>1, TransferFacts
    <3>4. Queued'
      <4>1. reply_len(hreq') - hn' = todo
        BY <1>1, <3>3
      <4>2. txbuf'.len = len
        BY <2>1
      <4> QED
        BY <1>1, <2>1, <3>1, <3>2, <4>1, <4>2 DEF Queued
    <3> QED
      BY <1>1, <2>1, <2>2, <3>4 DEF SendsReply
  <2>3. ASSUME SendsStatus PROVE SendsStatus'
    <3>1. todo = 0 /\ trunc = FALSE /\ len = 0
      BY <1>3, <2>3, TransferFacts DEF SendsStatus, min_t
    <3>2. todo' = -1 /\ txbuf'.len = 0
      BY <2>1, <3>1 DEF last_packet
    <3> QED
      BY <1>1, <2>1, <2>3, <3>1, <3>2 DEF SendsStatus
  <2> QED
    BY <1>3, <2>2, <2>3
<1> QED
  BY <1>2, <1>3

\* The device begins the reply to its request.
LEMMA ReplyStarts ==
    ASSUME TransferOK, stat_tx \notin {"VALID", "STALL"}, ~dup,
           acted' = "yes", UNCHANGED <<hphase, hreq, hn, dup>>,
           req' = hreq, data' = hreq, hreq.in, hreq.wLength > 0,
           hphase = "data", hn = 0, data_len' = reply_len(hreq),
           usb_write_ep0(tx_ready, reply_len(hreq),
                         reply_len(hreq) < hreq.wLength, 0, hreq)
    PROVE  SendsReply'
<1> DEFINE len == reply_len(hreq)
           l   == min_t(len, EP0_MPS)
<1>f. /\ tx_ready \in BOOLEAN /\ EP0_MPS \in Nat \ {0}
      /\ len \in Nat /\ ~(len < 0) /\ l \in Nat /\ 0 + l = l
  BY TransferFacts DEF min_t
<1>1. CASE ~tx_ready
  <2>1. /\ todo' = len /\ p' = 0 /\ trunc' = (len < hreq.wLength)
        /\ UNCHANGED stat_tx
    BY <1>1 DEF usb_write_ep0
  <2>2. Unqueued'
    BY <1>f, <2>1 DEF Unqueued
  <2> QED
    BY <1>f, <2>1, <2>2 DEF SendsReply
<1>2. CASE tx_ready
  <2>1. /\ txbuf' = [src |-> hreq, off |-> 0, len |-> l]
        /\ stat_tx' = "VALID" /\ trunc' = (len < hreq.wLength)
        /\ p' = 0 + l
        /\ todo' = IF last_packet(len, l, len < hreq.wLength)
                   THEN -1 ELSE len - l
    BY <1>f, <1>2 DEF usb_write_ep0, usb_write
  <2>2. Queued'
    <3>1. reply_len(hreq') - hn' = len /\ p' = hn' + l
      BY <1>f, <2>1
    <3>2. txbuf'.len = l
      BY <2>1
    <3> QED
      BY <1>f, <2>1, <3>1, <3>2 DEF Queued
  <2> QED
    BY <1>f, <2>1, <2>2 DEF SendsReply
<1> QED
  BY <1>f, <1>1, <1>2

\* The device begins the status stage.
LEMMA StatusStarts ==
    ASSUME TransferOK, stat_tx \notin {"VALID", "STALL"}, ~dup,
           acted' = "yes", UNCHANGED <<hphase, hreq, hn, dup>>,
           ~hreq.in \/ hreq.wLength = 0,
           hphase = "status", hn = hreq.wLength,
           usb_write_ep0(tx_ready, 0, FALSE, 0, hreq)
    PROVE  SendsStatus'
<1>1. tx_ready \in BOOLEAN /\ min_t(0, EP0_MPS) = 0
  BY TransferFacts DEF min_t
<1>2. CASE ~tx_ready
  BY <1>2 DEF usb_write_ep0, SendsStatus
<1>3. CASE tx_ready
  <2>1. /\ txbuf' = [src |-> hreq, off |-> 0, len |-> 0]
        /\ stat_tx' = "VALID" /\ trunc' = FALSE /\ todo' = -1
    BY <1>1, <1>3 DEF usb_write_ep0, usb_write, last_packet
  <2>2. txbuf'.len = 0
    BY <2>1
  <2> QED
    BY <2>1, <2>2 DEF SendsStatus
<1> QED
  BY <1>1, <1>2, <1>3

\* A complete request is refused, replied to or acknowledged (core.c:205-241).
LEMMA Answered ==
    ASSUME TransferOK, answer(hreq, -1), req' = hreq, acted = "no",
           handled(hreq) => acted' = "yes", ~handled(hreq) => acted' = "no",
           UNCHANGED <<hphase, hreq, hn, dup>>,
           ~dup, stat_tx \notin {"VALID", "STALL"},
           IF hreq.in /\ hreq.wLength > 0
           THEN hphase = "data" /\ hn = 0
           ELSE hphase = "status" /\ hn = hreq.wLength
    PROVE  \/ ~handled(hreq) /\ Refuses'
           \/ handled(hreq) /\ stat_tx' # "STALL"
                            /\ (SendsReply' \/ SendsStatus')
<1>1. CASE ~handled(hreq)
  <2>1. todo' = -1 /\ stat_tx' = "STALL"
    BY <1>1 DEF answer, usb_stall
  <2>2. HostExpectsIn'
    BY TransferFacts DEF HostExpectsIn
  <2> QED
    BY <1>1, <2>1, <2>2 DEF Refuses, handled
<1>2. CASE handled(hreq) /\ hreq.in
  <2>1. /\ data' = hreq /\ data_len' = reply_len(hreq)
        /\ usb_write_ep0(tx_ready, reply_len(hreq),
                         reply_len(hreq) < hreq.wLength, 0, hreq)
    BY <1>2 DEF answer
  <2>2. CASE hreq.wLength > 0
    BY <1>2, <2>1, <2>2, ReplyStarts DEF SendsReply
  <2>3. CASE hreq.wLength = 0
    <3>1. reply_len(hreq) = 0 /\ (reply_len(hreq) < hreq.wLength) = FALSE
      BY <2>3, TransferFacts
    <3>2. usb_write_ep0(tx_ready, 0, FALSE, 0, hreq)
      BY <2>1, <3>1
    <3>3. hphase = "status" /\ hn = hreq.wLength
      BY <2>3
    <3> QED
      BY <1>2, <2>3, <3>2, <3>3, StatusStarts DEF SendsStatus
  <2> QED
    BY <2>2, <2>3, TransferFacts
<1>3. CASE handled(hreq) /\ ~hreq.in
  <2>1. hphase = "status" /\ hn = hreq.wLength
    BY <1>3
  <2>2. usb_write_ep0(tx_ready, 0, FALSE, 0, hreq)
    BY <1>3 DEF answer
  <2> QED
    BY <1>3, <2>1, <2>2, StatusStarts DEF SendsStatus
<1> QED
  BY <1>1, <1>2, <1>3

\* The device acts on the whole of the host's request, once.
LEMMA RequestActed ==
    ASSUME TransferOK, DeviceActs(hreq), acted = "no", handled(hreq),
           UNCHANGED <<hphase, hreq, hn, hgood, result>>,
           hphase = "idle" \/ hreq.in \/ hn = hreq.wLength
    PROVE  acted' = "yes" /\ Pipe!Act
<1>1. acted' = "yes"
  BY DEF DeviceActs
<1> QED
  BY <1>1, TransferFacts DEF Pipe!Act
=============================================================================
