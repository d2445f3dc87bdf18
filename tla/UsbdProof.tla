----------------------------- MODULE UsbdProof -----------------------------
(***************************************************************************)
(* Proofs about Usbd, for every value of its constants: any set of         *)
(* requests, any packet size, and hosts that abandon transfers and lose    *)
(* acknowledgements.                                                       *)
(***************************************************************************)
EXTENDS Usbd, UsbHostProof

(* The next-state relation, one name for each kind of step, for the case    *)
(* splits below.                                                            *)
LEMMA NextCases ==
    ASSUME [Next]_vars
    PROVE  \/ \E r \in Requests : HostSetup(r)
           \/ HostIn \/ HostStalled \/ HostOut \/ HostPollsKeyboard
           \/ BusReset
           \/ usbd_process \/ handle_rx_transfer \/ handle_tx_transfer
           \/ handle_tx_keyboard \/ handle_reset \/ keyboard_process
           \/ UNCHANGED vars
BY DEF Next, Program, HostMoves

-----------------------------------------------------------------------------
(* Types.                                                                   *)

(* What the driver's handlers do to the keyboard endpoint keeps its type. *)
LEMMA EndpointType ==
    ASSUME NEW e \in Endpoints, NEW b \in BOOLEAN, NEW s \in TxStats
    PROVE  /\ [e EXCEPT !.ready = b] \in Endpoints
           /\ [e EXCEPT !.stat = s] \in Endpoints
           /\ [e EXCEPT !.ctr = b] \in Endpoints
           /\ [e EXCEPT !.ready = b, !.stat = s] \in Endpoints
           /\ [e EXCEPT !.stat = s, !.ctr = b] \in Endpoints
           /\ [e EXCEPT !.ctr = @ /\ b] \in Endpoints
BY DEF Endpoints

LEMMA AcceptType ==
    ASSUME TypeOK, NEW r \in Requests, accept(r) \/ no_request
    PROVE  /\ acted' \in {"no", "yes", "wrong"} /\ pending_addr' \in Nat
           /\ buf_end' \in Nat /\ initialised' \in BOOLEAN
           /\ ep1' \in Endpoints
<1> USE DEF TypeOK, DriverTypeOK, HostTypeOK
<1>1. CASE no_request
  BY <1>1 DEF no_request, class
<1>2. CASE accept(r)
  <2>1. acted' \in {"no", "yes", "wrong"}
    BY <1>2, DeviceActsType DEF accept
  <2>2. pending_addr' \in Nat
    BY <1>2, RequestType DEF accept
  <2>3. CASE r.act = "setconf"
    <3>1. min_t(buf_end + 2 * FS_MPS, BUF_CAP) \in Nat
      BY UsbdAssumption DEF min_t
    <3>2. [ready |-> TRUE, stat |-> "NAK", ctr |-> FALSE] \in Endpoints
      BY DEF Endpoints, TxStats
    <3>3. hid_set_configuration
      BY <1>2, <2>3 DEF accept
    <3> QED
      BY <2>1, <2>2, <3>1, <3>2, <3>3 DEF hid_set_configuration
  <2>4. CASE r.act # "setconf"
    BY <1>2, <2>1, <2>2, <2>4 DEF accept, class
  <2> QED
    BY <2>3, <2>4
<1> QED
  BY <1>1, <1>2

(* Every variable keeps its type (the declarations of core.c, defs.h and    *)
(* hw_usbd_at32f4.c).                                                       *)
THEOREM TypeCorrect == Spec => []TypeOK
<1>1. Init => TypeOK /\ HostInv
  <2> SUFFICES ASSUME Init PROVE TypeOK /\ HostInv
    OBVIOUS
  <2>1. CoreTypeOK
    <3>1. [src |-> req, off |-> 0, len |-> 0] \in Packets
      BY CoreAssumption DEF Init, Packets
    <3> QED
      BY <3>1 DEF Init, CoreTypeOK, TxStats
  <2>2. DriverTypeOK
    BY DEF Init, DriverTypeOK, TxStats, Endpoints, Snapshots, Events
  <2>3. HostTypeOK /\ DataBound
    BY DEF Init, HostInit, HostTypeOK, DataBound
  <2> QED
    BY <2>1, <2>2, <2>3 DEF TypeOK, HostInv
<1>2. TypeOK /\ HostInv /\ [Next]_vars => TypeOK' /\ HostInv'
  <2> SUFFICES ASSUME TypeOK, HostInv, [Next]_vars
               PROVE  CoreTypeOK' /\ DriverTypeOK' /\ HostInv'
    BY DEF TypeOK, HostInv
  <2>0. CoreTypeOK /\ DriverTypeOK /\ HostTypeOK
    BY DEF TypeOK
  <2>h. UNCHANGED host => HostInv'
    BY HostUnchangedInv
  <2>c. UNCHANGED core => CoreTypeOK'
    BY <2>0, CoreUnchangedType
  <2>1. ASSUME NEW r \in Requests, HostSetup(r)
        PROVE  CoreTypeOK' /\ DriverTypeOK' /\ HostInv'
    <3>1. CoreTypeOK'
      BY <2>0, <2>1 DEF HostSetup, CoreTypeOK, ep0, TxStats
    <3>2. DriverTypeOK'
      BY <2>0, <2>1
      DEF HostSetup, DriverTypeOK, addr, class, SETUP_LEN, TxStats
    <3>3. HostInv'
      BY <2>1, HostBeginsInv DEF HostSetup
    <3> QED
      BY <3>1, <3>2, <3>3
  <2>2. CASE HostIn
    <3>1. CoreTypeOK'
      BY <2>0, <2>2 DEF HostIn, CoreTypeOK, ep0, TxStats
    <3>2. DriverTypeOK'
      BY <2>0, <2>2 DEF HostIn, DriverTypeOK, addr, class, fifo
    <3>3. HostInv'
      BY <2>0, <2>2, HostTakesPacketInv DEF HostIn, CoreTypeOK
    <3> QED
      BY <3>1, <3>2, <3>3
  <2>3. CASE HostStalled
    BY <2>0, <2>3, <2>c, HostTakesStallInv
    DEF HostStalled, DriverTypeOK, addr, class, fifo
  <2>4. CASE HostOut
    <3>1. CoreTypeOK'
      BY <2>4, <2>c DEF HostOut
    <3>2. HostInv' /\ HostOutLen \in Nat
      BY <2>4, HostSendsOutInv DEF HostOut
    <3>3. DriverTypeOK'
      BY <2>0, <2>4, <3>2 DEF HostOut, DriverTypeOK, addr, class, TxStats
    <3> QED
      BY <3>1, <3>2, <3>3
  <2>5. CASE HostPollsKeyboard
    <3>1. ep1' \in Endpoints
      BY <2>0, <2>5, EndpointType
      DEF HostPollsKeyboard, DriverTypeOK, TxStats
    <3> QED
      BY <2>0, <2>5, <2>h, <2>c, <3>1
      DEF HostPollsKeyboard, DriverTypeOK, addr, fifo
  <2>6. CASE BusReset
    <3>1. CoreTypeOK'
      BY <2>0, <2>6 DEF BusReset, CoreTypeOK, ep0, TxStats
    <3>2. ep1' \in Endpoints
      BY <2>0, <2>6, EndpointType DEF BusReset, DriverTypeOK, TxStats
    <3>3. DriverTypeOK'
      BY <2>0, <2>6, <3>2 DEF BusReset, DriverTypeOK, TxStats
    <3> QED
      BY <2>6, <3>1, <3>3, HostSeesResetInv DEF BusReset
  <2>7. CASE usbd_process
    <3>1. istr' \in Snapshots
      BY <2>0, <2>7 DEF usbd_process, DriverTypeOK, Snapshots, Events
    <3>2. ep1' \in Endpoints
      <4>1. (ctr_rx \/ ctr_tx) \in BOOLEAN
        OBVIOUS
      <4> QED
        BY <2>0, <2>7, <4>1, EndpointType
        DEF usbd_process, DriverTypeOK, TxStats
    <3> QED
      BY <2>0, <2>7, <2>h, <2>c, <3>1, <3>2
      DEF usbd_process, DriverTypeOK, addr, fifo
  <2>8. CASE handle_rx_transfer
    <3>1. CoreTypeOK'
      BY <2>0, <2>8, SetupType, OutType DEF handle_rx_transfer, DriverTypeOK
    <3>2. /\ acted' \in {"no", "yes", "wrong"} /\ pending_addr' \in Nat
          /\ buf_end' \in Nat /\ initialised' \in BOOLEAN
          /\ ep1' \in Endpoints
      BY <2>0, <2>8, AcceptType
      DEF handle_rx_transfer, DriverTypeOK, CoreTypeOK
    <3>3. DriverTypeOK'
      BY <2>0, <2>8, <3>2
      DEF handle_rx_transfer, usbd_read, DriverTypeOK, AfterTransfer, TxStats
    <3>4. HostInv'
      BY <2>8, <3>2, HostActedInv DEF handle_rx_transfer
    <3> QED
      BY <3>1, <3>3, <3>4
  <2>9. CASE handle_tx_transfer
    <3>1. CoreTypeOK'
      BY <2>0, <2>9, TxType DEF handle_tx_transfer
    <3> QED
      BY <2>0, <2>9, <2>h, <3>1
      DEF handle_tx_transfer, take_address, DriverTypeOK, fifo, class, addr,
          AfterTransfer
  <2>10. CASE handle_tx_keyboard
    <3>1. ep1' \in Endpoints
      BY <2>0, <2>10, EndpointType
      DEF handle_tx_keyboard, DriverTypeOK, TxStats
    <3> QED
      BY <2>0, <2>10, <2>h, <2>c, <3>1
      DEF handle_tx_keyboard, DriverTypeOK, fifo, addr, AfterTransfer
  <2>11. CASE handle_reset
    <3>1. CoreTypeOK'
      BY <2>0, <2>11
      DEF handle_reset, forget_transfer, usb_configure_ep0, CoreTypeOK, TxStats
    <3>2. ep1' \in Endpoints /\ istr' \in Snapshots
      BY <2>0, <2>11, EndpointType
      DEF handle_reset, DriverTypeOK, Snapshots, TxStats
    <3>3. buf_end' \in Nat
      BY <2>11, UsbdAssumption DEF handle_reset
    <3> QED
      BY <2>0, <2>11, <2>h, <3>1, <3>2, <3>3
      DEF handle_reset, forget_transfer, usb_configure_ep0, DriverTypeOK,
          TxStats
  <2>12. CASE keyboard_process
    <3>1. ep1' \in Endpoints
      BY <2>0, <2>12, EndpointType DEF keyboard_process, DriverTypeOK, TxStats
    <3> QED
      BY <2>0, <2>12, <2>h, <2>c, <3>1
      DEF keyboard_process, DriverTypeOK, fifo, addr
  <2>13. CASE UNCHANGED vars
    BY <2>0, <2>13, <2>h, <2>c DEF vars, DriverTypeOK, fifo, addr, class
  <2> QED
    BY NextCases, <2>1, <2>2, <2>3, <2>4, <2>5, <2>6, <2>7, <2>8, <2>9,
       <2>10, <2>11, <2>12, <2>13
<1>3. TypeOK /\ HostInv => TypeOK
  OBVIOUS
<1> QED
  BY <1>1, <1>2, <1>3, PTL DEF Spec

-----------------------------------------------------------------------------
(* Endpoint 0 never goes deaf.                                              *)
(*                                                                          *)
(* RxOpen is not inductive: it must be known that a reset noticed in one    *)
(* poll is forgotten only by handle_reset, and that a disabled controller   *)
(* is one in reset or one that has never been used, so that no late         *)
(* completion gives it an address.                                          *)

SnapshotInv ==
    /\ pc \in {"poll", "keyboard"} => ~istr.reset
    /\ pc = "reset" => istr.reset

DisabledInv ==
    daddr = -1 => \/ Resetting
                  \/ pc # "transfer" /\ ~ctr_rx /\ ~ctr_tx /\ ~ep1.ctr

RxInv == SnapshotInv /\ DisabledInv /\ RxOpen

LEMMA SnapshotInductive ==
    ASSUME SnapshotInv, TypeOK, [Next]_vars
    PROVE  SnapshotInv'
<1> USE DEF SnapshotInv
<1>0. istr.reset \in BOOLEAN /\ bus_reset \in BOOLEAN
  BY DEF TypeOK, DriverTypeOK, Snapshots
<1>1. CASE UNCHANGED <<pc, istr>>
  BY <1>1
<1>2. CASE usbd_process
  BY <1>0, <1>2 DEF usbd_process
<1>3. CASE pc = "transfer" /\ pc' = AfterTransfer /\ UNCHANGED istr
  BY <1>0, <1>3 DEF AfterTransfer
<1>4. CASE handle_reset
  <2>1. istr'.reset = FALSE
    BY <1>4
    DEF handle_reset, forget_transfer, usb_configure_ep0, TypeOK, DriverTypeOK,
        Snapshots
  <2> QED
    BY <1>4, <2>1 DEF handle_reset
<1>5. CASE keyboard_process
  BY <1>5 DEF keyboard_process
<1> QED
  <2>1. (\E r \in Requests : HostSetup(r)) => UNCHANGED <<pc, istr>>
    BY DEF HostSetup
  <2>2. HostIn \/ HostStalled \/ HostOut \/ HostPollsKeyboard \/ BusReset
        \/ UNCHANGED vars => UNCHANGED <<pc, istr>>
    BY DEF HostIn, HostStalled, HostOut, HostPollsKeyboard, BusReset, vars
  <2>3. handle_rx_transfer \/ handle_tx_transfer \/ handle_tx_keyboard
        => pc = "transfer" /\ pc' = AfterTransfer /\ UNCHANGED istr
    BY DEF handle_rx_transfer, handle_tx_transfer, handle_tx_keyboard
  <2> QED
    BY <1>1, <1>2, <1>3, <1>4, <1>5, <2>1, <2>2, <2>3, NextCases

LEMMA DisabledInductive ==
    ASSUME TypeOK, SnapshotInv, DisabledInv, [Next]_vars
    PROVE  DisabledInv'
<1> USE DEF Resetting
<1>0. haddr # -1 /\ istr.reset \in BOOLEAN /\ bus_reset \in BOOLEAN
  BY DEF TypeOK, DriverTypeOK, HostTypeOK, Snapshots
<1>1. ASSUME NEW r \in Requests, HostSetup(r) PROVE DisabledInv'
  BY <1>0, <1>1 DEF HostSetup, Addressed, addr, DisabledInv
<1>2. CASE HostIn \/ HostStalled \/ HostOut \/ HostPollsKeyboard
  BY <1>0, <1>2
  DEF HostIn, HostStalled, HostOut, HostPollsKeyboard, Addressed, addr,
      DisabledInv
<1>3. CASE BusReset
  BY <1>3 DEF BusReset, DisabledInv
<1>4. CASE usbd_process
  <2>1. istr'.reset = bus_reset /\ daddr' = daddr /\ ~istr.reset
    BY <1>4 DEF usbd_process, addr, SnapshotInv
  <2>2. CASE bus_reset
    BY <2>1, <2>2 DEF DisabledInv
  <2>3. CASE ~bus_reset /\ daddr = -1
    <3>1. ~ctr_rx /\ ~ctr_tx /\ ~ep1.ctr
      BY <2>1, <2>3 DEF DisabledInv
    <3>2. ep1' = [ep1 EXCEPT !.ctr = ep1.ctr /\ (ctr_rx \/ ctr_tx)]
      BY <1>4 DEF usbd_process
    <3>3. ep1'.ctr = FALSE
      BY <3>1, <3>2 DEF TypeOK, DriverTypeOK, Endpoints
    <3>4. ~ctr_rx' /\ ~ctr_tx' /\ pc' = "keyboard"
      BY <1>4, <2>3, <3>1 DEF usbd_process
    <3> QED
      BY <3>3, <3>4 DEF DisabledInv
  <2> QED
    BY <2>1, <2>2, <2>3 DEF DisabledInv
<1>5. CASE handle_rx_transfer \/ handle_tx_transfer \/ handle_tx_keyboard
  <2>1. pc = "transfer" /\ UNCHANGED <<istr, bus_reset>>
    BY <1>5 DEF handle_rx_transfer, handle_tx_transfer, handle_tx_keyboard
  <2>2. daddr' = -1 => daddr = -1
    BY <1>5 DEF handle_rx_transfer, handle_tx_transfer, handle_tx_keyboard,
                take_address, addr, TypeOK, DriverTypeOK
  <2> QED
    BY <2>1, <2>2 DEF DisabledInv
<1>6. CASE handle_reset
  BY <1>6 DEF handle_reset, forget_transfer, usb_configure_ep0, DisabledInv
<1>7. CASE keyboard_process
  <2>1. /\ UNCHANGED <<daddr, istr, bus_reset, ctr_rx, ctr_tx>>
        /\ pc = "keyboard" /\ pc' = "poll"
    BY <1>7 DEF keyboard_process, addr
  <2>2. ep1'.ctr = ep1.ctr
    BY <1>7 DEF keyboard_process, TypeOK, DriverTypeOK, Endpoints
  <2> QED
    BY <2>1, <2>2 DEF DisabledInv
<1>8. CASE UNCHANGED vars
  BY <1>8 DEF vars, addr, class, DisabledInv
<1> QED
  BY NextCases, <1>1, <1>2, <1>3, <1>4, <1>5, <1>6, <1>7, <1>8

LEMMA RxInductive ==
    ASSUME TypeOK, RxInv, [Next]_vars
    PROVE  RxOpen'
<1> USE DEF Resetting, Handling, RxInv, RxOpen
<1>1. ASSUME NEW r \in Requests, HostSetup(r) PROVE RxOpen'
  BY <1>1 DEF HostSetup
<1>2. CASE HostOut
  BY <1>2 DEF HostOut
<1>3. CASE HostIn \/ HostStalled \/ HostPollsKeyboard
  BY <1>3 DEF HostIn, HostStalled, HostPollsKeyboard, addr, fifo
<1>4. CASE BusReset
  BY <1>4 DEF BusReset
<1>5. CASE usbd_process
  <2>1. /\ istr'.reset = bus_reset /\ ~istr.reset
        /\ UNCHANGED <<daddr, stat_rx>>
        /\ ctr_rx => Handling("rx")'
    BY <1>5 DEF usbd_process, addr, fifo, SnapshotInv
  <2> QED
    BY <1>5, <2>1 DEF usbd_process
<1>6. CASE handle_rx_transfer \/ handle_reset
  BY <1>6 DEF handle_rx_transfer, usbd_read, handle_reset, usb_configure_ep0
<1>7. CASE handle_tx_transfer \/ handle_tx_keyboard
  <2>1. /\ ~Handling("rx") /\ pc = "transfer"
        /\ UNCHANGED <<stat_rx, ctr_rx, bus_reset, istr>>
    BY <1>7 DEF handle_tx_transfer, handle_tx_keyboard, fifo
  <2> QED
    BY <2>1 DEF DisabledInv
<1>8. CASE keyboard_process
  BY <1>8 DEF keyboard_process, addr, fifo
<1>9. CASE UNCHANGED vars
  BY <1>9 DEF vars, addr, fifo
<1> QED
  BY NextCases, <1>1, <1>2, <1>3, <1>4, <1>5, <1>6, <1>7, <1>8, <1>9

(* Whatever the host does, endpoint 0 can receive again as soon as the      *)
(* program has looked at the last packet (usbd_read on every path of        *)
(* handle_rx_ep0, core.c:171-211).                                          *)
THEOREM NeverDeaf == Spec => []RxOpen
<1>1. Init => RxInv
  BY DEF Init, HostInit, RxInv, SnapshotInv, DisabledInv, RxOpen
<1>2. TypeOK /\ RxInv /\ [Next]_vars => RxInv'
  BY SnapshotInductive, DisabledInductive, RxInductive DEF RxInv
<1>3. RxInv => RxOpen
  BY DEF RxInv
<1> QED
  BY <1>1, <1>2, <1>3, TypeCorrect, PTL DEF Spec

-----------------------------------------------------------------------------
(* The keyboard endpoint's soft flag.                                       *)
(*                                                                          *)
(* The packet in flight, the CTR bit that reports it and the handler that   *)
(* serves it follow one another: no two of them at once.                    *)

KeyboardStages ==
    initialised /\ ~Resetting =>
        /\ ~(ep1.stat = "VALID" /\ ep1.ctr)
        /\ Handling("tx1") => ep1.stat # "VALID" /\ ~ep1.ctr

KeyboardInv == SnapshotInv /\ KeyboardStages /\ KeyboardTxAccounted

LEMMA KeyboardInductive ==
    ASSUME TypeOK, KeyboardInv, [Next]_vars
    PROVE  KeyboardStages' /\ KeyboardTxAccounted'
<1>0. /\ ep1 \in Endpoints /\ istr.reset \in BOOLEAN
      /\ bus_reset \in BOOLEAN
  BY DEF TypeOK, DriverTypeOK, Snapshots
<1> USE DEF Resetting, Handling, KeyboardInv, KeyboardStages,
            KeyboardTxAccounted
<1>1. CASE UNCHANGED <<class, pc, istr, bus_reset>>
  BY <1>1 DEF class
<1>2. CASE HostPollsKeyboard
  <2>1. ep1' = [ep1 EXCEPT !.stat = "NAK", !.ctr = TRUE]
        /\ ep1.stat = "VALID" /\ UNCHANGED <<pc, istr, bus_reset, initialised>>
    BY <1>2 DEF HostPollsKeyboard
  <2>2. ep1'.stat = "NAK" /\ ep1'.ctr = TRUE /\ ep1'.ready = ep1.ready
    BY <1>0, <2>1 DEF Endpoints
  <2> QED
    BY <2>1, <2>2
<1>3. CASE BusReset
  BY <1>3 DEF BusReset
<1>4. CASE usbd_process
  <2>1. /\ istr'.reset = bus_reset /\ ~istr.reset /\ pc = "poll"
        /\ initialised' = initialised
        /\ Handling("tx1")' <=> ep1.ctr /\ ~ctr_rx /\ ~ctr_tx
    BY <1>4 DEF usbd_process, SnapshotInv
  <2>2. /\ ep1'.ctr <=> ep1.ctr /\ (ctr_rx \/ ctr_tx)
        /\ ep1'.stat = ep1.stat /\ ep1'.ready = ep1.ready
    BY <1>0, <1>4 DEF usbd_process, Endpoints
  <2>3. bus_reset' = FALSE /\ ~(istr.reset)
    BY <1>4, <2>1 DEF usbd_process
  <2> QED
    BY <2>1, <2>2, <2>3
<1>5. CASE handle_rx_transfer
  <2>1. /\ pc = "transfer" /\ istr.ev = "rx" /\ pc' # "transfer"
        /\ UNCHANGED <<istr, bus_reset>>
    BY <1>5 DEF handle_rx_transfer, AfterTransfer
  <2>2. UNCHANGED class \/ hid_set_configuration
    BY <1>5 DEF handle_rx_transfer, accept, no_request
  <2>3. CASE UNCHANGED class
    BY <2>1, <2>3 DEF class
  <2>4. CASE hid_set_configuration
    BY <2>1, <2>4 DEF hid_set_configuration
  <2> QED
    BY <2>2, <2>3, <2>4
<1>6. CASE handle_tx_transfer
  BY <1>6 DEF handle_tx_transfer, AfterTransfer, class
<1>7. CASE handle_tx_keyboard
  <2>1. /\ Handling("tx1") /\ pc' # "transfer"
        /\ UNCHANGED <<istr, bus_reset, initialised>>
    BY <1>7 DEF handle_tx_keyboard, AfterTransfer
  <2>2. ep1'.ready = TRUE /\ ep1'.stat = ep1.stat /\ ep1'.ctr = ep1.ctr
    BY <1>0, <1>7 DEF handle_tx_keyboard, Endpoints
  <2> QED
    BY <2>1, <2>2
<1>8. CASE handle_reset
  BY <1>8 DEF handle_reset
<1>9. CASE keyboard_process
  <2>1. /\ pc = "keyboard" /\ pc' = "poll"
        /\ UNCHANGED <<istr, bus_reset, initialised>>
    BY <1>9 DEF keyboard_process
  <2>2. CASE UNCHANGED ep1
    BY <2>1, <2>2
  <2>3. CASE ep1.ready /\ initialised
             /\ ep1' = [ep1 EXCEPT !.ready = FALSE, !.stat = "VALID"]
    <3>1. ep1'.ready = FALSE /\ ep1'.stat = "VALID" /\ ep1'.ctr = ep1.ctr
      BY <1>0, <2>3 DEF Endpoints
    <3> QED
      BY <2>1, <2>3, <3>1
  <2> QED
    BY <1>9, <2>2, <2>3 DEF keyboard_process
<1> QED
  <2>1. (\E r \in Requests : HostSetup(r))
        => UNCHANGED <<class, pc, istr, bus_reset>>
    BY DEF HostSetup
  <2>2. HostIn \/ HostStalled \/ HostOut \/ UNCHANGED vars
        => UNCHANGED <<class, pc, istr, bus_reset>>
    BY DEF HostIn, HostStalled, HostOut, vars
  <2> QED
    BY NextCases, <1>1, <1>2, <1>3, <1>4, <1>5, <1>6, <1>7, <1>8, <1>9,
       <2>1, <2>2

(* No report is overwritten in flight and the endpoint never stays marked   *)
(* busy with nothing in it (hw_usbd_at32f4.c:170-208, 348-360; keyboard.c:  *)
(* 170-174).                                                                *)
THEOREM KeyboardEndpoint == Spec => []KeyboardTxAccounted
<1>1. Init => KeyboardInv
  BY DEF Init, KeyboardInv, SnapshotInv, KeyboardStages, KeyboardTxAccounted
<1>2. TypeOK /\ KeyboardInv /\ [Next]_vars => KeyboardInv'
  BY SnapshotInductive, KeyboardInductive DEF KeyboardInv
<1>3. KeyboardInv => KeyboardTxAccounted
  BY DEF KeyboardInv
<1> QED
  BY <1>1, <1>2, <1>3, TypeCorrect, PTL DEF Spec
-----------------------------------------------------------------------------
(* The driver implements the abstract control pipe, for every set of        *)
(* requests, packet size and host that does not abandon transfers, with or  *)
(* without lost acknowledgements and bus resets.  The same invariant gives  *)
(* endpoint 0's soft flag and the address, under what each of them needs.   *)
(*                                                                          *)
(* The inductive invariant says where the device is in the host's transfer: *)
(* the host's phase and byte count determine what ep0 and the two buffers   *)
(* of endpoint 0 hold.                                                      *)

(* A received packet, and a completion, that the program has yet to handle. *)
RxPending == ctr_rx \/ Handling("rx")
TxPending == ctr_tx \/ Handling("tx0")
SetupPending == RxPending /\ rx_setup

\* The controller answers to no address, or will be reset.
Off == Resetting \/ daddr = -1

(* Endpoint 0's buffers: one packet at a time in each direction.            *)
BufferInv ==
    /\ RxPending => stat_rx # "VALID"
    /\ Handling("rx") => ~ctr_rx /\ istr.setup = rx_setup
    /\ Handling("tx0") => ~ctr_tx
    /\ TxPending => ~tx_ready
    /\ tx_ready \/ TxPending => stat_tx # "VALID"

(* What the device is about to act on is the host's request, even after a   *)
(* bus reset that it has not noticed.                                       *)
ActInv ==
    /\ SetupPending => rx_req = hreq /\ acted = "no"
    /\ RxPending /\ ~rx_setup /\ ~req.in /\ data_len >= 0 =>
          req = hreq /\ acted = "no"

(* The device's side of a transfer, as far as the host's progress in it     *)
(* determines it.  Asking: the SETUP is not handled yet.  Receiving: data   *)
(* from the host.  Replying: data to the host.  Acking: the status stage    *)
(* from the device.  Refusing: the stall.                                   *)
Resting ==
    /\ hphase = "idle" /\ ~SetupPending
    /\ todo = -1
    /\ RxPending => req.in

Asking ==
    /\ SetupPending
    /\ hphase = IF hreq.wLength = 0 THEN "status" ELSE "data"
    /\ hn = 0
    /\ todo = -1 /\ stat_tx = "NAK" /\ ~dup

Receiving ==
    /\ ~SetupPending /\ req = hreq /\ acted = "no"
    /\ ~hreq.in /\ hreq.wLength > 0
    /\ hn <= hreq.wLength
    /\ hphase = IF hn = hreq.wLength THEN "status" ELSE "data"
    /\ data_len >= 0 /\ data_len + (IF RxPending THEN rx_len ELSE 0) = hn
    /\ hphase = "status" => RxPending
    /\ todo = -1 /\ stat_tx \notin {"VALID", "STALL"} /\ ~dup

Refusing == ~RxPending /\ Refuses

Replying == ~RxPending /\ SendsReply

Acking == ~RxPending /\ SendsStatus

Phase ==
    Off \/ Resting \/ Asking \/ Receiving \/ Refusing \/ Replying \/ Acking

PipeInv ==
    /\ BufferInv /\ ActInv /\ Phase
    /\ hgood = TRUE
    /\ Off => hphase = "idle"

Known == TypeOK /\ SnapshotInv /\ DisabledInv /\ PipeInv

\* What is to be shown of every step.
PipeStep ==
    /\ Phase' /\ hgood' = TRUE
    /\ Off' => hphase' = "idle"
    /\ [Pipe!Next]_(Pipe!vars)

-----------------------------------------------------------------------------
(* The buffers of endpoint 0.                                               *)

LEMMA BufferInductive ==
    ASSUME TypeOK, BufferInv, [Next]_vars
    PROVE  BufferInv'
<1>0. /\ ctr_rx \in BOOLEAN /\ ctr_tx \in BOOLEAN /\ tx_ready \in BOOLEAN
      /\ rx_setup \in BOOLEAN /\ istr \in Snapshots
  BY DEF TypeOK, CoreTypeOK, DriverTypeOK
<1> USE DEF BufferInv, RxPending, TxPending, Handling
<1>1. ASSUME NEW r \in Requests, HostSetup(r) PROVE BufferInv'
  BY <1>0, <1>1 DEF HostSetup
<1>2. CASE HostIn
  BY <1>0, <1>2 DEF HostIn, fifo
<1>3. CASE HostOut
  BY <1>0, <1>3 DEF HostOut, core, tx0
<1>4. CASE BusReset
  BY <1>0, <1>4 DEF BusReset
<1>5. CASE usbd_process
  <2>1. /\ istr'.setup = rx_setup /\ ctr_rx' = FALSE
        /\ pc = "poll" /\ UNCHANGED <<stat_rx, rx_setup, tx_ready, stat_tx>>
        /\ ctr_tx' = (ctr_tx /\ ctr_rx)
    BY <1>5 DEF usbd_process, core, tx0, fifo
  <2>2. /\ Handling("rx")' <=> ctr_rx
        /\ Handling("tx0")' <=> ctr_tx /\ ~ctr_rx
    BY <1>5 DEF usbd_process
  <2> QED
    BY <1>0, <2>1, <2>2
<1>6. CASE handle_rx_transfer
  <2>1. /\ Handling("rx") /\ pc' # "transfer"
        /\ UNCHANGED <<ctr_rx, ctr_tx>>
    BY <1>6 DEF handle_rx_transfer, AfterTransfer
  <2>2. \/ UNCHANGED <<tx_ready, stat_tx>>
        \/ stat_tx' # "VALID" /\ UNCHANGED tx_ready
        \/ tx_ready /\ tx_ready' = FALSE
    BY <1>0, <1>6
    DEF handle_rx_transfer, handle_rx_setup, handle_rx_out, answer, usb_stall,
        usb_write_ep0, usb_write, tx0
  <2> QED
    BY <1>0, <2>1, <2>2
<1>7. CASE handle_tx_transfer
  <2>1. /\ Handling("tx0") /\ pc' # "transfer"
        /\ UNCHANGED <<stat_rx, rx_setup, ctr_rx, ctr_tx>>
    BY <1>7 DEF handle_tx_transfer, AfterTransfer, fifo
  <2>2. \/ UNCHANGED stat_tx
        \/ tx_ready' = FALSE
    BY <1>7 DEF handle_tx_transfer, handle_tx_ep0, usb_write_ep0, usb_write
  <2> QED
    BY <1>0, <2>1, <2>2
<1>8. CASE handle_reset
  BY <1>0, <1>8 DEF handle_reset, usb_configure_ep0
<1>9. CASE handle_tx_keyboard \/ keyboard_process
  BY <1>0, <1>9
  DEF handle_tx_keyboard, keyboard_process, AfterTransfer, core, tx0, fifo
<1>10. CASE HostStalled \/ HostPollsKeyboard \/ UNCHANGED vars
  BY <1>0, <1>10 DEF HostStalled, HostPollsKeyboard, vars, core, tx0, fifo
<1> QED
  BY NextCases, <1>1, <1>2, <1>3, <1>4, <1>5, <1>6, <1>7, <1>8, <1>9, <1>10
-----------------------------------------------------------------------------
(* What the device is about to act on.                                      *)

\* The host sends data only to a device that is receiving it, and an empty
\* packet only to one that has sent the whole reply.
LEMMA OutPhases ==
    ASSUME Known, ~Abort, HostOut
    PROVE  /\ ~Off /\ ~RxPending
           /\ \/ Receiving /\ hphase = "data"
              \/ Replying /\ hphase = "status"
<1>1. hphase # "idle" /\ stat_rx = "VALID"
  BY DEF HostOut, HostSendsOut
<1>2. ~Off /\ ~RxPending
  BY <1>1 DEF Known, PipeInv, BufferInv
<1>3. \/ hphase = "data" /\ ~hreq.in
      \/ hphase = "status" /\ hreq.in /\ hreq.wLength > 0
  BY DEF HostOut, HostSendsOut
<1>4. ~Refusing
  BY <1>3 DEF Refusing, Refuses, HostExpectsIn, Known, TypeOK, HostTypeOK
<1>5. ~Acking
  BY <1>3 DEF Acking, SendsStatus
<1>6. ~Resting /\ ~Asking
  BY <1>1, <1>2 DEF Resting, Asking, SetupPending
<1>7. Receiving => hphase = "data"
  BY <1>2, <1>3 DEF Receiving
<1>8. Replying => hphase = "status"
  BY <1>3 DEF Replying, SendsReply
<1> QED
  BY <1>2, <1>4, <1>5, <1>6, <1>7, <1>8 DEF Known, PipeInv, Phase

LEMMA ActInductive ==
    ASSUME Known, ~Abort, [Next]_vars
    PROVE  ActInv'
<1> USE DEF ActInv, SetupPending
<1>0. ActInv /\ BufferInv /\ TypeOK
  BY DEF Known, PipeInv
<1>1. ASSUME NEW r \in Requests, HostSetup(r) PROVE ActInv'
  BY <1>1 DEF HostSetup, HostBegins
<1>2. CASE HostOut
  <2>1. /\ rx_setup' = FALSE
        /\ UNCHANGED <<req, data_len, hreq, acted>>
    BY <1>2 DEF HostOut, HostSendsOut, core, ep0
  <2>2. ~req.in => req = hreq /\ acted = "no"
    BY <1>2, OutPhases DEF Receiving, Replying, SendsReply
  <2> QED
    BY <2>1, <2>2
<1>3. CASE ~RxPending'
  BY <1>3
<1>4. CASE UNCHANGED <<rx_setup, rx_req, hreq, acted, req, data_len>>
           /\ (RxPending' <=> RxPending)
  BY <1>0, <1>4
<1>5. CASE HostIn \/ HostStalled \/ HostPollsKeyboard \/ BusReset
           \/ UNCHANGED vars
  <2>1. UNCHANGED <<rx_setup, rx_req, hreq, acted, req, data_len>>
    BY <1>5
    DEF HostIn, HostTakesPacket, HostTakesData, HostTakesStatus, HostStalled,
        HostTakesStall, HostPollsKeyboard, BusReset, HostSeesReset, vars, core,
        ep0, fifo, host, xfer
  <2>2. RxPending' <=> RxPending
    BY <1>5 DEF HostIn, HostStalled, HostPollsKeyboard, BusReset, vars,
                RxPending, Handling
  <2> QED
    BY <1>4, <2>1, <2>2
<1>6. CASE usbd_process \/ handle_tx_transfer \/ handle_tx_keyboard
           \/ keyboard_process
  <2>1. UNCHANGED <<rx_setup, rx_req, hreq, acted, req, data_len>>
    BY <1>6
    DEF usbd_process, handle_tx_transfer, handle_tx_ep0, handle_tx_keyboard,
        keyboard_process, core, ep0, fifo, host, xfer
  <2>2. RxPending' <=> RxPending
    BY <1>0, <1>6
    DEF usbd_process, handle_tx_transfer, handle_tx_keyboard, keyboard_process,
        AfterTransfer, RxPending, Handling, TypeOK, DriverTypeOK
  <2> QED
    BY <1>4, <2>1, <2>2
<1>7. CASE handle_rx_transfer \/ handle_reset
  BY <1>0, <1>3, <1>7
  DEF handle_rx_transfer, AfterTransfer, handle_reset, usb_configure_ep0,
      RxPending, Handling, BufferInv
<1> QED
  BY NextCases, <1>1, <1>2, <1>5, <1>6, <1>7

-----------------------------------------------------------------------------
(* The host's moves.                                                        *)

\* What the module needs of the host's types.
LEMMA HostFacts ==
    ASSUME Known
    PROVE  /\ TransferOK
           /\ hreq \in Requests /\ hn \in Nat /\ haddr # -1
           /\ hreq.in \in BOOLEAN /\ hreq.wLength \in Nat
           /\ reply_len(hreq) \in Nat /\ reply_len(hreq) <= hreq.wLength
           /\ dup \in BOOLEAN /\ trunc \in BOOLEAN
           /\ todo \in Nat \cup {-1} /\ data_len \in Nat \cup {-1}
           /\ hphase \in {"idle", "data", "status"}
           /\ EP0_MPS \in Nat \ {0}
           /\ hgood = TRUE /\ Phase /\ BufferInv /\ ActInv
<1>1. TransferOK
  BY DEF Known, PipeInv, TransferOK, TypeOK
<1> QED
  BY <1>1, TransferFacts DEF Known, PipeInv

\* The host moves only while the device is in one of the phases.
LEMMA OffPhases ==
    ASSUME Known, Off
    PROVE  /\ hphase = "idle"
           /\ ~HostExpectsIn /\ ~HostOut
           /\ \A r \in Requests : ~HostSetup(r)
<1>1. hphase = "idle"
  BY DEF Known, PipeInv
<1>2. haddr # -1
  BY HostFacts
<1> QED
  BY <1>1, <1>2
  DEF HostExpectsIn, HostOut, HostSendsOut, HostSetup, Addressed, Off,
      Resetting

\* Only handle_reset ends a bus reset.
LEMMA OffEnds ==
    ASSUME Known, [Next]_vars, Off, ~Off'
    PROVE  handle_reset
<1>0. /\ SnapshotInv /\ DisabledInv
      /\ istr.reset \in BOOLEAN /\ bus_reset \in BOOLEAN
  BY DEF Known, TypeOK, DriverTypeOK, Snapshots
<1>1. ASSUME NEW r \in Requests, HostSetup(r) PROVE FALSE
  BY <1>1, OffPhases
<1>2. CASE HostIn \/ HostStalled \/ HostOut
  BY <1>2, OffPhases DEF HostIn, HostTakesPacket, HostStalled
<1>3. CASE BusReset
  BY <1>3 DEF BusReset, Off, Resetting
<1>4. CASE usbd_process
  BY <1>0, <1>4 DEF usbd_process, addr, Off, Resetting, SnapshotInv
<1>5. CASE handle_rx_transfer \/ handle_tx_transfer \/ handle_tx_keyboard
  <2>1. Resetting
    BY <1>0, <1>5
    DEF handle_rx_transfer, handle_tx_transfer, handle_tx_keyboard, Off,
        DisabledInv
  <2> QED
    BY <1>5, <2>1
    DEF handle_rx_transfer, handle_tx_transfer, handle_tx_keyboard, Off,
        Resetting
<1>6. CASE HostPollsKeyboard \/ keyboard_process \/ UNCHANGED vars
  BY <1>6 DEF HostPollsKeyboard, keyboard_process, vars, addr, Off, Resetting
<1> QED
  BY NextCases, <1>1, <1>2, <1>3, <1>4, <1>5, <1>6

\* Between transfers the device rests.
LEMMA IdleRests ==
    ASSUME Known, ~Off, hphase = "idle"
    PROVE  Resting
BY HostFacts
DEF Phase, Asking, Receiving, Refusing, Refuses, HostExpectsIn, Replying,
    SendsReply, Queued, Unqueued, Acking, SendsStatus

LEMMA SetupStep ==
    ASSUME Known, ~Abort, NEW r \in Requests, HostSetup(r)
    PROVE  PipeStep
<1>1. hphase = "idle" /\ ~Off
  BY OffPhases DEF HostSetup, HostBegins
<1>2. Resting
  BY <1>1, IdleRests
<1>3. ~Off'
  BY <1>1 DEF HostSetup, Off, Resetting, addr
<1>4. Asking'
  BY <1>2
  DEF HostSetup, HostBegins, Asking, SetupPending, RxPending, Resting, ep0
<1>5. hgood' = TRUE
  BY DEF HostSetup, HostBegins
<1>6. Pipe!Setup(r)
  BY <1>1, <1>5 DEF HostSetup, HostBegins, Pipe!Setup
<1> QED
  BY <1>3, <1>4, <1>5, <1>6 DEF PipeStep, Phase, Pipe!Next

LEMMA StalledStep ==
    ASSUME Known, HostStalled
    PROVE  PipeStep
<1>1. ~Off /\ hphase # "idle" /\ stat_tx = "STALL"
  BY OffPhases DEF HostStalled, HostTakesStall
<1>2. Refusing
  BY <1>1, HostFacts
  DEF Phase, Resting, Asking, Receiving, Replying, SendsReply, Acking,
      SendsStatus
<1>3. hgood' = TRUE /\ hphase' = "idle" /\ Pipe!Refuse
  BY <1>2, HostFacts, RefusalTaken DEF HostStalled, Refusing
<1>4. UNCHANGED <<todo, ctr_rx, pc, istr, bus_reset, daddr>>
  BY DEF HostStalled, core, ep0, addr
<1>5. Resting'
  BY <1>2, <1>3, <1>4
  DEF Refusing, Refuses, Resting, SetupPending, RxPending, Handling
<1> QED
  BY <1>3, <1>5 DEF PipeStep, Phase, Pipe!Next

LEMMA OutStep ==
    ASSUME Known, ~Abort, HostOut
    PROVE  PipeStep
<1>0. /\ UNCHANGED <<hreq, acted, dup>>
      /\ UNCHANGED <<req, data_len, todo, stat_tx>>
      /\ RxPending' /\ ~SetupPending' /\ rx_len' = HostOutLen
      /\ ~Off' /\ ~RxPending
  BY HostFacts, OutPhases
  DEF HostOut, HostSendsOut, core, ep0, tx0, SetupPending, RxPending, Off,
      Resetting, addr
<1>1. CASE Receiving /\ hphase = "data"
  <2>1. ~hreq.in /\ acted = "no" /\ hn < hreq.wLength
    BY <1>1, HostFacts DEF Receiving
  <2>2. /\ HostOutLen \in Nat \ {0}
        /\ hn' = hn + HostOutLen /\ hn' <= hreq.wLength
        /\ hphase' = IF hn' = hreq.wLength THEN "status" ELSE "data"
        /\ hgood' = TRUE /\ Pipe!DataOut
    BY <1>1, <2>1, HostFacts, DataSent DEF HostOut
  <2>3. data_len \in Int /\ data_len = hn
    BY <1>0, <1>1, HostFacts DEF Receiving
  <2>4. Receiving'
    BY <1>0, <1>1, <2>2, <2>3, HostFacts DEF Receiving
  <2> QED
    BY <1>0, <2>2, <2>4 DEF PipeStep, Phase, Pipe!Next
<1>2. CASE Replying /\ hphase = "status"
  <2>1. /\ hphase' = "idle" /\ hgood' = TRUE /\ todo = -1
        /\ Pipe!Complete
    BY <1>2, HostFacts, StatusSent DEF HostOut, Replying, SendsReply
  <2>2. Resting'
    BY <1>0, <1>2, <2>1 DEF Resting, Replying, SendsReply
  <2> QED
    BY <1>0, <2>1, <2>2 DEF PipeStep, Phase, Pipe!Next
<1> QED
  BY <1>1, <1>2, OutPhases

\* The host gets data only from a device that has queued it.
LEMMA InPhases ==
    ASSUME Known, HostIn
    PROVE  ~Off /\ (Replying \/ (Acking /\ ~dup))
<1>1. ~Off /\ HostExpectsIn /\ stat_tx = "VALID"
  BY OffPhases DEF HostIn, HostTakesPacket
<1>2. ~Resting
  BY <1>1 DEF Resting, HostExpectsIn
<1>3. ~Asking /\ ~Receiving /\ ~Refusing
  BY <1>1 DEF Asking, Receiving, Refusing, Refuses
<1> QED
  BY <1>1, <1>2, <1>3, HostFacts DEF Phase, Acking, SendsStatus

LEMMA InStep ==
    ASSUME Known, HostIn
    PROVE  PipeStep
<1>0. /\ UNCHANGED <<ep0, txbuf, rx_setup>>
      /\ (RxPending' <=> RxPending) /\ (Off' <=> Off)
      /\ \/ stat_tx' = "NAK" /\ dup' = FALSE
         \/ stat_tx' = "VALID" /\ dup' = TRUE
  BY DEF HostIn, fifo, addr, RxPending, Handling, Off, Resetting
<1>1. /\ hgood' = TRUE /\ [Pipe!Next]_(Pipe!vars)
      /\ \/ SendsReply /\ SendsReply'
         \/ SendsStatus /\ HostTakesStatus /\ todo' = -1
  BY <1>0, HostFacts, InPhases, PacketTaken DEF HostIn, Replying, Acking
<1>2. ~RxPending' /\ ~Off'
  BY <1>0, InPhases DEF Replying, SendsReply, Acking, SendsStatus
<1>3. Replying' \/ Resting'
  BY <1>1, <1>2 DEF Replying, Resting, SetupPending, HostTakesStatus
<1> QED
  BY <1>1, <1>2, <1>3 DEF PipeStep, Phase

LEMMA ResetBusStep ==
    ASSUME Known, BusReset
    PROVE  PipeStep
<1>1. /\ Off' /\ hphase' = "idle" /\ hgood' = TRUE /\ result' = "reset"
      /\ UNCHANGED <<hreq, hn, acted>>
  BY HostFacts DEF BusReset, HostSeesReset, Off, Resetting
<1>2. Pipe!Reset
  BY <1>1, HostFacts DEF Pipe!Reset
<1> QED
  BY <1>1, <1>2 DEF PipeStep, Phase, Pipe!Next

-----------------------------------------------------------------------------
(* The program's moves.                                                     *)

\* Steps that leave the transfer and its buffers alone.
LEMMA FrameStep ==
    ASSUME Known, UNCHANGED <<ep0, stat_tx, txbuf, fifo, host>>,
           RxPending' <=> RxPending, Off' <=> Off
    PROVE  PipeStep
<1>1. UNCHANGED <<req, data_len, todo, stat_tx, rx_setup, rx_len, hphase,
                  hreq, hn, hgood, dup, acted>>
  BY DEF ep0, fifo, host, xfer
<1>2. /\ Replying' <=> Replying
      /\ Acking' <=> Acking
      /\ Refusing' <=> Refusing
      /\ UNCHANGED Pipe!vars
  BY StageFrame DEF Replying, Acking, Refusing
<1>3. Phase'
  <2>1. Resting => Resting'
    BY <1>1 DEF Resting, SetupPending
  <2>2. Asking => Asking'
    BY <1>1 DEF Asking, SetupPending
  <2>3. Receiving => Receiving'
    BY <1>1 DEF Receiving, SetupPending
  <2> QED
    BY <1>2, <2>1, <2>2, <2>3, HostFacts DEF Phase
<1> QED
  BY <1>1, <1>2, <1>3 DEF PipeStep, Known, PipeInv

LEMMA QuietStep ==
    ASSUME Known,
           \/ usbd_process \/ handle_tx_keyboard \/ keyboard_process
           \/ HostPollsKeyboard \/ UNCHANGED vars
    PROVE  PipeStep
<1>0. /\ ctr_rx \in BOOLEAN /\ istr.reset \in BOOLEAN
      /\ bus_reset \in BOOLEAN
  BY DEF Known, TypeOK, DriverTypeOK, Snapshots
<1>1. UNCHANGED <<ep0, stat_tx, txbuf, fifo, host, daddr>>
  BY DEF usbd_process, handle_tx_keyboard, keyboard_process,
         HostPollsKeyboard, vars, addr, core, tx0
<1>2. RxPending' <=> RxPending
  BY <1>0
  DEF usbd_process, handle_tx_keyboard, keyboard_process, HostPollsKeyboard,
      vars, AfterTransfer, RxPending, Handling
<1>3. Resetting' <=> Resetting
  <2>1. CASE usbd_process
    BY <1>0, <2>1 DEF usbd_process, Resetting, Known, SnapshotInv
  <2>2. CASE ~usbd_process
    BY <2>2 DEF handle_tx_keyboard, keyboard_process, HostPollsKeyboard, vars,
                Resetting
  <2> QED
    BY <2>1, <2>2
<1> QED
  BY <1>1, <1>2, <1>3, FrameStep DEF Off

LEMMA ResetStep ==
    ASSUME Known, handle_reset
    PROVE  PipeStep
<1>1. hphase = "idle"
  BY DEF Known, SnapshotInv, PipeInv, handle_reset, Off, Resetting
<1>2. UNCHANGED <<hphase, hreq, hn, hgood, result, acted>>
  BY DEF handle_reset, host, xfer
<1>3. Resting'
  BY <1>1, <1>2
  DEF handle_reset, forget_transfer, usb_configure_ep0, Resting, SetupPending,
      RxPending, Handling
<1>4. UNCHANGED Pipe!vars
  BY <1>2 DEF Pipe!vars
<1> QED
  BY <1>1, <1>2, <1>3, <1>4, HostFacts DEF PipeStep, Phase

\* The completion of a packet sends the next one.
LEMMA TxStep ==
    ASSUME Known, handle_tx_transfer
    PROVE  PipeStep
<1>0. /\ UNCHANGED <<fifo, host, req, data_len, data>>
      /\ (RxPending' <=> RxPending) /\ (Off' <=> Off)
      /\ stat_tx # "VALID" /\ ~TxPending'
  <2>1. ~Off => daddr' # -1
    <3>1. pending_addr \in Nat
      BY DEF Known, TypeOK, DriverTypeOK
    <3>2. daddr' = daddr \/ daddr' = pending_addr
      BY DEF handle_tx_transfer, take_address, addr
    <3> QED
      BY <3>1, <3>2 DEF Off
  <2>2. TxPending /\ pc' # "transfer" /\ UNCHANGED <<istr, bus_reset, ctr_tx>>
    BY DEF handle_tx_transfer, AfterTransfer, TxPending, Handling
  <2>3. UNCHANGED <<fifo, host, req, data_len, data>>
        /\ (RxPending' <=> RxPending)
    BY
    DEF handle_tx_transfer, handle_tx_ep0, AfterTransfer, RxPending, Handling
  <2>4. Off' <=> Off
    <3>1. daddr = -1 => Resetting
      BY DEF Known, DisabledInv, handle_tx_transfer
    <3> QED
      BY <2>1, <2>2, <3>1 DEF Off, Resetting
  <2>5. stat_tx # "VALID" /\ ~TxPending'
    BY <2>2 DEF Known, PipeInv, BufferInv, handle_tx_transfer, TxPending,
                Handling
  <2> QED
    BY <2>3, <2>4, <2>5
<1>1. UNCHANGED Pipe!vars /\ UNCHANGED <<hphase, hgood>>
  BY <1>0 DEF Pipe!vars, host, xfer
<1>2. /\ SendsReply => SendsReply'
      /\ SendsStatus => SendsStatus'
      /\ todo = -1 => UNCHANGED <<ep0, stat_tx, txbuf>>
  BY <1>0, HostFacts, NextPacket DEF handle_tx_transfer, handle_tx_ep0
<1>3. CASE Off
  BY <1>0, <1>1, <1>3, HostFacts DEF PipeStep, Phase, Known, PipeInv
<1>4. CASE Replying \/ Acking
  BY <1>0, <1>1, <1>2, <1>4, HostFacts
  DEF PipeStep, Phase, Known, PipeInv, Replying, Acking
<1>5. CASE todo = -1
  BY <1>0, <1>2, <1>5, FrameStep
<1> QED
  BY <1>3, <1>4, <1>5, HostFacts
  DEF Phase, Resting, Asking, Receiving, Refusing, Refuses

\* The device acts only on the host's request, and on the whole of it.
LEMMA RxActs ==
    ASSUME Known, handle_rx_transfer
    PROVE  /\ [Pipe!Next]_(Pipe!vars)
           /\ ~Off /\ acted' # acted => acted = "no" /\ acted' = "yes"
<1>0. /\ RxPending /\ istr.setup = rx_setup
      /\ UNCHANGED <<hphase, hreq, hn, hgood, result>>
  BY DEF handle_rx_transfer, xfer, RxPending, Handling, Known, PipeInv,
         BufferInv
<1>1. CASE no_request
  <2>1. UNCHANGED <<acted, hphase, hreq, hn, hgood, result>>
    BY <1>0, <1>1 DEF no_request
  <2> QED
    BY <2>1 DEF Pipe!vars
<1>2. ASSUME NEW r \in Requests, accept(r), r = hreq, acted = "no",
             handled(hreq), hphase = "idle" \/ hreq.in \/ hn = hreq.wLength
      PROVE  [Pipe!Next]_(Pipe!vars) /\ acted = "no" /\ acted' = "yes"
  BY <1>0, <1>2, HostFacts, RequestActed DEF accept, Pipe!Next
<1>3. rx_req \in Requests /\ req \in Requests /\ rx_len \in Nat
      /\ (data_len >= 0 => data_len \in Nat)
  BY DEF Known, TypeOK, CoreTypeOK, DriverTypeOK
<1>4. /\ hreq.wLength \in Nat /\ hn \in Nat /\ Phase /\ ActInv
      /\ Off => hphase = "idle"
  BY HostFacts DEF Known, PipeInv
<1>5. CASE istr.setup /\ setup_ready(rx_req) /\ handled(rx_req)
           /\ accept(rx_req)
  <2>1. SetupPending /\ rx_req = hreq /\ acted = "no"
    BY <1>0, <1>4, <1>5 DEF SetupPending, ActInv
  <2>2. hphase = "idle" \/ hreq.in \/ hn = hreq.wLength
    <3>1. Asking => hn = 0
      BY DEF Asking
    <3>2. Off \/ Asking
      BY <1>0, <1>4, <2>1
      DEF Phase, Resting, Receiving, Refusing, Replying, Acking
    <3> QED
      BY <1>4, <1>5, <2>1, <3>1, <3>2 DEF setup_ready
  <2> QED
    BY <1>2, <1>3, <1>5, <2>1, <2>2
<1>6. CASE ~istr.setup /\ data_ready(rx_len) /\ handled(req) /\ accept(req)
  <2>1. ~SetupPending /\ data_len >= 0 /\ ~req.in
        /\ data_len + rx_len >= req.wLength
    BY <1>0, <1>6 DEF SetupPending, data_ready
  <2>2. req = hreq /\ acted = "no"
    BY <1>0, <1>4, <2>1, <1>6 DEF ActInv
  <2>3. hphase = "idle" \/ hreq.in \/ hn = hreq.wLength
    <3>1. Receiving => data_len + rx_len = hn /\ hn <= hreq.wLength
      BY <1>0 DEF Receiving
    <3>2. Off \/ Receiving
      BY <1>0, <1>4, <2>1
      DEF Phase, Resting, Asking, Refusing, Replying, Acking
    <3> QED
      BY <1>3, <1>4, <2>1, <2>2, <3>1, <3>2
  <2> QED
    BY <1>2, <1>3, <1>6, <2>2, <2>3
<1> QED
  BY <1>1, <1>5, <1>6 DEF handle_rx_transfer

LEMMA RxStep ==
    ASSUME Known, handle_rx_transfer
    PROVE  PipeStep
<1>0. /\ RxPending /\ istr.setup = rx_setup
      /\ ~RxPending' /\ (Off' <=> Off)
  BY DEF handle_rx_transfer, RxPending, Handling, Known, PipeInv, BufferInv,
         AfterTransfer, Off, Resetting
<1>1. UNCHANGED <<hphase, hreq, hn, hgood, result, dup>>
  BY DEF handle_rx_transfer, xfer
<1>f. /\ hreq.wLength \in Nat /\ hn \in Nat /\ hgood = TRUE
      /\ hreq \in Requests /\ hreq.in \in BOOLEAN
      /\ reply_len(hreq) \in Nat /\ reply_len(hreq) <= hreq.wLength
      /\ Phase /\ ActInv
  BY HostFacts
<1>2. SUFFICES ASSUME ~Off
               PROVE  \/ Resting' \/ Receiving' \/ Refusing'
                      \/ Replying' \/ Acking'
  <2>1. Off => hphase = "idle"
    BY DEF Known, PipeInv
  <2> QED
    BY <1>0, <1>1, <1>2, <1>f, <2>1, RxActs DEF PipeStep, Phase
<1>3. ASSUME answer(hreq, -1), req' = hreq,
             acted = "no", handled(hreq) => acted' = "yes",
             ~handled(hreq) => acted' = "no",
             ~dup, stat_tx \notin {"VALID", "STALL"},
             IF hreq.in /\ hreq.wLength > 0
             THEN hphase = "data" /\ hn = 0
             ELSE hphase = "status" /\ hn = hreq.wLength
      PROVE  Refusing' \/ Replying' \/ Acking'
  <2>1. Refuses' \/ SendsReply' \/ SendsStatus'
    BY <1>1, <1>3, HostFacts, Answered
  <2> QED
    BY <1>0, <2>1 DEF Refusing, Replying, Acking
<1>4. CASE Resting
  <2>1. ~istr.setup /\ req.in /\ todo = -1 /\ hphase = "idle"
    BY <1>0, <1>4 DEF Resting, SetupPending
  <2>2. handle_rx_out(rx_len)
    BY <2>1 DEF handle_rx_transfer
  <2>3. todo' = -1
    BY <2>1, <2>2 DEF handle_rx_out, data_ready
  <2> QED
    BY <1>0, <1>1, <2>1, <2>3 DEF Resting, SetupPending
<1>5. CASE Asking
  <2>1. /\ istr.setup /\ rx_req = hreq /\ acted = "no"
        /\ hphase = IF hreq.wLength = 0 THEN "status" ELSE "data"
        /\ hn = 0 /\ stat_tx = "NAK" /\ ~dup
    BY <1>0, <1>5, <1>f DEF Asking, SetupPending, ActInv
  <2>2. handle_rx_setup(hreq)
    BY <2>1 DEF handle_rx_transfer
  <2>3. CASE setup_ready(hreq)
    <3>1. answer(hreq, -1) /\ req' = hreq
      BY <2>2, <2>3 DEF handle_rx_setup
    <3>2. /\ handled(hreq) => acted' = "yes"
          /\ ~handled(hreq) => acted' = "no"
      BY <2>1, <2>3
      DEF handle_rx_transfer, accept, no_request, DeviceActs
    <3>3. IF hreq.in /\ hreq.wLength > 0
          THEN hphase = "data" /\ hn = 0
          ELSE hphase = "status" /\ hn = hreq.wLength
      BY <1>f, <2>1, <2>3 DEF setup_ready
    <3> QED
      BY <1>3, <2>1, <3>1, <3>2, <3>3
  <2>4. CASE ~setup_ready(hreq)
    <3>1. /\ req' = hreq /\ data_len' = 0 /\ todo' = -1
          /\ UNCHANGED stat_tx
      BY <2>2, <2>4 DEF handle_rx_setup, tx0
    <3>2. acted' = "no"
      BY <2>1, <2>4 DEF handle_rx_transfer, no_request
    <3>3. ~hreq.in /\ hreq.wLength > 0 /\ hphase = "data"
      BY <1>f, <2>1, <2>4 DEF setup_ready
    <3> QED
      BY <1>0, <1>1, <1>f, <2>1, <3>1, <3>2, <3>3 DEF Receiving, SetupPending
  <2> QED
    BY <2>3, <2>4
<1>6. CASE Receiving
  <2>1. /\ ~istr.setup /\ req = hreq /\ acted = "no"
        /\ ~hreq.in /\ hreq.wLength > 0 /\ hn <= hreq.wLength
        /\ hphase = IF hn = hreq.wLength THEN "status" ELSE "data"
        /\ data_len >= 0 /\ data_len + rx_len = hn
        /\ todo = -1 /\ stat_tx \notin {"VALID", "STALL"} /\ ~dup
    BY <1>0, <1>6 DEF Receiving, SetupPending
  <2>2. handle_rx_out(rx_len) /\ req' = hreq
    BY <2>1 DEF handle_rx_transfer, handle_rx_out
  <2>3. CASE data_ready(rx_len)
    <3>1. answer(hreq, -1)
      <4>1. ~(data_len < 0)
        BY <2>1 DEF Known, TypeOK, CoreTypeOK
      <4> QED
        BY <2>1, <2>2, <2>3, <4>1 DEF handle_rx_out
    <3>2. /\ handled(hreq) => acted' = "yes"
          /\ ~handled(hreq) => acted' = "no"
      BY <2>1, <2>3
      DEF handle_rx_transfer, accept, no_request, DeviceActs
    <3>3. hphase = "status" /\ hn = hreq.wLength
      BY <1>f, <2>1, <2>3 DEF data_ready
    <3> QED
      BY <1>3, <2>1, <2>2, <3>1, <3>2, <3>3
  <2>4. CASE ~data_ready(rx_len)
    <3>1. ~(data_len < 0) /\ data_len \in Nat /\ rx_len \in Nat
      BY <2>1 DEF Known, TypeOK, CoreTypeOK, DriverTypeOK
    <3>2. data_len' = data_len + rx_len /\ UNCHANGED <<todo, stat_tx>>
      BY <2>1, <2>2, <2>4, <3>1 DEF handle_rx_out, tx0
    <3>3. acted' = "no"
      BY <2>1, <2>4 DEF handle_rx_transfer, no_request
    <3>4. hphase = "data" /\ hn # hreq.wLength
      BY <1>f, <2>1, <2>4, <3>1 DEF data_ready
    <3> QED
      BY <1>0, <1>1, <1>f, <2>1, <2>2, <3>1, <3>2, <3>3, <3>4
      DEF Receiving, SetupPending
  <2> QED
    BY <2>3, <2>4
<1> QED
  BY <1>0, <1>2, <1>4, <1>5, <1>6, <1>f DEF Phase, Refusing, Replying, Acking

-----------------------------------------------------------------------------
(* The invariant.                                                           *)

LEMMA PipeInitially ==
    ASSUME Init
    PROVE  SnapshotInv /\ DisabledInv /\ PipeInv /\ Pipe!Init
<1>1. SnapshotInv /\ DisabledInv
  BY DEF Init, SnapshotInv, DisabledInv, Resetting
<1>2. BufferInv /\ ActInv
  BY DEF Init, BufferInv, ActInv, SetupPending, RxPending, TxPending, Handling
<1>3. Off /\ hphase = "idle" /\ hgood = TRUE
  BY DEF Init, HostInit, Off
<1>4. Pipe!Init
  BY DEF Init, HostInit, Pipe!Init
<1> QED
  BY <1>1, <1>2, <1>3, <1>4 DEF PipeInv, Phase

LEMMA PipeInductive ==
    ASSUME Known, ~Abort, [Next]_vars
    PROVE  SnapshotInv' /\ DisabledInv' /\ PipeInv' /\ [Pipe!Next]_(Pipe!vars)
<1>1. SnapshotInv' /\ DisabledInv'
  BY SnapshotInductive, DisabledInductive DEF Known
<1>2. BufferInv' /\ ActInv'
  BY BufferInductive, ActInductive DEF Known, PipeInv
<1>3. PipeStep
  BY NextCases, SetupStep, InStep, StalledStep, OutStep, ResetBusStep,
     QuietStep, ResetStep, TxStep, RxStep
<1> QED
  BY <1>1, <1>2, <1>3 DEF PipeInv, PipeStep

LEMMA AlwaysKnown == ASSUME ~Abort PROVE Spec => []Known
<1>1. TypeOK /\ SnapshotInv /\ DisabledInv /\ PipeInv /\ [Next]_vars
      => SnapshotInv' /\ DisabledInv' /\ PipeInv'
  BY PipeInductive DEF Known
<1>2. TypeOK /\ SnapshotInv /\ DisabledInv /\ PipeInv => Known
  BY DEF Known
<1>3. Init => SnapshotInv /\ DisabledInv /\ PipeInv
  BY PipeInitially
<1> QED
  BY <1>1, <1>2, <1>3, TypeCorrect, PTL DEF Spec

(* The driver and core.c behave as the abstract control pipe: each transfer *)
(* delivers the whole reply to its own request and nothing else, succeeds   *)
(* only after the device acted on it, once, and is refused only if it is    *)
(* not handled (core.c:171-247, hw_usbd_at32f4.c:270-455).                  *)
THEOREM UsbdImplementsPipe == ASSUME ~Abort PROVE Spec => PipeSpec
<1>1. Init => Pipe!Init
  BY PipeInitially
<1>2. Known /\ [Next]_vars => [Pipe!Next]_(Pipe!vars)
  BY PipeInductive
<1> QED
  BY <1>1, <1>2, AlwaysKnown, PTL DEF Spec, PipeSpec, Pipe!Spec

-----------------------------------------------------------------------------
(* The soft flag of endpoint 0, when no acknowledgement is lost.  A lost    *)
(* one leaves a packet in the buffer, which the next SETUP throws away and  *)
(* the flag never hears of.                                                 *)

TxInv ==
    /\ ~dup /\ TxAccounted
    /\ ~Off /\ Resting => stat_tx # "VALID"

\* The flag and the stages of a packet agree.
FlagAgrees == tx_ready <=> ~(stat_tx = "VALID" \/ TxPending)

LEMMA FlagStep ==
    ASSUME Known, ~Abort, ~Lossy, TxInv, [Next]_vars, ~Off, ~Off'
    PROVE  FlagAgrees'
<1>0. FlagAgrees /\ tx_ready \in BOOLEAN /\ ctr_tx \in BOOLEAN
      /\ ctr_rx \in BOOLEAN
  BY DEF TxInv, TxAccounted, FlagAgrees, TxPending, Off, Known, TypeOK,
         CoreTypeOK, DriverTypeOK
<1> USE DEF FlagAgrees, TxPending, Handling
<1>1. ASSUME NEW r \in Requests, HostSetup(r) PROVE FlagAgrees'
  <2>1. hphase = "idle"
    BY <1>1 DEF HostSetup, HostBegins
  <2>2. Resting
    BY <2>1, IdleRests
  <2>3. stat_tx # "VALID"
    BY <2>2 DEF TxInv
  <2> QED
    BY <1>0, <1>1, <2>3 DEF HostSetup
<1>2. CASE HostIn
  BY <1>0, <1>2 DEF HostIn
<1>3. CASE BusReset
  BY <1>3 DEF BusReset, Off, Resetting
<1>4. CASE usbd_process
  <2>1. /\ UNCHANGED <<tx_ready, stat_tx>> /\ pc = "poll"
        /\ ctr_tx' = (ctr_tx /\ ctr_rx)
        /\ (Handling("tx0")' <=> ctr_tx /\ ~ctr_rx)
    BY <1>4 DEF usbd_process, core, tx0
  <2> QED
    BY <1>0, <2>1
<1>5. CASE handle_rx_transfer
  <2>1. /\ pc = "transfer" /\ istr.ev = "rx" /\ pc' # "transfer"
        /\ UNCHANGED <<ctr_tx, istr>>
    BY <1>5 DEF handle_rx_transfer, AfterTransfer
  <2>2. stat_tx # "VALID"
    <3>1. RxPending
      BY <2>1 DEF RxPending
    <3> QED
      BY <3>1, HostFacts
      DEF TxInv, Phase, Asking, Receiving, Refusing, Replying, Acking
  <2>3. \/ UNCHANGED tx_ready /\ stat_tx' \in {stat_tx, "STALL"}
        \/ tx_ready /\ tx_ready' = FALSE /\ stat_tx' = "VALID"
    BY <1>0, <1>5
    DEF handle_rx_transfer, handle_rx_setup, handle_rx_out, answer, usb_stall,
        usb_write_ep0, usb_write, tx0
  <2> QED
    BY <1>0, <2>1, <2>2, <2>3
<1>6. CASE handle_tx_transfer
  <2>1. /\ pc = "transfer" /\ istr.ev = "tx0" /\ pc' # "transfer"
        /\ UNCHANGED ctr_tx
    BY <1>6 DEF handle_tx_transfer, AfterTransfer
  <2>2. ~ctr_tx /\ stat_tx # "VALID"
    BY <2>1, HostFacts DEF BufferInv
  <2>3. \/ tx_ready' = TRUE /\ UNCHANGED stat_tx
        \/ tx_ready' = FALSE /\ stat_tx' = "VALID"
    BY <1>6 DEF handle_tx_transfer, handle_tx_ep0, usb_write_ep0, usb_write
  <2> QED
    BY <2>1, <2>2, <2>3
<1>7. CASE handle_reset
  BY <1>7 DEF handle_reset, usb_configure_ep0
<1>8. CASE HostStalled \/ HostOut \/ HostPollsKeyboard \/ handle_tx_keyboard
           \/ keyboard_process \/ UNCHANGED vars
  BY <1>0, <1>8
  DEF HostStalled, HostOut, HostPollsKeyboard, handle_tx_keyboard,
      keyboard_process, vars, AfterTransfer, core, tx0
<1> QED
  BY NextCases, <1>1, <1>2, <1>3, <1>4, <1>5, <1>6, <1>7, <1>8

LEMMA RestStep ==
    ASSUME Known, ~Abort, ~Lossy, TxInv, [Next]_vars
    PROVE  ~dup' /\ (~Off' /\ Resting' => stat_tx' # "VALID")
<1>0. ~dup /\ dup \in BOOLEAN
  BY HostFacts DEF TxInv
<1>1. ASSUME NEW r \in Requests, HostSetup(r)
      PROVE ~dup' /\ stat_tx' # "VALID"
  BY <1>1 DEF HostSetup, HostBegins
<1>2. CASE HostIn
  BY <1>2 DEF HostIn
<1>3. CASE HostStalled
  BY <1>0, <1>3 DEF HostStalled, HostTakesStall, core, tx0
<1>4. CASE HostOut
  <2>1. UNCHANGED <<dup, stat_tx>>
    BY <1>4 DEF HostOut, HostSendsOut, core, tx0
  <2>2. stat_tx # "VALID"
    BY <1>0, <1>4, OutPhases, HostFacts, StatusSent
    DEF Receiving, Replying, HostOut
  <2> QED
    BY <1>0, <2>1, <2>2
<1>5. CASE BusReset \/ handle_reset
  BY <1>0, <1>5
  DEF BusReset, HostSeesReset, handle_reset, usb_configure_ep0, host
<1>6. CASE handle_rx_transfer
  <2>1. UNCHANGED <<dup, hphase>> /\ (Off' <=> Off) /\ RxPending
    BY <1>6 DEF handle_rx_transfer, Off, Resetting, xfer, RxPending, Handling
  <2>2. CASE ~Off /\ hphase = "idle"
    <3>1. Resting
      BY <2>1, <2>2, HostFacts
      DEF Phase, Asking, Receiving, Refusing, Replying, Acking
    <3>2. ~istr.setup /\ req.in
      BY <1>6, <2>1, <3>1, HostFacts
      DEF Resting, SetupPending, BufferInv, handle_rx_transfer, Handling
    <3>3. stat_tx' \in {stat_tx, "STALL"}
      BY <1>6, <3>2
      DEF handle_rx_transfer, handle_rx_out, data_ready, usb_stall, tx0
    <3> QED
      BY <1>0, <2>1, <2>2, <3>1, <3>3 DEF TxInv
  <2>3. CASE Off \/ hphase # "idle"
    BY <1>0, <2>1, <2>3 DEF Resting
  <2> QED
    BY <2>2, <2>3
<1>7. CASE handle_tx_transfer
  <2>1. UNCHANGED <<dup, hphase>>
        /\ usb_write_ep0(TRUE, todo, trunc, p, data)
    BY <1>7 DEF handle_tx_transfer, handle_tx_ep0, host, xfer
  <2>2. stat_tx # "VALID"
    BY <1>7, HostFacts
    DEF handle_tx_transfer, BufferInv, TxPending, Handling
  <2>3. CASE ~Off /\ hphase = "idle"
    <3>1. todo = -1
      BY <2>3, IdleRests DEF Resting
    <3>2. UNCHANGED stat_tx
      BY <2>1, <3>1 DEF usb_write_ep0
    <3> QED
      BY <1>0, <2>1, <2>2, <3>2
  <2>4. CASE hphase # "idle"
    BY <1>0, <2>1, <2>4 DEF Resting
  <2>5. CASE Off
    <3>1. Off'
      <4>1. Resetting
        BY <1>7, <2>5 DEF Off, Known, DisabledInv, handle_tx_transfer
      <4> QED
        BY <1>7, <4>1 DEF handle_tx_transfer, Resetting, Off
    <3> QED
      BY <1>0, <2>1, <3>1
  <2> QED
    BY <2>3, <2>4, <2>5
<1>8. CASE \/ usbd_process \/ HostPollsKeyboard \/ handle_tx_keyboard
           \/ keyboard_process \/ UNCHANGED vars
  <2>1. UNCHANGED <<dup, stat_tx, hphase, todo, daddr>>
    BY <1>8
    DEF usbd_process, HostPollsKeyboard, handle_tx_keyboard, keyboard_process,
        vars, core, ep0, tx0, host, xfer, addr
  <2>2. Off' <=> Off
    <3>1. CASE usbd_process
      BY <2>1, <3>1
      DEF usbd_process, Off, Resetting, Known, SnapshotInv, TypeOK,
          DriverTypeOK, Snapshots
    <3>2. CASE ~usbd_process
      BY <1>8, <2>1, <3>2
      DEF HostPollsKeyboard, handle_tx_keyboard, keyboard_process, vars, Off,
          Resetting
    <3> QED
      BY <3>1, <3>2
  <2>3. ~Off /\ hphase = "idle" => Resting
    BY IdleRests
  <2> QED
    BY <1>0, <2>1, <2>2, <2>3 DEF TxInv, Resting
<1> QED
  BY NextCases, <1>1, <1>2, <1>3, <1>4, <1>5, <1>6, <1>7, <1>8

(* Endpoint 0's soft flag agrees with the controller: no reply packet is    *)
(* overwritten in flight, and the endpoint never stays marked busy with     *)
(* nothing in it (hw_usbd_at32f4.c:35-40, 155-208).                         *)
THEOREM Endpoint0Flag ==
    ASSUME ~Abort, ~Lossy
    PROVE  Spec => []TxAccounted
<1>1. Init => TxInv
  BY DEF Init, HostInit, TxInv, TxAccounted, Off
<1>2. Known /\ TxInv /\ [Next]_vars => TxInv'
  <2> SUFFICES ASSUME Known, TxInv, [Next]_vars PROVE TxInv'
    OBVIOUS
  <2>1. ~dup' /\ (~Off' /\ Resting' => stat_tx' # "VALID")
    BY RestStep
  <2>2. ASSUME ~Off' PROVE FlagAgrees'
    <3>1. CASE ~Off
      BY <2>2, <3>1, FlagStep
    <3>2. CASE Off
      BY <2>2, <3>2, OffEnds
      DEF handle_reset, usb_configure_ep0, FlagAgrees, TxPending, Handling
    <3> QED
      BY <3>1, <3>2
  <2> QED
    BY <2>1, <2>2 DEF TxInv, TxAccounted, FlagAgrees, TxPending, Off
<1>3. TxInv => TxAccounted
  BY DEF TxInv
<1> QED
  BY <1>1, <1>2, <1>3, AlwaysKnown, PTL DEF Spec

-----------------------------------------------------------------------------
(* The address, when the host leaves the device time to poll the end of the *)
(* transfer before SET_ADDRESS.  No completion is then outstanding while    *)
(* SET_ADDRESS is under way, so the next one is that of its status stage.   *)

\* Requests for address 0, which pending_addr cannot hold, are left out.
NonzeroAddresses == \A r \in Requests : r.act = "setaddr" => r.addr # 0

SettingAddress == hphase # "idle" /\ hreq.act = "setaddr"

AddrInv ==
    IF Off THEN haddr = 0 ELSE
    /\ AddressAfterStatus
    /\ hphase # "idle" => daddr = haddr
    /\ SettingAddress => ~TxPending
    /\ SettingAddress /\ acted = "yes" => pending_addr = hreq.addr
    /\ pending_addr # 0 => \/ pending_addr = haddr
                           \/ SettingAddress /\ acted = "yes"

\* Steps that leave the address and the host alone.
LEMMA AddrFrame ==
    ASSUME AddrInv, UNCHANGED <<host, addr>>, Off' <=> Off,
           TxPending' => TxPending
    PROVE  AddrInv'
BY DEF AddrInv, AddressAfterStatus, SettingAddress, Off, host, xfer, addr

LEMMA AddrInductive ==
    ASSUME Known, ~Abort, Gap, NonzeroAddresses, AddrInv, [Next]_vars
    PROVE  AddrInv'
<1>0. /\ hreq \in Requests /\ pending_addr \in Nat /\ haddr \in Nat
      /\ ctr_tx \in BOOLEAN /\ ctr_rx \in BOOLEAN
      /\ bus_reset \in BOOLEAN /\ istr.reset \in BOOLEAN
      /\ (hreq.act = "setaddr" => ~hreq.in /\ hreq.addr # 0)
  BY CoreAssumption
  DEF NonzeroAddresses, Known, TypeOK, HostTypeOK, DriverTypeOK, Snapshots
<1>o. CASE Off /\ Off'
  <2>1. haddr = 0
    BY <1>o DEF AddrInv
  <2>2. haddr' = 0
    <3>1. ASSUME NEW r \in Requests, HostSetup(r) PROVE FALSE
      BY <1>o, <3>1, OffPhases
    <3>2. ~HostIn /\ ~HostStalled /\ ~HostOut
      BY <1>o, OffPhases DEF HostIn, HostTakesPacket, HostStalled
    <3> QED
      BY <2>1, <3>1, <3>2, NextCases
      DEF HostPollsKeyboard, BusReset, HostSeesReset, usbd_process,
          handle_rx_transfer, handle_tx_transfer, handle_tx_keyboard,
          handle_reset, keyboard_process, vars, host, xfer
  <2> QED
    BY <1>o, <2>2 DEF AddrInv
<1>e. CASE Off /\ ~Off'
  <2>1. handle_reset /\ hphase = "idle" /\ haddr = 0
    BY <1>e, OffEnds, OffPhases DEF AddrInv
  <2>2. daddr' = 0 /\ pending_addr' = 0 /\ UNCHANGED <<hphase, haddr>>
    BY <2>1 DEF handle_reset, forget_transfer, host, xfer
  <2> QED
    BY <1>e, <2>1, <2>2 DEF AddrInv, AddressAfterStatus, SettingAddress
<1> SUFFICES ASSUME ~Off PROVE AddrInv'
  BY <1>o, <1>e
<1>a. /\ daddr = haddr \/ (pending_addr # 0 /\ pending_addr = haddr)
      /\ hphase # "idle" => daddr = haddr
      /\ SettingAddress => ~TxPending
      /\ SettingAddress /\ acted = "yes" => pending_addr = hreq.addr
      /\ pending_addr # 0 => \/ pending_addr = haddr
                             \/ SettingAddress /\ acted = "yes"
  BY DEF AddrInv, AddressAfterStatus, Off
<1>1. ASSUME NEW r \in Requests, HostSetup(r) PROVE AddrInv'
  <2>1. /\ hphase = "idle" /\ hreq' = r /\ acted' = "no" /\ daddr = haddr
        /\ UNCHANGED <<haddr, daddr, pending_addr>>
        /\ ~Off' /\ (TxPending' <=> TxPending)
    BY <1>1
    DEF HostSetup, HostBegins, Addressed, addr, Off, Resetting, TxPending,
        Handling
  <2>2. r.act = "setaddr" => ~TxPending
    BY <1>1 DEF HostSetup, TxPending, Handling
  <2> QED
    BY <1>a, <2>1, <2>2 DEF AddrInv, AddressAfterStatus, SettingAddress
<1>2. CASE HostIn
  <2>1. /\ UNCHANGED <<daddr, pending_addr, hreq, acted>> /\ ~Off'
        /\ daddr = haddr /\ hphase # "idle"
    BY <1>2
    DEF HostIn, HostTakesPacket, HostExpectsIn, HostTakesData,
        HostTakesStatus, Addressed, addr, Off, Resetting, xfer
  <2>2. CASE hreq.act = "setaddr"
    <3>1. Acking
      BY <1>0, <1>2, <2>2, InPhases DEF Replying, SendsReply
    <3>2. /\ hphase' = "idle" /\ haddr' = hreq.addr /\ acted = "yes"
      BY <1>2, <2>2, <3>1
      DEF Acking, SendsStatus, HostIn, HostTakesPacket, HostTakesData,
          HostTakesStatus
    <3>3. pending_addr = hreq.addr
      BY <1>a, <2>1, <2>2, <3>2 DEF SettingAddress
    <3> QED
      BY <1>0, <2>1, <2>2, <3>2, <3>3
      DEF AddrInv, AddressAfterStatus, SettingAddress
  <2>3. CASE hreq.act # "setaddr"
    <3>1. UNCHANGED haddr
      BY <1>2, <2>3
      DEF HostIn, HostTakesPacket, HostTakesData, HostTakesStatus, xfer
    <3> QED
      BY <1>a, <2>1, <2>3, <3>1
      DEF AddrInv, AddressAfterStatus, SettingAddress
  <2> QED
    BY <2>2, <2>3
<1>3. CASE HostStalled
  <2>1. /\ UNCHANGED <<daddr, pending_addr, haddr>> /\ ~Off'
        /\ hphase' = "idle" /\ hphase # "idle" /\ stat_tx = "STALL"
    BY <1>3 DEF HostStalled, HostTakesStall, addr, Off, Resetting
  <2>2. acted = "no"
    BY <2>1, HostFacts
    DEF Phase, Resting, Asking, Receiving, Refusing, Refuses, Replying,
        SendsReply, Acking, SendsStatus
  <2> QED
    BY <1>a, <2>1, <2>2 DEF AddrInv, AddressAfterStatus, SettingAddress
<1>4. CASE HostOut
  <2>1. /\ UNCHANGED <<daddr, pending_addr, haddr, hreq, acted>> /\ ~Off'
        /\ hphase # "idle"
        /\ (TxPending' <=> TxPending)
    BY <1>4
    DEF HostOut, HostSendsOut, addr, Off, Resetting, TxPending, Handling
  <2>2. hreq.act = "setaddr" => acted = "no"
    BY <1>0, <1>4, OutPhases DEF Receiving, Replying, SendsReply
  <2> QED
    BY <1>a, <2>1, <2>2 DEF AddrInv, AddressAfterStatus, SettingAddress
<1>5. CASE BusReset
  BY <1>5 DEF BusReset, HostSeesReset, AddrInv, Off, Resetting
<1>6. CASE usbd_process
  <2>1. UNCHANGED <<host, addr>>
    BY <1>6 DEF usbd_process
  <2>2. TxPending' <=> TxPending
    BY <1>0, <1>6 DEF usbd_process, TxPending, Handling
  <2>3. Off' <=> Off
    BY <1>0, <1>6 DEF usbd_process, addr, Off, Resetting, Known, SnapshotInv
  <2> QED
    BY <2>1, <2>2, <2>3, AddrFrame
<1>7. CASE handle_rx_transfer
  <2>1. /\ UNCHANGED <<daddr, haddr, hphase, hreq>> /\ ~Off'
        /\ (TxPending' <=> TxPending) /\ RxPending
    BY <1>7
    DEF handle_rx_transfer, AfterTransfer, xfer, Off, Resetting, TxPending,
        RxPending, Handling
  <2>2. CASE no_request
    BY <1>a, <2>1, <2>2
    DEF no_request, AddrInv, AddressAfterStatus, SettingAddress
  <2>3. CASE acted' = "yes" /\ acted = "no" /\ hphase # "idle"
             /\ pending_addr' = IF hreq.act = "setaddr" THEN hreq.addr
                                ELSE pending_addr
    BY <1>0, <1>a, <2>1, <2>3
    DEF AddrInv, AddressAfterStatus, SettingAddress
  <2>4. ASSUME ~no_request PROVE accept(hreq) /\ hphase # "idle" /\ acted = "no"
    <3>1. CASE istr.setup
      <4>1. SetupPending /\ accept(rx_req)
        BY <1>7, <2>1, <2>4, <3>1, HostFacts
        DEF handle_rx_transfer, SetupPending, BufferInv, Handling
      <4>2. rx_req = hreq /\ acted = "no"
        BY <4>1, HostFacts DEF ActInv
      <4>3. Asking
        BY <4>1, HostFacts
        DEF Phase, Resting, Receiving, Refusing, Refuses, Replying, SendsReply,
            Acking, SendsStatus, SetupPending
      <4> QED
        BY <4>1, <4>2, <4>3 DEF Asking
    <3>2. CASE ~istr.setup
      <4>1. ~SetupPending /\ accept(req) /\ data_ready(rx_len)
        BY <1>7, <2>1, <2>4, <3>2, HostFacts
        DEF handle_rx_transfer, SetupPending, BufferInv, Handling
      <4>2. Receiving
        BY <2>1, <4>1, HostFacts
        DEF Phase, Resting, Asking, Refusing, Refuses, Replying, SendsReply,
            Acking, SendsStatus, data_ready
      <4> QED
        BY <4>1, <4>2 DEF Receiving
    <3> QED
      BY <3>1, <3>2
  <2> QED
    BY <2>2, <2>3, <2>4 DEF accept, DeviceActs
<1>8. CASE handle_tx_transfer
  <2>1. /\ UNCHANGED <<haddr, hphase, hreq, acted>> /\ TxPending
        /\ UNCHANGED <<bus_reset, istr>>
        /\ \/ pending_addr # 0 /\ daddr' = pending_addr /\ pending_addr' = 0
           \/ UNCHANGED <<daddr, pending_addr>>
    BY <1>8
    DEF handle_tx_transfer, take_address, addr, host, xfer, TxPending, Handling
  <2>2. ~SettingAddress /\ (pending_addr # 0 => pending_addr = haddr)
    BY <1>a, <2>1
  <2>3. ~Off'
    BY <1>0, <2>1 DEF Off, Resetting
  <2> QED
    BY <1>a, <2>1, <2>2, <2>3 DEF AddrInv, AddressAfterStatus, SettingAddress
<1>9. CASE handle_reset
  BY <1>9 DEF handle_reset, Known, SnapshotInv, Off, Resetting
<1>10. CASE \/ HostPollsKeyboard \/ handle_tx_keyboard \/ keyboard_process
            \/ UNCHANGED vars
  <2>1. UNCHANGED <<host, addr>> /\ (TxPending' => TxPending) /\ (Off' <=> Off)
    BY <1>10
    DEF HostPollsKeyboard, handle_tx_keyboard, keyboard_process, vars,
        AfterTransfer, TxPending, Handling, addr, Off, Resetting
  <2> QED
    BY <2>1, AddrFrame
<1> QED
  BY NextCases, <1>1, <1>2, <1>3, <1>4, <1>5, <1>6, <1>7, <1>8, <1>9, <1>10

(* With that pause, the device never takes an address before the host has   *)
(* seen the status stage of SET_ADDRESS, whatever acknowledgements are lost *)
(* (hw_usbd_at32f4.c:364-369).  Without it, it may: see UsbdAddressRace.    *)
THEOREM AddressInTime ==
    ASSUME ~Abort, Gap, NonzeroAddresses
    PROVE  Spec => []AddressAfterStatus
<1>1. Init => AddrInv
  BY DEF Init, HostInit, AddrInv, Off
<1>2. Known /\ AddrInv /\ [Next]_vars => AddrInv'
  BY AddrInductive
<1>3. AddrInv => AddressAfterStatus
  BY DEF AddrInv, AddressAfterStatus, Off
<1> QED
  BY <1>1, <1>2, <1>3, AlwaysKnown, PTL DEF Spec
=============================================================================
