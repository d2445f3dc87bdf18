------------------------------ MODULE UsbCore ------------------------------
(***************************************************************************)
(* The endpoint-0 control-transfer machine of src/usb/core.c.  Its         *)
(* handlers are the actions below, called by the driver modules (Usbd,     *)
(* DwcOtg) with what the driver found in its registers; the driver adds    *)
(* its own conjuncts.  An intermediate value of a C handler is an argument *)
(* here: usb_write_ep0(n, ...) is the C function called when tx.todo = n.  *)
(*                                                                         *)
(* A control request is what handle_control_request tells apart: its       *)
(* direction, its wLength, what it does (act) and how many bytes of reply  *)
(* it leaves in ep0.data (avail).                                          *)
(***************************************************************************)
EXTENDS Integers

CONSTANTS
    EP0_MPS,     \* maximum packet size of endpoint 0
    DATA_MAX,    \* sizeof(ep0.data)
    Requests     \* the control requests the host may issue

Acts == {"class", "setaddr", "setconf", "unknown"}

Request ==
    [in: BOOLEAN, wLength: Nat, act: Acts, avail: Nat, addr: Nat]

ASSUME CoreAssumption ==
    /\ EP0_MPS \in Nat \ {0}
    /\ DATA_MAX \in Nat \ {0}
    /\ Requests # {}
    /\ Requests \subseteq Request
    \* bmRequestType of SET_ADDRESS and SET_CONFIGURATION is 0x00 (OUT).
    /\ \A r \in Requests : r.in => r.act \in {"class", "unknown"}

VARIABLES
    req,        \* ep0.req
    data_len,   \* ep0.data_len: -1 when no transfer is in progress
    data,       \* the request whose bytes are in ep0.data
    todo,       \* ep0.tx.todo: bytes left to send, -1 when there is nothing
    trunc,      \* ep0.tx.trunc: the reply is shorter than wLength
    p,          \* ep0.tx.p, as an offset into ep0.data
    tx_ready,   \* ep_tx_ready(0)
    stat_tx,    \* what endpoint 0 answers to an IN token
    txbuf       \* the packet in endpoint 0's transmit buffer

ep0  == <<req, data_len, data, todo, trunc, p>>
tx0  == <<tx_ready, stat_tx, txbuf>>
core == <<ep0, tx0>>

TxStats == {"DISABLED", "STALL", "NAK", "VALID"}
Packets == [src: Requests, off: Nat, len: 0..EP0_MPS]

CoreTypeOK ==
    /\ req \in Requests
    /\ data_len \in Nat \cup {-1}
    /\ data \in Requests
    /\ todo \in Nat \cup {-1}
    /\ trunc \in BOOLEAN
    /\ p \in Nat
    /\ tx_ready \in BOOLEAN
    /\ stat_tx \in TxStats
    /\ txbuf \in Packets

max_for_min(x, y) == IF x < y THEN y ELSE x     \* variant of min_t
min_t(x, y) == IF x < y THEN x ELSE y

-----------------------------------------------------------------------------
(* What handle_control_request decides about a request whose data stage    *)
(* from the host, if any, is complete.                                     *)

handled(r) == r.act # "unknown" /\ (r.in \/ r.wLength <= DATA_MAX)

\* The bytes of the reply that are sent: never more than the host asked for.
reply_len(r) == min_t(r.wLength, r.avail)

-----------------------------------------------------------------------------
(* The driver entry points core.c calls, as far as both drivers share them. *)

\* Variant of usb_write: every packet is taken from the start of ep0.data.
usb_write_first(src, off, len) ==
    /\ txbuf' = [src |-> src, off |-> 0, len |-> len]
    /\ tx_ready' = FALSE
    /\ stat_tx' = "VALID"

usb_write(src, off, len) ==
    /\ txbuf' = [src |-> src, off |-> off, len |-> len]
    /\ tx_ready' = FALSE
    /\ stat_tx' = "VALID"

usb_stall ==
    /\ stat_tx' = "STALL"
    /\ UNCHANGED <<tx_ready, txbuf>>

-----------------------------------------------------------------------------
\* A packet of len bytes ends a reply with n to go: a reply that is shorter
\* than wLength must end in a packet that is not full.
last_when_empty(n, len, tr) == n = len          \* variant of last_packet
last_packet(n, len, tr) == n = len /\ (~tr \/ len < EP0_MPS)

(* usb_write_ep0: queue the next packet of a reply with n bytes to go, at   *)
(* offset off of the bytes of src, if the endpoint is ready for it.         *)
usb_write_ep0(ready, n, tr, off, src) ==
    /\ trunc' = tr
    /\ \/ /\ n < 0 \/ ~ready
          /\ todo' = n
          /\ p' = off
          /\ tx_ready' = ready
          /\ UNCHANGED <<stat_tx, txbuf>>
       \/ /\ n >= 0 /\ ready
          /\ LET len == min_t(n, EP0_MPS)
             IN  /\ usb_write(src, off, len)
                 /\ p' = off + len
                 /\ todo' = IF last_packet(n, len, tr) THEN -1 ELSE n - len

(* The second half of handle_rx_ep0: r is complete, act on it and answer.   *)
answer(r, n) ==
    /\ data' = IF r.in \/ r.wLength > 0 THEN r ELSE data
    /\ \/ /\ ~handled(r)
          /\ usb_stall
          /\ data_len' = -1
          /\ todo' = n
          /\ UNCHANGED <<trunc, p>>
       \/ /\ handled(r) /\ r.in
          /\ data_len' = reply_len(r)
          /\ usb_write_ep0(tx_ready, reply_len(r), reply_len(r) < r.wLength, 0, r)
       \/ /\ handled(r) /\ ~r.in
          /\ data_len' = -1
          /\ usb_write_ep0(tx_ready, 0, FALSE, 0, r)

\* The handler finds the request complete and accepts it.
setup_ready(r) == r.in \/ r.wLength = 0
data_ready_at_once(len) == data_len >= 0 /\ ~req.in   \* variant of data_ready
data_ready(len) == data_len >= 0 /\ ~req.in /\ data_len + len >= req.wLength

(* handle_rx_ep0(TRUE): a SETUP packet carrying r. *)
handle_rx_setup(r) ==
    /\ req' = r
    /\ \/ /\ setup_ready(r)
          /\ answer(r, -1)
       \/ /\ ~setup_ready(r)
          /\ data_len' = 0
          /\ todo' = -1
          /\ UNCHANGED <<data, trunc, p, tx0>>

(* handle_rx_ep0(FALSE): an OUT packet of len bytes. *)
handle_rx_out(len) ==
    /\ UNCHANGED req
    /\ \/ /\ data_len < 0                  \* unexpected transaction
          /\ usb_stall
          /\ UNCHANGED <<data_len, data, todo, trunc, p>>
       \/ /\ data_ready(len)               \* last data from the host
          /\ answer(req, todo)
       \/ /\ data_len >= 0 /\ ~req.in /\ ~data_ready(len)
          /\ data_len' = data_len + len
          /\ data' = req
          /\ UNCHANGED <<todo, trunc, p, tx0>>
       \/ /\ data_len >= 0 /\ req.in       \* status from the host
          /\ todo' = -1
          /\ data_len' = -1
          /\ UNCHANGED <<data, trunc, p, tx0>>

(* handle_tx_ep0: the driver has just marked the endpoint ready again. *)
handle_tx_ep0 ==
    /\ usb_write_ep0(TRUE, todo, trunc, p, data)
    /\ UNCHANGED <<req, data_len, data>>
=============================================================================
