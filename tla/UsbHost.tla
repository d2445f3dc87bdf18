------------------------------ MODULE UsbHost ------------------------------
(***************************************************************************)
(* The host's side of control transfers, shared by the driver modules.     *)
(* The host is not part of the program: this is the environment that the   *)
(* code's own comments and the USB specification they cite describe.  The  *)
(* operators say what the host does with a packet; the driver modules say  *)
(* when its controller lets the packet through.                            *)
(***************************************************************************)
EXTENDS UsbCore

CONSTANTS
    Abort,     \* the host may abandon a transfer for a new SETUP, or cut a
               \* data stage from the device short
    Lossy      \* the handshake that follows a packet may be lost

ASSUME HostAssumption == Abort \in BOOLEAN /\ Lossy \in BOOLEAN

VARIABLES
    hphase,   \* the host's side of the transfer: "idle", "data", "status"
    hreq,     \* its request
    hn,       \* bytes of the data stage moved so far
    hgood,    \* all bytes received were the right ones
    result,   \* how the last transfer ended
    haddr,    \* the address the host uses for the device
    dup,      \* the packet in the transmit buffer has reached the host
    acted     \* history: has the device acted on the host's request?  "wrong"
              \* if it acted twice, or on another request

xfer == <<hphase, hreq, hn, hgood, result, haddr>>
host == <<xfer, dup, acted>>

HostTypeOK ==
    /\ hphase \in {"idle", "data", "status"}
    /\ hreq \in Requests /\ hn \in Nat /\ hgood \in BOOLEAN
    /\ result \in {"ok", "refused", "reset"}
    /\ haddr \in Nat
    /\ dup \in BOOLEAN /\ acted \in {"no", "yes", "wrong"}

HostInit ==
    /\ hphase = "idle" /\ hreq \in Requests /\ hn = 0 /\ hgood = TRUE
    /\ result = "reset" /\ haddr = 0 /\ dup = FALSE /\ acted = "no"

-----------------------------------------------------------------------------
HostBegins(r) ==
    /\ hphase = "idle" \/ Abort
    /\ hreq' = r /\ hn' = 0 /\ hgood' = TRUE
    /\ hphase' = IF r.wLength = 0 THEN "status" ELSE "data"
    /\ acted' = "no"
    /\ dup' = FALSE
    /\ UNCHANGED <<result, haddr>>

HostExpectsIn ==
    \/ hphase = "data" /\ hreq.in
    \/ hphase = "status" /\ (~hreq.in \/ hreq.wLength = 0)

\* A packet of the data stage; one shorter than the maximum ends it.
HostTakesData ==
    /\ hphase = "data" /\ ~dup
    /\ hn' = hn + txbuf.len
    /\ hgood' = (hgood /\ txbuf.src = hreq /\ txbuf.off = hn)
    /\ hphase' = IF txbuf.len < EP0_MPS \/ hn + txbuf.len >= hreq.wLength
                 THEN "status" ELSE "data"
    /\ UNCHANGED <<hreq, result, haddr>>

\* The empty packet that ends a transfer from the host.
HostTakesStatus ==
    /\ hphase = "status" /\ ~dup
    /\ hphase' = "idle"
    /\ result' = "ok"
    /\ hgood' = (hgood /\ txbuf.len = 0)
    /\ haddr' = IF hreq.act = "setaddr" THEN hreq.addr ELSE haddr
    /\ UNCHANGED <<hreq, hn>>

(* The device answers an IN token with the packet in its buffer.  A packet  *)
(* the host had already, known by its data toggle, is only acknowledged.    *)
HostTakesPacket ==
    /\ HostExpectsIn
    /\ HostTakesData \/ HostTakesStatus \/ (dup /\ UNCHANGED xfer)
    /\ UNCHANGED acted

\* STALL ends the transfer.
HostTakesStall ==
    /\ hphase # "idle"
    /\ hphase' = "idle"
    /\ result' = "refused"
    /\ UNCHANGED <<hreq, hn, hgood, haddr, dup, acted>>

\* The size of the next OUT packet.
HostOutLen == IF hreq.in THEN 0 ELSE min_t(hreq.wLength - hn, EP0_MPS)

\* The next data of a transfer from the host, or the empty packet that ends
\* a transfer to the host.
HostSendsOut ==
    /\ \/ /\ hphase = "data" /\ ~hreq.in
          /\ hn' = hn + HostOutLen
          /\ hphase' = IF hn' = hreq.wLength THEN "status" ELSE "data"
          /\ UNCHANGED result
       \/ /\ hreq.in /\ hreq.wLength > 0
          /\ hphase = "status" \/ (hphase = "data" /\ Abort)
          /\ hphase' = "idle"
          /\ result' = "ok"
          /\ UNCHANGED hn
    /\ UNCHANGED <<hreq, hgood, haddr, dup, acted>>

HostSeesReset ==
    /\ hphase' = "idle" /\ result' = "reset" /\ haddr' = 0
    /\ dup' = FALSE
    /\ UNCHANGED <<hreq, hn, hgood, acted>>

\* The device acts on r.
DeviceActs(r) ==
    acted' = IF r = hreq /\ acted = "no" THEN "yes" ELSE "wrong"

-----------------------------------------------------------------------------
(* The host sees a correct control pipe, whatever the interleaving of its   *)
(* packets with the polling loop (core.c:171-247): each transfer gets the   *)
(* whole reply to its own request and nothing else, succeeds only after the *)
(* device acted on it, once, and is refused only if it is not handled.      *)
Pipe == INSTANCE ControlPipe WITH
            MPS <- EP0_MPS, Handled <- handled, Reply <- reply_len,
            phase <- hphase, req <- hreq, n <- IF hgood THEN hn ELSE -1
PipeSpec == Pipe!Spec

(* Every transfer the host starts comes to an end (core.c:171-247).         *)
TransferEnds == hphase # "idle" ~> hphase = "idle"
=============================================================================
