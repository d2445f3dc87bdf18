---------------------------- MODULE ControlPipe ----------------------------
(***************************************************************************)
(* What the USB stack promises to the host over endpoint 0, whichever      *)
(* controller driver is underneath: a control transfer delivers exactly    *)
(* the reply to its own request, in order and cut to the packet size; it   *)
(* is reported as successful only after the device has acted on the        *)
(* request; it acts at most once; and it is refused only if the device     *)
(* does not handle the request.  Usbd is shown to implement this.          *)
(***************************************************************************)
EXTENDS Integers

CONSTANTS
    MPS,              \* largest packet
    Requests,         \* what may be asked
    Handled(_),       \* does the device accept the request?
    Reply(_)          \* number of reply bytes of an accepted request

VARIABLES
    phase,    \* where the host is in the transfer: "idle", "data", "status"
    req,      \* the request of this, or of the last, transfer
    n,        \* bytes of the data stage moved so far
    acted,    \* has the device acted on the request? "no", "yes"
    result    \* how the last transfer ended: "ok", "refused", "reset"

vars == <<phase, req, n, acted, result>>

Chunk(len) == IF len < MPS THEN len ELSE MPS

Init ==
    /\ phase = "idle"
    /\ req \in Requests
    /\ n = 0
    /\ acted = "no"
    /\ result = "reset"

Setup(r) ==
    /\ phase = "idle"
    /\ req' = r
    /\ n' = 0
    /\ acted' = "no"
    /\ phase' = IF r.wLength = 0 THEN "status" ELSE "data"
    /\ UNCHANGED result

\* The device acts on a request that has all its data.  A request cut off by
\* a bus reset may still be acted upon before the reset is noticed.
Act ==
    /\ acted = "no"
    /\ Handled(req)
    /\ phase = "idle" \/ req.in \/ n = req.wLength
    /\ acted' = "yes"
    /\ UNCHANGED <<phase, req, n, result>>

DataIn ==
    /\ phase = "data" /\ req.in /\ acted = "yes"
    /\ LET len == Chunk(Reply(req) - n)
       IN  /\ len >= 0
           /\ n' = n + len
           /\ phase' = IF len < MPS \/ n + len = req.wLength
                       THEN "status" ELSE "data"
    /\ UNCHANGED <<req, acted, result>>

DataOut ==
    /\ phase = "data" /\ ~req.in /\ acted = "no"
    /\ n' = n + Chunk(req.wLength - n)
    /\ phase' = IF n' = req.wLength THEN "status" ELSE "data"
    /\ UNCHANGED <<req, acted, result>>

Complete ==
    /\ phase = "status" /\ acted = "yes"
    /\ n = IF req.in THEN Reply(req) ELSE req.wLength
    /\ phase' = "idle"
    /\ result' = "ok"
    /\ UNCHANGED <<req, n, acted>>

Refuse ==
    /\ phase # "idle" /\ acted = "no" /\ ~Handled(req)
    /\ phase' = "idle"
    /\ result' = "refused"
    /\ UNCHANGED <<req, n, acted>>

Reset ==
    /\ phase' = "idle"
    /\ result' = "reset"
    /\ UNCHANGED <<req, n, acted>>

Next ==
    \/ \E r \in Requests : Setup(r)
    \/ Act \/ DataIn \/ DataOut \/ Complete \/ Refuse \/ Reset

Spec == Init /\ [][Next]_vars
=============================================================================
