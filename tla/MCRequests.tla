----------------------------- MODULE MCRequests -----------------------------
(* The requests of the small instances: one for each way a transfer can go, *)
(* with packets of 2 bytes and an ep0.data of 4 bytes.                      *)
Get(wLength, avail) ==
    [in |-> TRUE, wLength |-> wLength, act |-> "class", avail |-> avail, addr |-> 0]
Set(wLength) ==
    [in |-> FALSE, wLength |-> wLength, act |-> "class", avail |-> 0, addr |-> 0]

SetConfiguration ==
    [in |-> FALSE, wLength |-> 0, act |-> "setconf", avail |-> 0, addr |-> 0]
SetAddress(addr) ==
    [in |-> FALSE, wLength |-> 0, act |-> "setaddr", avail |-> 0, addr |-> addr]
GetUnknown ==
    [in |-> TRUE, wLength |-> 2, act |-> "unknown", avail |-> 0, addr |-> 0]

\* Replies: short; exact and in two packets; cut to wLength; of a full packet
\* that an empty one must follow; none asked for.
Gets == {Get(4, 1), Get(3, 3), Get(2, 4), Get(4, 2), Get(0, 1)}
\* Data from the host: none, one packet, two packets, too much.
Sets == {Set(0), Set(2), Set(3), Set(5)}

AllTransfers == Gets \cup Sets \cup {SetConfiguration, GetUnknown}
Enumeration ==
    {Get(4, 1), Get(4, 2), Set(3), SetConfiguration, SetAddress(1), SetAddress(2)}
=============================================================================
