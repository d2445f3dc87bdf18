------------------------------- MODULE MCHid -------------------------------
(* Two programs; commands good and bad in each way vdr_cmd tells apart.     *)
EXTENDS Hid

Sub(len, padded, idx) ==
    [cmd |-> "subreport", len |-> len, padded |-> padded, arg |-> idx,
     deadbeef |-> FALSE]
Dfu(len, padded, magic) ==
    [cmd |-> "dfu", len |-> len, padded |-> padded, arg |-> 0,
     deadbeef |-> magic]

MCCommands ==
    {Sub(4, TRUE, 1), Sub(4, TRUE, SUBREPORT_MAX + 1), Sub(5, TRUE, 1),
     Sub(4, FALSE, 1), Sub(1, TRUE, 1), Sub(REPORT_SZ + 1, TRUE, 1),
     Dfu(6, TRUE, TRUE), Dfu(6, TRUE, FALSE), Dfu(5, TRUE, TRUE)}

CONSTANTS c1, c2
=============================================================================
