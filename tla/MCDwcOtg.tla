------------------------------ MODULE MCDwcOtg ------------------------------
(* Small instances of DwcOtg. *)
EXTENDS DwcOtg, MCRequests

DwcRequests ==
    {Get(3, 3), Get(2, 4), Get(4, 2), Get(0, 1), Set(3), Set(5), GetUnknown,
     SetConfiguration, SetAddress(1)}

AbortTransfers == {Get(4, 2), Set(3), GetUnknown}
=============================================================================
